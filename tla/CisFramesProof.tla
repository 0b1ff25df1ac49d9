---------------------------- MODULE CisFramesProof ---------------------------
(***************************************************************************)
(* The frames of Cis are where their numbers say, for every capacity, size *)
(* of a put, limit and kind of compressor, when the caller waits for       *)
(* images and for the pending compression as WaitsFor says.                *)
(*                                                                         *)
(* From the bottom: a buffer is Sound when its infos tile its memory and   *)
(* every frame lies where the info with its number says; seeking and       *)
(* reading move the read position to the info that holds the frame         *)
(* (Reached, Positioned).  A manager is sound when its buffers are, each   *)
(* starts where the one before it ends (Chain), and next_decompress_frame, *)
(* from which seeks start, is the first frame of an info (NextKnown).      *)
(* Frames are only ever added behind the last one (Grown) and dropped      *)
(* before the start (StartedBy), so that the frames XilCis may ask for     *)
(* stay there (Window).  FramesInv ties that to the numbers XilCis keeps.  *)
(***************************************************************************)
EXTENDS CisProof

\* Numbers each of which is smaller than the next ascend.
LEMMA Ascending ==
    ASSUME NEW n \in Nat, NEW g, \A p \in 0 .. n : g[p] \in Int,
           \A p \in 0 .. n - 1 : g[p] < g[p + 1]
    PROVE  \A p, q \in 0 .. n : p < q => g[p] < g[q]
<1> SUFFICES ASSUME NEW p \in 0 .. n PROVE \A q \in 0 .. n : p < q => g[p] < g[q]
  OBVIOUS
<1> DEFINE T == {q \in 0 .. n : p < q /\ ~(g[p] < g[q])}
<1>1. T = {}
  <2>1. SUFFICES ASSUME T # {} PROVE FALSE
    OBVIOUS
  <2>2. PICK q \in T : \A m \in T : q <= m
    <3>1. T \subseteq Nat
      OBVIOUS
    <3> HIDE DEF T
    <3> QED
      BY <2>1, <3>1, LeastNat
  <2>3. q \in 0 .. n /\ p < q /\ ~(g[p] < g[q])
    OBVIOUS
  <2>4. q - 1 \in 0 .. n - 1 /\ q - 1 \in 0 .. n /\ (q - 1) + 1 = q /\ q - 1 \notin T
    BY <2>2, <2>3
  <2>5. g[q - 1] < g[q] /\ g[q - 1] \in Int /\ g[q] \in Int /\ g[p] \in Int
    BY <2>3, <2>4
  <2>6. p = q - 1 \/ g[p] < g[q - 1]
    BY <2>3, <2>4
  <2> QED
    BY <2>3, <2>5, <2>6
<1> QED
  BY <1>1

-----------------------------------------------------------------------------
(***************************************************************************)
(* A buffer that holds the frames start .. start + num - 1 written after   *)
(* n resets, each where its info says.  Border(b, p) is the number of the  *)
(* first frame of the info at position p; at the end of the list it is the *)
(* number of the frame that would be next.                                 *)
(***************************************************************************)
Border(b, p) == IF p < Len(b.infos) THEN b.infos[p + 1].id ELSE b.start + b.num

SoundInfo(b, p) ==
    /\ b.infos[p + 1].num > 0
    /\ b.infos[p + 1].num = Border(b, p + 1) - Border(b, p)
    /\ b.infos[p + 1].at = Border(b, p) + b.base - b.start

Sound(b, n) ==
    /\ b \in Buffers
    /\ Len(b.infos) > 0 /\ b.start >= 0 /\ b.base >= 0
    /\ Border(b, 0) = b.start
    /\ \A p \in 0 .. Len(b.infos) - 1 : SoundInfo(b, p)
    /\ Len(b.mem) = b.base + b.num
    /\ \A k \in b.base + 1 .. Len(b.mem) : b.mem[k] = <<n, b.start + (k - 1 - b.base)>>
    /\ b.pos # NoPosition
    /\ b.ptr = b.base + (Border(b, b.pos) - b.start)

\* The infos of a buffer are in the order of their frames, which are those of the buffer.
LEMMA Borders ==
    ASSUME NEW b, NEW n, Sound(b, n)
    PROVE  /\ \A p \in 0 .. Len(b.infos) : Border(b, p) \in Int
           /\ \A p, q \in 0 .. Len(b.infos) : p < q => Border(b, p) < Border(b, q)
           /\ \A p \in 0 .. Len(b.infos) : b.start <= Border(b, p) /\ Border(b, p) <= b.start + b.num
<1>1. /\ b \in Buffers /\ Len(b.infos) \in Nat /\ b.start \in Int /\ b.num \in Int
      /\ Border(b, 0) = b.start
  BY BufferFields DEF Sound
<1>2. ASSUME NEW p \in 0 .. Len(b.infos) PROVE Border(b, p) \in Int
  <2>1. CASE p < Len(b.infos)
    <3>1. p \in 0 .. Len(b.infos) - 1
      BY <1>1, <2>1
    <3>2. Retrieve(b, p).id \in Int /\ Retrieve(b, p) = b.infos[p + 1]
      BY <1>1, <3>1, BufferFields
    <3> QED
      BY <2>1, <3>2 DEF Border
  <2>2. CASE ~(p < Len(b.infos))
    BY <1>1, <2>2 DEF Border
  <2> QED
    BY <2>1, <2>2
<1>3. ASSUME NEW p \in 0 .. Len(b.infos) - 1 PROVE Border(b, p) < Border(b, p + 1)
  <2>1. SoundInfo(b, p)
    BY DEF Sound
  <2>2. p \in 0 .. Len(b.infos) /\ p + 1 \in 0 .. Len(b.infos)
    BY <1>1
  <2>3. Border(b, p) \in Int /\ Border(b, p + 1) \in Int
    BY <1>2, <2>2
  <2>4. Border(b, p + 1) - Border(b, p) > 0
    BY <2>1 DEF SoundInfo
  <2> QED
    BY <2>3, <2>4
<1> DEFINE N == Len(b.infos)
           g == [p \in 0 .. N |-> Border(b, p)]
<1>4. \A p \in 0 .. N : g[p] = Border(b, p)
  OBVIOUS
<1>5. \A p, q \in 0 .. N : p < q => g[p] < g[q]
  <2>1. \A p \in 0 .. N : g[p] \in Int
    BY <1>2
  <2>2. \A p \in 0 .. N - 1 : g[p] < g[p + 1]
    <3>1. \A p \in 0 .. N - 1 : p \in 0 .. N /\ p + 1 \in 0 .. N
      BY <1>1
    <3> QED
      BY <1>3, <3>1
  <2>3. N \in Nat
    BY <1>1
  <2> HIDE DEF g, N
  <2> QED
    BY <2>1, <2>2, <2>3, Ascending
<1>6. \A p, q \in 0 .. Len(b.infos) : p < q => Border(b, p) < Border(b, q)
  BY <1>4, <1>5
<1>7. ASSUME NEW p \in 0 .. Len(b.infos)
      PROVE  b.start <= Border(b, p) /\ Border(b, p) <= b.start + b.num
  <2>1. Border(b, Len(b.infos)) = b.start + b.num
    BY <1>1 DEF Border
  <2>2. Border(b, p) \in Int /\ 0 \in 0 .. Len(b.infos) /\ Len(b.infos) \in 0 .. Len(b.infos)
    BY <1>1, <1>2
  <2>3. p = 0 \/ Border(b, 0) < Border(b, p)
    BY <1>6, <2>2
  <2>4. p = Len(b.infos) \/ Border(b, p) < Border(b, Len(b.infos))
    BY <1>1, <1>6, <2>2
  <2> QED
    BY <1>1, <2>1, <2>2, <2>3, <2>4
<1> QED
  BY <1>2, <1>6, <1>7

\* What the other lemmas use of a buffer.
LEMMA SoundFields ==
    ASSUME NEW b, NEW n, Sound(b, n)
    PROVE  /\ b \in Buffers /\ Len(b.infos) \in Nat /\ Len(b.infos) > 0
           /\ b.mem \in Seq(FrameIds) /\ b.infos \in Seq(Infos)
           /\ b.start \in Nat /\ b.num \in Nat /\ b.num > 0 /\ b.base \in Nat
           /\ b.pos \in 0 .. Len(b.infos)
           /\ RFrameId(b) = Border(b, b.pos) /\ RFrameId(b) \in Int
           /\ b.start <= RFrameId(b) /\ RFrameId(b) <= b.start + b.num
           /\ b.ptr = b.base + (RFrameId(b) - b.start)
           /\ Len(b.mem) = b.base + b.num
           /\ b.pos < Len(b.infos) <=> RFrameId(b) < b.start + b.num
           /\ AtFrame(b) <=> b.pos < Len(b.infos)
           /\ Valid(b, b.pos) <=> b.pos < Len(b.infos)
           /\ Border(b, 0) = b.start /\ Border(b, Len(b.infos)) = b.start + b.num
           /\ \A p \in 0 .. Len(b.infos) - 1 :
                 /\ Retrieve(b, p).id = Border(b, p)
                 /\ Retrieve(b, p).num = Border(b, p + 1) - Border(b, p)
                 /\ Retrieve(b, p).at = Border(b, p) + b.base - b.start
                 /\ Border(b, p) < Border(b, p + 1)
                 /\ Border(b, p) \in Int /\ Border(b, p + 1) \in Int
<1>1. /\ b \in Buffers /\ Len(b.infos) \in Nat /\ Len(b.infos) > 0
      /\ b.mem \in Seq(FrameIds) /\ b.infos \in Seq(Infos)
      /\ b.start \in Nat /\ b.num \in Int /\ b.base \in Nat /\ b.ptr \in Int
      /\ Border(b, 0) = b.start /\ Len(b.mem) = b.base + b.num /\ b.start \in Int
      /\ b.base \in Int
      /\ b.ptr = b.base + (Border(b, b.pos) - b.start)
  BY BufferFields DEF Sound
<1>2. b.pos \in 0 .. Len(b.infos)
  BY BufferFields DEF Sound, NoPosition
<1>3. /\ \A p \in 0 .. Len(b.infos) : Border(b, p) \in Int
      /\ \A p, q \in 0 .. Len(b.infos) : p < q => Border(b, p) < Border(b, q)
      /\ \A p \in 0 .. Len(b.infos) : b.start <= Border(b, p) /\ Border(b, p) <= b.start + b.num
  BY Borders
<1>4. Border(b, Len(b.infos)) = b.start + b.num
  BY <1>1 DEF Border
<1>5. Valid(b, b.pos) <=> b.pos < Len(b.infos)
  BY <1>1, <1>2 DEF Valid, End
<1>6. RFrameId(b) = Border(b, b.pos)
  BY <1>1, <1>2, <1>5 DEF RFrameId, Border, NoPosition, Retrieve
<1>7. b.num > 0 /\ b.num \in Nat
  <2>1. 0 \in 0 .. Len(b.infos) /\ Len(b.infos) \in 0 .. Len(b.infos) /\ 0 < Len(b.infos)
    BY <1>1
  <2>2. Border(b, 0) < Border(b, Len(b.infos))
    BY <1>3, <2>1
  <2> QED
    BY <1>1, <1>4, <2>2
<1>8. b.pos < Len(b.infos) <=> RFrameId(b) < b.start + b.num
  <2>1. Len(b.infos) \in 0 .. Len(b.infos)
    BY <1>1
  <2>2. CASE b.pos < Len(b.infos)
    BY <1>2, <1>3, <1>4, <1>6, <2>1, <2>2
  <2>3. CASE ~(b.pos < Len(b.infos))
    <3>1. b.pos = Len(b.infos)
      BY <1>1, <1>2, <2>3
    <3> QED
      BY <1>1, <1>4, <1>6, <2>3, <3>1
  <2> QED
    BY <2>2, <2>3
<1>9. RFrameId(b) \in Int /\ b.start <= RFrameId(b) /\ RFrameId(b) <= b.start + b.num
  BY <1>2, <1>3, <1>6
<1>10. b.ptr = b.base + (RFrameId(b) - b.start)
  BY <1>1, <1>6
<1>11. AtFrame(b) <=> b.pos < Len(b.infos)
  BY <1>1, <1>8, <1>9, <1>10 DEF AtFrame
<1>12. ASSUME NEW p \in 0 .. Len(b.infos) - 1
       PROVE  /\ Retrieve(b, p).id = Border(b, p)
              /\ Retrieve(b, p).num = Border(b, p + 1) - Border(b, p)
              /\ Retrieve(b, p).at = Border(b, p) + b.base - b.start
              /\ Border(b, p) < Border(b, p + 1)
              /\ Border(b, p) \in Int /\ Border(b, p + 1) \in Int
  <2>1. p \in 0 .. Len(b.infos) /\ p + 1 \in 0 .. Len(b.infos) /\ p < p + 1 /\ p < Len(b.infos)
    BY <1>1
  <2>2. SoundInfo(b, p)
    BY DEF Sound
  <2> QED
    BY <1>3, <2>1, <2>2 DEF SoundInfo, Retrieve, Border
<1> QED
  BY <1>1, <1>2, <1>4, <1>5, <1>6, <1>7, <1>8, <1>9, <1>10, <1>11, <1>12

\* Two buffers that differ in the read position only.
SameFrames(b, d) ==
    /\ d.mem = b.mem /\ d.base = b.base /\ d.start = b.start /\ d.num = b.num
    /\ d.infos = b.infos

\* The buffer with the read position at p.
At(b, p) == Placed(b, p, b.base + (Border(b, p) - b.start))

\* The read pointer goes with the position.
LEMMA SoundAt ==
    ASSUME NEW b, NEW n, Sound(b, n), NEW p \in 0 .. Len(b.infos), NEW d, d = At(b, p)
    PROVE  /\ Sound(d, n) /\ SameFrames(b, d) /\ d.pos = p /\ RFrameId(d) = Border(b, p)
           /\ \A q : Border(d, q) = Border(b, q) /\ At(d, q) = At(b, q)
<1>1. /\ b \in Buffers /\ Len(b.infos) \in Nat /\ b.base \in Int /\ b.start \in Int
      /\ Border(b, p) \in Int /\ b \in BufferRecords
  BY SoundFields, Borders, BufferFields
<1>2. PICK ptr : ptr = b.base + (Border(b, p) - b.start)
  OBVIOUS
<1>3. d = Placed(b, p, ptr) /\ ptr \in Int /\ p \in -1 .. Len(b.infos)
  BY <1>1, <1>2 DEF At
<1>4. /\ d \in Buffers /\ d.pos = p /\ d.ptr = ptr /\ d.mem = b.mem /\ d.base = b.base
      /\ d.start = b.start /\ d.num = b.num /\ d.infos = b.infos
  BY ONLY <1>1, <1>3, PlacedBuffer
<1>5. \A q : Border(d, q) = Border(b, q)
  BY <1>4 DEF Border
<1>6. \A q : SoundInfo(b, q) => SoundInfo(d, q)
  BY <1>4, <1>5 DEF SoundInfo
<1>7. Sound(d, n)
  <2>1. p # NoPosition
    BY <1>1 DEF NoPosition
  <2> QED
    BY <1>2, <1>4, <1>5, <1>6, <2>1 DEF Sound
<1>8. \A q : At(d, q) = At(b, q)
  <2>1. ASSUME NEW q, NEW x PROVE Placed(d, q, x) = Placed(b, q, x)
    BY ONLY <1>1, <1>3 DEF Placed, BufferRecords
  <2> QED
    BY <1>4, <1>5, <2>1 DEF At
<1>9. RFrameId(d) = Border(b, p)
  BY <1>4, <1>5, <1>7, SoundFields
<1> QED
  BY <1>4, <1>5, <1>7, <1>8, <1>9 DEF SameFrames

\* The steps of a position in the list of infos.
LEMMA SoundMoves ==
    ASSUME NEW b, NEW n, Sound(b, n)
    PROVE  /\ ReRead(b) = At(b, 0) /\ UnRead(b) = At(b, Len(b.infos)) /\ b = At(b, b.pos)
           /\ \A p \in 0 .. Len(b.infos) - 1 : \A k : AtInfo(b, p, k) = Sought(At(b, p), k)
<1>1. /\ b \in Buffers /\ Len(b.infos) \in Nat /\ b.base \in Int /\ b.start \in Int
      /\ Border(b, 0) = b.start /\ Border(b, Len(b.infos)) = b.start + b.num
      /\ b.num \in Int /\ Len(b.mem) = b.base + b.num /\ b \in BufferRecords
      /\ b.ptr = b.base + (Border(b, b.pos) - b.start)
  BY SoundFields, BufferFields
<1>2. b.base + (Border(b, 0) - b.start) = b.base
  BY <1>1
<1>3. b.base + (Border(b, Len(b.infos)) - b.start) = Len(b.mem)
  BY <1>1
<1>4. ReRead(b) = At(b, 0) /\ UnRead(b) = At(b, Len(b.infos))
  BY <1>1, <1>2, <1>3, ReadPositions DEF At, End
<1>5. b = At(b, b.pos)
  <2>1. b = Placed(b, b.pos, b.ptr)
    BY ONLY <1>1 DEF Placed, BufferRecords
  <2> QED
    BY <1>1, <2>1 DEF At
<1>6. ASSUME NEW p \in 0 .. Len(b.infos) - 1, NEW k PROVE AtInfo(b, p, k) = Sought(At(b, p), k)
  <2>1. /\ Retrieve(b, p).at = Border(b, p) + b.base - b.start /\ Border(b, p) \in Int
    BY SoundFields
  <2>2. Retrieve(b, p).at = b.base + (Border(b, p) - b.start)
    BY <1>1, <2>1
  <2> QED
    BY <2>2 DEF AtInfo, At, Placed
<1> QED
  BY <1>4, <1>5, <1>6

-----------------------------------------------------------------------------
\* A seek inside a buffer finds the info that holds the frame.
Found(b, f, x) ==
    \E p \in 0 .. Len(b.infos) - 1 :
        /\ x = Sought(At(b, p), f - Border(b, p))
        /\ Border(b, p) <= f /\ f < Border(b, p + 1)

\* The info a seek has found is the only one with the frame.
LEMMA FoundThere ==
    ASSUME NEW b, NEW n, Sound(b, n), NEW f \in Int, NEW d, NEW p \in 0 .. Len(b.infos),
           d = At(b, p), NEW x, Found(d, f, x)
    PROVE  Found(b, f, x)
<1>1. d.infos = b.infos /\ \A q : Border(d, q) = Border(b, q) /\ At(d, q) = At(b, q)
  BY SoundAt DEF SameFrames
<1> QED
  BY <1>1 DEF Found

\* The loops of seekToFrameId(), each towards one end of the list.
LEMMA SeekForwardToFinds ==
    ASSUME NEW b, NEW n, Sound(b, n), NEW f \in Int, RFrameId(b) <= f, f < b.start + b.num
    PROVE  Found(b, f, SeekForwardTo(b, f))
<1> DEFINE here == {p \in b.pos .. End(b) - 1 : f < Retrieve(b, p).id + Retrieve(b, p).num}
<1>1. /\ Len(b.infos) \in Nat /\ b.pos \in 0 .. Len(b.infos) - 1 /\ RFrameId(b) = Border(b, b.pos)
      /\ Border(b, Len(b.infos)) = b.start + b.num /\ Len(b.infos) > 0
  <2>1. /\ Len(b.infos) \in Nat /\ b.pos \in 0 .. Len(b.infos) /\ RFrameId(b) = Border(b, b.pos)
        /\ Border(b, Len(b.infos)) = b.start + b.num /\ Len(b.infos) > 0
        /\ b.pos < Len(b.infos) <=> RFrameId(b) < b.start + b.num
        /\ RFrameId(b) \in Int /\ b.start \in Int /\ b.num \in Int
    BY SoundFields
  <2>2. RFrameId(b) < b.start + b.num
    BY <2>1
  <2> QED
    BY <2>1, <2>2
<1>2. ASSUME NEW p \in 0 .. Len(b.infos) - 1
      PROVE  /\ Retrieve(b, p).id = Border(b, p)
             /\ Retrieve(b, p).id + Retrieve(b, p).num = Border(b, p + 1)
             /\ Border(b, p) \in Int /\ Border(b, p + 1) \in Int
  BY SoundFields
<1>3. here = {p \in b.pos .. Len(b.infos) - 1 : f < Border(b, p + 1)}
  BY <1>1, <1>2 DEF End
<1> HIDE DEF here
<1>4. here \subseteq Nat /\ here # {}
  <2>1. Len(b.infos) - 1 \in b.pos .. Len(b.infos) - 1 /\ (Len(b.infos) - 1) + 1 = Len(b.infos)
    BY <1>1
  <2> QED
    BY <1>1, <1>3, <2>1
<1>5. PICK p : p = Min(here)
  OBVIOUS
<1>6. p \in here /\ \A q \in here : p <= q
  BY <1>4, <1>5, MinOfNats
<1>7. p \in 0 .. Len(b.infos) - 1 /\ p \in b.pos .. Len(b.infos) - 1 /\ f < Border(b, p + 1)
  BY <1>1, <1>3, <1>6
<1>8. Border(b, p) <= f
  <2>1. CASE p = b.pos
    BY <1>1, <2>1
  <2>2. CASE p # b.pos
    <3>1. p - 1 \in b.pos .. Len(b.infos) - 1 /\ p - 1 \notin here /\ (p - 1) + 1 = p
      BY <1>1, <1>6, <1>7, <2>2
    <3> QED
      BY <1>2, <1>3, <1>7, <3>1
  <2> QED
    BY <2>1, <2>2
<1>9. SeekForwardTo(b, f) = AtInfo(b, p, ToBurn(b, p, f))
  <2>1. b.pos # End(b)
    BY <1>1 DEF End
  <2> QED
    BY <1>4, <1>5, <2>1, Zenon DEF SeekForwardTo, here
<1>10. SeekForwardTo(b, f) = Sought(At(b, p), f - Border(b, p))
  BY <1>2, <1>7, <1>9, SoundMoves DEF ToBurn
<1> QED
  BY <1>7, <1>8, <1>10 DEF Found

LEMMA SeekBackwardToFinds ==
    ASSUME NEW b, NEW n, Sound(b, n), NEW f \in Int, b.start <= f, f < b.start + b.num,
           b.pos = Len(b.infos) \/ f < RFrameId(b)
    PROVE  Found(b, f, SeekBackwardTo(b, f))
<1> DEFINE last == IF b.pos = End(b) THEN b.pos - 1 ELSE b.pos
           T == {q \in 0 .. last : q = 0 \/ f >= Retrieve(b, q).id}
<1>1. /\ Len(b.infos) \in Nat /\ b.pos \in 0 .. Len(b.infos) /\ RFrameId(b) = Border(b, b.pos)
      /\ Border(b, Len(b.infos)) = b.start + b.num /\ Len(b.infos) > 0
      /\ Border(b, 0) = b.start
  BY SoundFields
<1>2. ASSUME NEW p \in 0 .. Len(b.infos) - 1
      PROVE  /\ Retrieve(b, p).id = Border(b, p)
             /\ Border(b, p) \in Int /\ Border(b, p + 1) \in Int
  BY SoundFields
<1>3. /\ last \in 0 .. Len(b.infos) - 1 /\ last \in Nat
      /\ f < Border(b, last + 1) \/ f < Border(b, last)
  <2>1. CASE b.pos = Len(b.infos)
    BY <1>1, <2>1 DEF End
  <2>2. CASE b.pos # Len(b.infos)
    BY <1>1, <2>2 DEF End
  <2> QED
    BY <2>1, <2>2
<1>4. T = {q \in 0 .. last : q = 0 \/ f >= Border(b, q)}
  BY <1>2, <1>3
<1>5. SeekBackwardTo(b, f) =
         AtInfo(b, Max(T), IF f >= Retrieve(b, Max(T)).id THEN ToBurn(b, Max(T), f) ELSE -1)
  <2>1. ~(last < 0)
    BY <1>3
  <2> QED
    BY <2>1, Zenon DEF SeekBackwardTo
<1> HIDE DEF last, T
<1>6. T \subseteq 0 .. last /\ T # {}
  <2>1. 0 \in 0 .. last
    BY ONLY <1>3
  <2>2. 0 \in T
    BY ONLY <1>4, <2>1
  <2> QED
    BY ONLY <1>4, <2>2
<1>7. PICK p : p = Max(T)
  OBVIOUS
<1>8. p \in T /\ \A q \in T : p >= q
  BY <1>3, <1>6, <1>7, MaxOfNats
<1>9. p \in 0 .. last /\ p \in 0 .. Len(b.infos) - 1 /\ Border(b, p) <= f
  BY <1>1, <1>2, <1>3, <1>4, <1>8
<1>10. f < Border(b, p + 1)
  <2>1. CASE p = last
    <3>1. f < Border(b, last) => FALSE
      BY <1>2, <1>9, <2>1
    <3> QED
      BY <1>3, <2>1, <3>1
  <2>2. CASE p # last
    <3>1. p + 1 \in 0 .. last /\ p + 1 \notin T /\ p + 1 \in 0 .. Len(b.infos) - 1
      BY <1>3, <1>8, <1>9, <2>2
    <3> QED
      BY <1>2, <1>4, <3>1
  <2> QED
    BY <2>1, <2>2
<1>11. SeekBackwardTo(b, f) = AtInfo(b, p, f - Border(b, p))
  <2>1. Retrieve(b, p).id = Border(b, p) /\ f >= Retrieve(b, p).id
    BY <1>2, <1>9
  <2> QED
    BY <1>5, <1>7, <2>1 DEF ToBurn
<1>12. SeekBackwardTo(b, f) = Sought(At(b, p), f - Border(b, p))
  BY <1>9, <1>11, SoundMoves
<1> QED
  BY <1>9, <1>10, <1>12 DEF Found

LEMMA SeekToFinds ==
    ASSUME NEW b, NEW n, Sound(b, n), NEW f \in Int, b.start <= f, f < b.start + b.num
    PROVE  Found(b, f, SeekTo(b, f))
<1> DEFINE id == RFrameId(b)
<1>1. /\ Len(b.infos) \in Nat /\ b.pos \in 0 .. Len(b.infos) /\ id = Border(b, b.pos)
      /\ Len(b.infos) > 0 /\ Border(b, 0) = b.start /\ id \in Int /\ b.start \in Nat
      /\ b.num \in Nat /\ b.start <= id
      /\ b.pos < Len(b.infos) <=> id < b.start + b.num
  BY SoundFields
<1> HIDE DEF id
<1>2. id # UnknownId
  BY ONLY <1>1 DEF UnknownId
<1>3. 0 \in 0 .. Len(b.infos) - 1 /\ 0 \in 0 .. Len(b.infos) /\ Len(b.infos) \in 0 .. Len(b.infos)
  BY <1>1
<1>4. \A p \in 0 .. Len(b.infos) - 1 : Border(b, p) < Border(b, p + 1) /\ Border(b, p) \in Int
  BY SoundFields
<1>5. ReRead(b) = At(b, 0) /\ UnRead(b) = At(b, Len(b.infos)) /\ b = At(b, b.pos)
  BY SoundMoves
<1>6. /\ Sound(ReRead(b), n) /\ RFrameId(ReRead(b)) = b.start
      /\ ReRead(b).start = b.start /\ ReRead(b).num = b.num
  BY <1>1, <1>3, <1>5, SoundAt DEF SameFrames
<1>7. /\ Sound(UnRead(b), n) /\ UnRead(b).pos = Len(UnRead(b).infos)
      /\ UnRead(b).start = b.start /\ UnRead(b).num = b.num
  BY <1>1, <1>3, <1>5, SoundAt DEF SameFrames
<1>8. CASE f = id
  <2>1. b.pos \in 0 .. Len(b.infos) - 1 /\ f - Border(b, b.pos) = 0
    BY <1>1, <1>8
  <2>2. SeekFromId(b, id, f) = Sought(b, 0)
    <3>1. ~(f > id)
      BY <1>1, <1>8
    <3> QED
      BY ONLY <1>8, <3>1, Zenon DEF SeekFromId
  <2>3. f < Border(b, b.pos + 1) /\ Border(b, b.pos) <= f
    BY <1>1, <1>4, <1>8, <2>1
  <2>4. Found(b, f, Sought(b, 0))
    BY <1>5, <2>1, <2>3 DEF Found
  <2> QED
    BY <2>2, <2>4 DEF SeekTo, id
<1>9. CASE f # id /\ f = b.start
  <2>1. SeekFromId(b, id, f) = Sought(ReRead(b), 0)
    BY <1>1, <1>9 DEF SeekFromId
  <2>2. f - Border(b, 0) = 0 /\ Border(b, 0) <= f /\ f < Border(b, 0 + 1)
    BY <1>1, <1>3, <1>4, <1>9
  <2>3. Found(b, f, Sought(ReRead(b), 0))
    BY <1>3, <1>5, <2>2 DEF Found
  <2> QED
    BY <2>1, <2>3 DEF SeekTo, id
<1>10. CASE f > b.start /\ f > id
  <2>1. Found(b, f, SeekForwardTo(b, f))
    BY <1>1, <1>10, SeekForwardToFinds DEF id
  <2>2. Found(UnRead(b), f, SeekBackwardTo(UnRead(b), f))
    BY <1>7, SeekBackwardToFinds
  <2>3. Found(b, f, SeekBackwardTo(UnRead(b), f))
    BY <1>3, <1>5, <2>2, FoundThere
  <2>4. SeekFromId(b, id, f) \in {SeekForwardTo(b, f), SeekBackwardTo(UnRead(b), f)}
    <3>1. /\ f # id /\ f # b.start /\ ~(f < b.start \/ (f > b.start /\ id = UnknownId))
          /\ f > b.start /\ id # UnknownId /\ f > id
      BY <1>1, <1>2, <1>10
    <3> QED
      BY ONLY <3>1, Zenon DEF SeekFromId
  <2> QED
    BY <2>1, <2>3, <2>4 DEF SeekTo, id
<1>11. CASE f > b.start /\ f < id
  <2>1. Found(b, f, SeekBackwardTo(b, f))
    BY <1>11, SeekBackwardToFinds DEF id
  <2>2. Found(ReRead(b), f, SeekForwardTo(ReRead(b), f))
    BY <1>6, SeekForwardToFinds
  <2>3. Found(b, f, SeekForwardTo(ReRead(b), f))
    BY <1>3, <1>5, <2>2, FoundThere
  <2>4. SeekFromId(b, id, f) \in {SeekBackwardTo(b, f), SeekForwardTo(ReRead(b), f)}
    <3>1. /\ f # id /\ f # b.start /\ ~(f < b.start) /\ id # UnknownId /\ ~(f > id)
      BY <1>1, <1>2, <1>11
    <3> QED
      BY ONLY <3>1, Zenon DEF SeekFromId
  <2> QED
    BY <2>1, <2>3, <2>4 DEF SeekTo, id
<1> QED
  BY <1>1, <1>8, <1>9, <1>10, <1>11

-----------------------------------------------------------------------------
(***************************************************************************)
(* A manager whose list holds the frames up to wid, each buffer starting   *)
(* where the one before it ends; whose read position is at a frame unless  *)
(* it has reached the write position; and whose next_decompress_frame is   *)
(* the first frame of an info, or the frame that would be next.            *)
(***************************************************************************)
EndOf(b) == b.start + b.num

Chain(c, n) ==
    /\ Manager(c) /\ c.r # NoBuffer /\ c.null = FALSE
    /\ \A i \in 1 .. Len(c.bufs) : Sound(c.bufs[i], n)
    /\ \A i \in 1 .. Len(c.bufs) - 1 : EndOf(c.bufs[i]) = c.bufs[i + 1].start
    /\ EndOf(c.bufs[Len(c.bufs)]) = c.wid

ReadKept(c) == c.r < Len(c.bufs) => c.bufs[c.r].pos < Len(c.bufs[c.r].infos)

NotInside(c, f) ==
    \A i \in 1 .. Len(c.bufs) : \A p \in 0 .. Len(c.bufs[i].infos) - 1 :
        ~(Border(c.bufs[i], p) < f /\ f < Border(c.bufs[i], p + 1))

NextKnown(c) == c.bufs[1].start <= c.next /\ c.next <= c.wid /\ NotInside(c, c.next)

SoundManager(c, n) == Chain(c, n) /\ ReadKept(c) /\ NextKnown(c)

\* What the other lemmas use of a manager: its first, last and read buffer.
LEMMA Edges ==
    ASSUME NEW c, NEW n, Chain(c, n)
    PROVE  /\ Len(c.bufs) \in Nat /\ Len(c.bufs) >= 1 /\ c.s = 1 /\ c.w = Len(c.bufs)
           /\ c.r \in 1 .. Len(c.bufs) /\ 1 \in 1 .. Len(c.bufs) /\ Len(c.bufs) \in 1 .. Len(c.bufs)
           /\ S(c) = c.bufs[1] /\ W(c) = c.bufs[Len(c.bufs)] /\ R(c) = c.bufs[c.r]
           /\ c.wid \in Nat /\ c.next \in Int
           /\ \A i \in 1 .. Len(c.bufs) :
                 /\ Sound(c.bufs[i], n)
                 /\ c.bufs[i].start \in Nat /\ c.bufs[i].num \in Nat /\ c.bufs[i].num > 0
                 /\ EndOf(c.bufs[i]) = c.bufs[i].start + c.bufs[i].num
                 /\ EndOf(c.bufs[i]) \in Nat
                 /\ c.bufs[i].start < EndOf(c.bufs[i])
                 /\ c.bufs[1].start <= c.bufs[i].start /\ EndOf(c.bufs[i]) <= c.wid
           /\ \A i, j \in 1 .. Len(c.bufs) : i < j => EndOf(c.bufs[i]) <= c.bufs[j].start
<1>1. /\ Len(c.bufs) \in Nat /\ Len(c.bufs) > 0 /\ c.s = 1 /\ c.w = Len(c.bufs)
      /\ c.r \in 1 .. Len(c.bufs) /\ c.wid \in Nat /\ c.next \in Int
  BY ManagerFields DEF Chain
<1>2. /\ 1 \in 1 .. Len(c.bufs) /\ Len(c.bufs) \in 1 .. Len(c.bufs) /\ Len(c.bufs) >= 1
  BY ONLY <1>1
<1>3. S(c) = c.bufs[1] /\ W(c) = c.bufs[Len(c.bufs)] /\ R(c) = c.bufs[c.r]
  BY <1>1 DEF S, W, R
<1>4. ASSUME NEW i \in 1 .. Len(c.bufs)
      PROVE  /\ Sound(c.bufs[i], n)
             /\ c.bufs[i].start \in Nat /\ c.bufs[i].num \in Nat /\ c.bufs[i].num > 0
             /\ EndOf(c.bufs[i]) = c.bufs[i].start + c.bufs[i].num
             /\ EndOf(c.bufs[i]) \in Nat /\ c.bufs[i].start < EndOf(c.bufs[i])
  <2>1. PICK b : b = c.bufs[i]
    OBVIOUS
  <2>2. Sound(b, n)
    BY <2>1 DEF Chain
  <2>3. b.start \in Nat /\ b.num \in Nat /\ b.num > 0
    BY <2>2, SoundFields
  <2>4. EndOf(b) = b.start + b.num /\ EndOf(b) \in Nat /\ b.start < EndOf(b)
    BY ONLY <2>3 DEF EndOf
  <2> QED
    BY ONLY <2>1, <2>2, <2>3, <2>4
<1>5. ASSUME NEW i \in 1 .. Len(c.bufs) - 1
      PROVE  EndOf(c.bufs[i]) = c.bufs[i + 1].start
  BY DEF Chain
<1> DEFINE g == [i \in 0 .. Len(c.bufs) - 1 |-> c.bufs[i + 1].start]
<1>6. \A p, q \in 0 .. Len(c.bufs) - 1 : p < q => g[p] < g[q]
  <2>1. \A p \in 0 .. Len(c.bufs) - 1 : g[p] \in Int /\ g[p] = c.bufs[p + 1].start
    BY <1>1, <1>4
  <2>2. ASSUME NEW p \in 0 .. (Len(c.bufs) - 1) - 1 PROVE g[p] < g[p + 1]
    <3>1. /\ p + 1 \in 1 .. Len(c.bufs) - 1 /\ p \in 0 .. Len(c.bufs) - 1
          /\ p + 1 \in 0 .. Len(c.bufs) - 1 /\ p + 1 \in 1 .. Len(c.bufs)
      BY ONLY <1>1, p \in 0 .. (Len(c.bufs) - 1) - 1
    <3>2. g[p + 1] = c.bufs[(p + 1) + 1].start /\ g[p] = c.bufs[p + 1].start
      BY ONLY <2>1, <3>1
    <3>3. EndOf(c.bufs[p + 1]) = c.bufs[(p + 1) + 1].start
      BY <1>5, <3>1
    <3>4. c.bufs[p + 1].start < EndOf(c.bufs[p + 1])
      BY ONLY <1>4, <3>1
    <3> HIDE DEF g
    <3> QED
      BY ONLY <3>2, <3>3, <3>4
  <2>3. Len(c.bufs) - 1 \in Nat
    BY ONLY <1>1
  <2> HIDE DEF g
  <2> QED
    BY <2>1, <2>2, <2>3, Ascending
<1>7. ASSUME NEW i \in 1 .. Len(c.bufs), NEW j \in 1 .. Len(c.bufs), i < j
      PROVE  EndOf(c.bufs[i]) <= c.bufs[j].start
  <2>1. /\ i \in 1 .. Len(c.bufs) - 1 /\ i \in 0 .. Len(c.bufs) - 1 /\ (i + 1) - 1 = i
        /\ j - 1 \in 0 .. Len(c.bufs) - 1 /\ (j - 1) + 1 = j
        /\ i < j - 1 \/ i + 1 = j
    BY ONLY <1>1, <1>7, i \in 1 .. Len(c.bufs), j \in 1 .. Len(c.bufs)
  <2>2. EndOf(c.bufs[i]) = c.bufs[i + 1].start /\ EndOf(c.bufs[i]) \in Nat
    BY ONLY <1>4, <1>5, <2>1, i \in 1 .. Len(c.bufs)
  <2>3. g[i] = c.bufs[i + 1].start /\ g[j - 1] = c.bufs[j].start
    BY <2>1
  <2> HIDE DEF g
  <2>4. CASE i + 1 = j
    BY ONLY <2>2, <2>4
  <2>5. CASE i < j - 1
    <3>1. g[i] < g[j - 1]
      BY ONLY <1>6, <2>1, <2>5
    <3>2. c.bufs[j].start \in Nat
      BY ONLY <1>4, j \in 1 .. Len(c.bufs)
    <3> QED
      BY ONLY <2>2, <2>3, <3>1, <3>2
  <2> QED
    BY ONLY <2>1, <2>4, <2>5
<1>8. ASSUME NEW i \in 1 .. Len(c.bufs)
      PROVE  c.bufs[1].start <= c.bufs[i].start /\ EndOf(c.bufs[i]) <= c.wid
  <2>1. c.bufs[1].start <= c.bufs[i].start
    <3>1. CASE i = 1
      BY ONLY <1>4, <1>2, <3>1
    <3>2. CASE i # 1
      <4>1. 1 < i
        BY ONLY <1>1, <3>2, i \in 1 .. Len(c.bufs)
      <4>2. EndOf(c.bufs[1]) <= c.bufs[i].start
        BY ONLY <1>2, <1>7, <4>1, i \in 1 .. Len(c.bufs)
      <4> QED
        BY ONLY <1>2, <1>4, <4>2, i \in 1 .. Len(c.bufs)
    <3> QED
      BY ONLY <3>1, <3>2
  <2>2. EndOf(c.bufs[i]) <= c.wid
    <3>1. EndOf(c.bufs[Len(c.bufs)]) = c.wid
      BY DEF Chain
    <3>2. CASE i = Len(c.bufs)
      BY ONLY <1>1, <3>1, <3>2
    <3>3. CASE i # Len(c.bufs)
      <4>1. i < Len(c.bufs)
        BY ONLY <1>1, <3>3, i \in 1 .. Len(c.bufs)
      <4>2. EndOf(c.bufs[i]) <= c.bufs[Len(c.bufs)].start
        BY ONLY <1>2, <1>7, <4>1, i \in 1 .. Len(c.bufs)
      <4> QED
        BY ONLY <1>1, <1>2, <1>4, <3>1, <4>2, i \in 1 .. Len(c.bufs)
    <3> QED
      BY ONLY <3>2, <3>3
  <2> QED
    BY ONLY <2>1, <2>2
<1> HIDE DEF g
<1> QED
  BY ONLY <1>1, <1>2, <1>3, <1>4, <1>7, <1>8

-----------------------------------------------------------------------------
\* Two managers that differ in where they read only.
Alike(c, d) ==
    /\ Len(d.bufs) = Len(c.bufs)
    /\ \A i \in 1 .. Len(c.bufs) : SameFrames(c.bufs[i], d.bufs[i])
    /\ d.s = c.s /\ d.w = c.w /\ d.wid = c.wid /\ d.off = c.off /\ d.next = c.next
    /\ d.locked = c.locked

LEMMA AlikeTwice ==
    ASSUME NEW c, NEW d, NEW e, Alike(c, d), Alike(d, e)
    PROVE  Alike(c, e)
BY DEF Alike, SameFrames

LEMMA AlikeSelf ==
    ASSUME NEW c
    PROVE  Alike(c, c)
BY DEF Alike, SameFrames

LEMMA SameBorders ==
    ASSUME NEW b, NEW d, SameFrames(b, d)
    PROVE  \A p : Border(d, p) = Border(b, p)
BY DEF SameFrames, Border

LEMMA AlikeInside ==
    ASSUME NEW c, NEW d, Alike(c, d), NEW f, NotInside(c, f)
    PROVE  NotInside(d, f)
<1> SUFFICES ASSUME NEW i \in 1 .. Len(d.bufs), NEW p \in 0 .. Len(d.bufs[i].infos) - 1
             PROVE  ~(Border(d.bufs[i], p) < f /\ f < Border(d.bufs[i], p + 1))
  BY DEF NotInside
<1>1. i \in 1 .. Len(c.bufs) /\ SameFrames(c.bufs[i], d.bufs[i])
  BY DEF Alike
<1>2. /\ \A q : Border(d.bufs[i], q) = Border(c.bufs[i], q)
      /\ p \in 0 .. Len(c.bufs[i].infos) - 1
  <2>1. d.bufs[i].infos = c.bufs[i].infos
    BY ONLY <1>1 DEF SameFrames
  <2> QED
    BY <1>1, <2>1, SameBorders
<1>3. ~(Border(c.bufs[i], p) < f /\ f < Border(c.bufs[i], p + 1))
  BY ONLY <1>1, <1>2, NotInside(c, f) DEF NotInside
<1> QED
  BY ONLY <1>2, <1>3

\* The first frame of an info, and the frame after it, is inside no info.
LEMMA BorderInside ==
    ASSUME NEW c, NEW n, Chain(c, n), NEW i \in 1 .. Len(c.bufs),
           NEW p \in 0 .. Len(c.bufs[i].infos)
    PROVE  NotInside(c, Border(c.bufs[i], p))
<1> SUFFICES ASSUME NEW j \in 1 .. Len(c.bufs), NEW q \in 0 .. Len(c.bufs[j].infos) - 1,
                    Border(c.bufs[j], q) < Border(c.bufs[i], p),
                    Border(c.bufs[i], p) < Border(c.bufs[j], q + 1)
             PROVE  FALSE
  BY DEF NotInside
<1>1. PICK b, d : b = c.bufs[i] /\ d = c.bufs[j]
  OBVIOUS
<1>2. Sound(b, n) /\ Sound(d, n)
  BY <1>1, Edges
<1>3. /\ Len(b.infos) \in Nat /\ Len(d.infos) \in Nat /\ q + 1 \in 0 .. Len(d.infos)
      /\ q \in 0 .. Len(d.infos) /\ p \in 0 .. Len(b.infos)
      /\ q \in Int /\ p \in Int
  <2>1. Len(b.infos) \in Nat /\ Len(d.infos) \in Nat
    BY <1>2, SoundFields
  <2>2. q \in 0 .. Len(d.infos) - 1 /\ p \in 0 .. Len(b.infos)
    BY <1>1
  <2> QED
    BY ONLY <2>1, <2>2
<1>4. /\ Border(b, p) \in Int /\ b.start <= Border(b, p) /\ Border(b, p) <= EndOf(b)
      /\ Border(d, q) \in Int /\ d.start <= Border(d, q)
      /\ Border(d, q + 1) \in Int /\ Border(d, q + 1) <= EndOf(d)
  BY <1>2, <1>3, Borders DEF EndOf
<1>5. /\ b.start \in Nat /\ d.start \in Nat /\ EndOf(b) \in Nat /\ EndOf(d) \in Nat
  BY <1>1, Edges
<1>6. Border(d, q) < Border(b, p) /\ Border(b, p) < Border(d, q + 1)
  BY <1>1
<1>7. CASE i = j
  <2>1. b = d
    BY <1>1, <1>7
  <2>2. \A u, v \in 0 .. Len(d.infos) : u < v => Border(d, u) < Border(d, v)
    BY <1>2, Borders
  <2>3. CASE p <= q
    <3>1. p = q \/ Border(d, p) < Border(d, q)
      BY ONLY <1>3, <2>1, <2>2, <2>3
    <3> QED
      BY ONLY <1>4, <1>6, <2>1, <3>1
  <2>4. CASE p > q
    <3>1. q + 1 = p \/ Border(d, q + 1) < Border(d, p)
      <4>1. q + 1 = p \/ q + 1 < p
        BY ONLY <1>3, <2>4
      <4> QED
        BY ONLY <1>3, <2>1, <2>2, <4>1
    <3> QED
      BY ONLY <1>4, <1>6, <2>1, <3>1
  <2> QED
    BY ONLY <1>3, <2>3, <2>4
<1>8. CASE i < j
  <2>1. EndOf(b) <= d.start
    BY <1>1, <1>8, Edges
  <2> QED
    BY ONLY <1>4, <1>5, <1>6, <2>1
<1>9. CASE j < i
  <2>1. EndOf(d) <= b.start
    BY <1>1, <1>9, Edges
  <2> QED
    BY ONLY <1>4, <1>5, <1>6, <2>1
<1> QED
  <2>1. i \in Int /\ j \in Int
    BY Edges
  <2> QED
    BY ONLY <1>7, <1>8, <1>9, <2>1

-----------------------------------------------------------------------------
\* The numbers of the frames do not change where a manager reads somewhere else.
LEMMA AlikeChain ==
    ASSUME NEW c, NEW n, Chain(c, n), NEW d, Manager(d), d.r # NoBuffer, d.null = FALSE,
           Alike(c, d), \A i \in 1 .. Len(d.bufs) : Sound(d.bufs[i], n)
    PROVE  /\ Chain(d, n) /\ d.bufs[1].start = c.bufs[1].start
           /\ NextKnown(c) => NextKnown(d)
<1>1. /\ Len(d.bufs) = Len(c.bufs) /\ d.wid = c.wid /\ d.next = c.next
      /\ \A i \in 1 .. Len(c.bufs) : SameFrames(c.bufs[i], d.bufs[i])
  BY DEF Alike
<1>2. /\ Len(c.bufs) \in Nat /\ 1 \in 1 .. Len(c.bufs) /\ Len(c.bufs) \in 1 .. Len(c.bufs)
  BY Edges
<1>3. ASSUME NEW i \in 1 .. Len(c.bufs)
      PROVE  d.bufs[i].start = c.bufs[i].start /\ EndOf(d.bufs[i]) = EndOf(c.bufs[i])
  <2>1. SameFrames(c.bufs[i], d.bufs[i])
    BY ONLY <1>1, i \in 1 .. Len(c.bufs)
  <2> QED
    BY ONLY <2>1 DEF SameFrames, EndOf
<1>4. ASSUME NEW i \in 1 .. Len(c.bufs) - 1 PROVE EndOf(d.bufs[i]) = d.bufs[i + 1].start
  <2>1. i \in 1 .. Len(c.bufs) /\ i + 1 \in 1 .. Len(c.bufs)
    BY ONLY <1>2, i \in 1 .. Len(c.bufs) - 1
  <2>2. EndOf(c.bufs[i]) = c.bufs[i + 1].start
    BY ONLY Chain(c, n), i \in 1 .. Len(c.bufs) - 1 DEF Chain
  <2> QED
    BY ONLY <1>3, <2>1, <2>2
<1>5. EndOf(d.bufs[Len(c.bufs)]) = c.wid
  <2>1. EndOf(c.bufs[Len(c.bufs)]) = c.wid
    BY DEF Chain
  <2> QED
    BY ONLY <1>2, <1>3, <2>1
<1>6. Chain(d, n)
  BY <1>1, <1>4, <1>5 DEF Chain
<1>7. d.bufs[1].start = c.bufs[1].start
  BY ONLY <1>2, <1>3
<1>8. ASSUME NextKnown(c) PROVE NextKnown(d)
  <2>1. c.bufs[1].start <= c.next /\ c.next <= c.wid /\ NotInside(c, c.next)
    BY <1>8 DEF NextKnown
  <2>2. NotInside(d, c.next)
    BY <2>1, AlikeInside
  <2> QED
    BY ONLY <1>1, <1>7, <2>1, <2>2 DEF NextKnown
<1> QED
  BY ONLY <1>6, <1>7, <1>8

\* The read position moves to position p of buffer i, which then is b.
ReadPlaced(c, n, d, i, b, p) ==
    /\ Chain(d, n) /\ ReadKept(d) /\ (NextKnown(c) => NextKnown(d)) /\ Alike(c, d)
    /\ d.r = i /\ R(d) = b /\ b.pos = p
    /\ RFrameId(R(d)) = Border(c.bufs[i], p)
    /\ \A q : Border(R(d), q) = Border(c.bufs[i], q)
    /\ Len(R(d).infos) = Len(c.bufs[i].infos)
    /\ \A j \in 1 .. Len(c.bufs) : d.bufs[j] = IF j = i THEN b ELSE c.bufs[j]

\* Placing the read position on an info leaves the manager sound.
LEMMA SoundPlaced ==
    ASSUME NEW c, NEW n, Chain(c, n), NEW i \in 1 .. Len(c.bufs),
           NEW p \in 0 .. Len(c.bufs[i].infos), i < Len(c.bufs) => p < Len(c.bufs[i].infos),
           NEW b, b = At(c.bufs[i], p), NEW d, d = ReadAt(c, i, i, b)
    PROVE  ReadPlaced(c, n, d, i, b, p)
<1>1. Manager(c) /\ c.null = FALSE
  BY DEF Chain
<1>2. PICK old : old = c.bufs[i]
  OBVIOUS
<1>3. Sound(old, n) /\ p \in 0 .. Len(old.infos)
  BY <1>2, Edges
<1>4. /\ Sound(b, n) /\ SameFrames(old, b) /\ b.pos = p /\ RFrameId(b) = Border(old, p)
      /\ \A q : Border(b, q) = Border(old, q)
  BY <1>2, <1>3, SoundAt
<1>5. b \in Buffers
  BY ONLY <1>4 DEF Sound
<1>6. /\ Manager(d) /\ SameCounts(c, d)
      /\ d.s = c.s /\ d.w = c.w /\ d.r = i /\ d.off = c.off /\ d.next = c.next
      /\ d.null = c.null /\ Len(d.bufs) = Len(c.bufs)
      /\ \A j \in 1 .. Len(c.bufs) : d.bufs[j] = IF j = i THEN b ELSE c.bufs[j]
  BY ONLY <1>1, <1>5, i \in 1 .. Len(c.bufs), d = ReadAt(c, i, i, b), ReadBuffer
<1>7. R(d) = b
  BY <1>6 DEF R
<1>8. \A j \in 1 .. Len(c.bufs) : Sound(d.bufs[j], n) /\ SameFrames(c.bufs[j], d.bufs[j])
  <2>1. \A j \in 1 .. Len(c.bufs) : Sound(c.bufs[j], n) /\ SameFrames(c.bufs[j], c.bufs[j])
    BY Edges DEF SameFrames
  <2> QED
    BY ONLY <1>2, <1>4, <1>6, <2>1
<1>9. Alike(c, d)
  BY ONLY <1>6, <1>8 DEF Alike, SameCounts
<1>10. /\ Chain(d, n) /\ (NextKnown(c) => NextKnown(d))
  <2>1. i # NoBuffer
    BY <1>1, ManagerFields DEF NoBuffer
  <2> QED
    BY <1>1, <1>6, <1>8, <1>9, <2>1, AlikeChain
<1>11. b.infos = old.infos
  BY ONLY <1>4 DEF SameFrames
<1>12. ReadKept(d)
  BY <1>2, <1>4, <1>6, <1>7, <1>11 DEF ReadKept, R
<1> QED
  BY ONLY <1>2, <1>4, <1>6, <1>7, <1>9, <1>10, <1>11, <1>12 DEF ReadPlaced

(***************************************************************************)
(* Where a seek to f ends: at the info that holds f, which is burn frames  *)
(* further on, or at the write position when f is write_frame_id.          *)
(***************************************************************************)
Reached(c, n, f, x) ==
    /\ Alike(c, x.cbm) /\ SoundManager(x.cbm, n)
    /\ x.burn = f - RFrameId(R(x.cbm)) /\ x.burn >= 0
    /\ x.burn # 0 => /\ R(x.cbm).pos < Len(R(x.cbm).infos)
                     /\ f < Border(R(x.cbm), R(x.cbm).pos + 1)

\* A frame of the read buffer is reached in it, one of another buffer from there on
\* or back to the buffer that has it.
LEMMA SeekInBufferReaches ==
    ASSUME NEW c, NEW n, SoundManager(c, n), NEW i \in 1 .. Len(c.bufs), NEW f \in Int,
           c.bufs[i].start <= f, f < EndOf(c.bufs[i])
    PROVE  /\ Reached(c, n, f, SeekInBuffer(c, i, f))
           /\ NotInside(c, f) => SeekInBuffer(c, i, f).burn = 0
<1>1. Chain(c, n)
  BY DEF SoundManager
<1>2. PICK b : b = c.bufs[i]
  OBVIOUS
<1>3. Sound(b, n) /\ b.start <= f /\ f < b.start + b.num
  BY <1>1, <1>2, Edges DEF EndOf
<1>4. PICK x : x = SeekTo(b, f)
  OBVIOUS
<1>5. Found(b, f, x)
  BY <1>3, <1>4, SeekToFinds
<1>6. PICK p \in 0 .. Len(b.infos) - 1 :
         /\ x = Sought(At(b, p), f - Border(b, p))
         /\ Border(b, p) <= f /\ f < Border(b, p + 1)
  BY <1>5 DEF Found
<1>7. PICK new : new = At(b, p)
  OBVIOUS
<1>8. PICK d : d = ReadAt(c, i, i, new)
  OBVIOUS
<1>9. Len(b.infos) \in Nat /\ Border(b, p) \in Int
  BY <1>3, SoundFields
<1>10. p \in 0 .. Len(b.infos) /\ p < Len(b.infos)
  BY ONLY <1>9, p \in 0 .. Len(b.infos) - 1
<1>11. /\ Chain(d, n) /\ ReadKept(d) /\ (NextKnown(c) => NextKnown(d)) /\ Alike(c, d)
       /\ R(d) = new /\ new.pos = p /\ RFrameId(R(d)) = Border(b, p)
       /\ \A q : Border(R(d), q) = Border(b, q)
       /\ Len(R(d).infos) = Len(b.infos)
  <2>1. /\ p \in 0 .. Len(c.bufs[i].infos) /\ p < Len(c.bufs[i].infos)
        /\ new = At(c.bufs[i], p)
    BY ONLY <1>2, <1>7, <1>10
  <2>2. ReadPlaced(c, n, d, i, new, p)
    BY ONLY <1>1, <1>8, <2>1, i \in 1 .. Len(c.bufs), SoundPlaced
  <2> QED
    BY ONLY <1>2, <2>2 DEF ReadPlaced
<1>12. SeekInBuffer(c, i, f) = Moved(d, f - Border(b, p))
  <2>1. x.buf = new /\ x.burn = f - Border(b, p)
    BY ONLY <1>6, <1>7 DEF Sought
  <2>2. SeekInBuffer(c, i, f) = Moved([c EXCEPT !.r = i, !.bufs[i] = x.buf], x.burn)
    BY ONLY <1>2, <1>4, Zenon DEF SeekInBuffer, InBuffer
  <2> QED
    BY ONLY <1>8, <2>1, <2>2 DEF ReadAt
<1>13. PICK y : y = SeekInBuffer(c, i, f)
  OBVIOUS
<1>14. y.cbm = d /\ y.burn = f - Border(b, p)
  BY ONLY <1>12, <1>13 DEF Moved
<1>15. SoundManager(d, n)
  BY <1>11 DEF SoundManager
<1>16. f - Border(b, p) >= 0
  BY ONLY <1>6, <1>9, f \in Int
<1>17. Reached(c, n, f, y)
  BY ONLY <1>6, <1>10, <1>11, <1>14, <1>15, <1>16 DEF Reached
<1>18. ASSUME NotInside(c, f) PROVE y.burn = 0
  <2>1. ~(Border(b, p) < f /\ f < Border(b, p + 1))
    BY <1>2, <1>18 DEF NotInside
  <2> QED
    BY ONLY <1>6, <1>9, <1>14, <2>1, f \in Int
<1> QED
  BY ONLY <1>13, <1>17, <1>18

LEMMA SeekForwardReaches ==
    ASSUME NEW c, NEW n, SoundManager(c, n), NEW f \in Int, RFrameId(R(c)) <= f, f < c.wid
    PROVE  /\ Reached(c, n, f, SeekForward(c, f))
           /\ NotInside(c, f) => SeekForward(c, f).burn = 0
<1> DEFINE T == {i \in c.r .. c.w : i = c.w \/ f <= LastId(c.bufs[i])}
<1>1. Chain(c, n)
  BY DEF SoundManager
<1>2. /\ Len(c.bufs) \in Nat /\ c.w = Len(c.bufs) /\ c.r \in 1 .. Len(c.bufs) /\ R(c) = c.bufs[c.r]
      /\ c.wid \in Nat
  BY <1>1, Edges
<1>3. ASSUME NEW i \in 1 .. Len(c.bufs)
      PROVE  /\ c.bufs[i].start \in Nat /\ EndOf(c.bufs[i]) \in Nat
             /\ LastId(c.bufs[i]) = EndOf(c.bufs[i]) - 1
  BY <1>1, Edges DEF LastId, EndOf
<1>4. T \subseteq Nat /\ T # {}
  <2>1. c.w \in T
    BY ONLY <1>2
  <2>2. T \subseteq Nat
    BY ONLY <1>2
  <2> QED
    BY ONLY <2>1, <2>2
<1>5. PICK i : i = Min(T)
  OBVIOUS
<1>6. i \in T /\ \A j \in T : i <= j
  <2> HIDE DEF T
  <2> QED
    BY ONLY <1>4, <1>5, MinOfNats
<1>7. i \in 1 .. Len(c.bufs) /\ i \in c.r .. c.w /\ i \in Int /\ c.r \in Int
  BY ONLY <1>2, <1>6
<1>8. f < EndOf(c.bufs[i])
  <2>1. i = c.w \/ f <= LastId(c.bufs[i])
    BY ONLY <1>6
  <2>2. CASE i = c.w
    <3>1. EndOf(c.bufs[i]) = c.wid
      BY <1>1, <1>2, <2>2 DEF Chain
    <3> QED
      BY ONLY <3>1, f < c.wid
  <2>3. CASE f <= LastId(c.bufs[i])
    BY ONLY <1>3, <1>7, <2>3, f \in Int
  <2> QED
    BY ONLY <2>1, <2>2, <2>3
<1>9. c.bufs[i].start <= f
  <2>1. CASE i = c.r
    <3>1. c.bufs[i].start <= RFrameId(R(c)) /\ RFrameId(R(c)) \in Int
      <4>1. Sound(R(c), n)
        BY <1>1, <1>2, Edges
      <4> QED
        BY <1>2, <2>1, <4>1, SoundFields
    <3> QED
      BY ONLY <1>3, <1>7, <3>1, f \in Int, RFrameId(R(c)) <= f
  <2>2. CASE i # c.r
    <3>1. i - 1 \in c.r .. c.w /\ i - 1 \in 1 .. Len(c.bufs) /\ i - 1 < i /\ i - 1 # c.w
      BY ONLY <1>2, <1>7, <2>2
    <3>2. ~(f <= LastId(c.bufs[i - 1]))
      <4>1. i - 1 \notin T
        BY ONLY <1>6, <1>7, <3>1
      <4> QED
        BY ONLY <3>1, <4>1
    <3>3. EndOf(c.bufs[i - 1]) <= c.bufs[i].start
      BY <1>1, <1>7, <3>1, Edges
    <3>4. c.bufs[i].start = EndOf(c.bufs[i - 1])
      <4>1. i - 1 \in 1 .. Len(c.bufs) - 1 /\ (i - 1) + 1 = i
        BY ONLY <1>2, <1>7, <3>1
      <4> QED
        BY <1>1, <4>1 DEF Chain
    <3>5. PICK last, end : last = LastId(c.bufs[i - 1]) /\ end = EndOf(c.bufs[i - 1])
      OBVIOUS
    <3>6. end \in Nat /\ last = end - 1 /\ ~(f <= last)
      BY ONLY <1>3, <3>1, <3>2, <3>5
    <3>7. end <= f
      BY ONLY <3>6, f \in Int
    <3> QED
      BY ONLY <3>4, <3>5, <3>7
  <2> QED
    BY ONLY <2>1, <2>2
<1>10. SeekForward(c, f) = SeekInBuffer(c, i, f)
  <2>1. f \in c.bufs[i].start .. LastId(c.bufs[i])
    BY ONLY <1>3, <1>7, <1>8, <1>9, f \in Int
  <2>2. SeekForward(c, f) = SeekForwardIn(c, i, f)
    BY ONLY <1>5, Zenon DEF SeekForward
  <2> QED
    BY ONLY <2>1, <2>2, Zenon DEF SeekForwardIn
<1> QED
  BY ONLY <1>7, <1>8, <1>9, <1>10, SoundManager(c, n), f \in Int, SeekInBufferReaches

LEMMA SeekBackwardReaches ==
    ASSUME NEW c, NEW n, SoundManager(c, n), NEW f \in Int, c.bufs[1].start <= f,
           f <= RFrameId(R(c)), f < c.wid
    PROVE  /\ Reached(c, n, f, SeekBackward(c, f))
           /\ NotInside(c, f) => SeekBackward(c, f).burn = 0
<1> DEFINE T == {i \in c.s .. c.r : i = c.s \/ f >= c.bufs[i].start}
<1>1. Chain(c, n) /\ ReadKept(c)
  BY DEF SoundManager
<1>2. /\ Len(c.bufs) \in Nat /\ c.s = 1 /\ c.r \in 1 .. Len(c.bufs) /\ R(c) = c.bufs[c.r]
      /\ c.wid \in Nat
  BY <1>1, Edges
<1>3. ASSUME NEW i \in 1 .. Len(c.bufs)
      PROVE  c.bufs[i].start \in Nat /\ EndOf(c.bufs[i]) \in Nat
  BY <1>1, Edges
<1>4. T \subseteq 0 .. c.r /\ T # {} /\ c.r \in Nat
  <2>1. 1 \in T
    BY ONLY <1>2
  <2>2. T \subseteq 0 .. c.r /\ c.r \in Nat
    BY ONLY <1>2
  <2> QED
    BY ONLY <2>1, <2>2
<1>5. PICK i : i = Max(T)
  OBVIOUS
<1>6. i \in T /\ \A j \in T : i >= j
  <2> HIDE DEF T
  <2> QED
    BY ONLY <1>4, <1>5, MaxOfNats
<1>7. i \in 1 .. Len(c.bufs) /\ i \in 1 .. c.r /\ i \in Int /\ c.r \in Int
  BY ONLY <1>2, <1>6
<1>8. c.bufs[i].start <= f
  <2>1. i = 1 \/ f >= c.bufs[i].start
    BY ONLY <1>2, <1>6
  <2> QED
    BY ONLY <1>3, <1>7, <2>1, f \in Int, c.bufs[1].start <= f
<1>9. f < EndOf(c.bufs[i])
  <2>1. CASE i = c.r
    <3>1. Sound(R(c), n)
      BY <1>1, <1>2, Edges
    <3>2. CASE c.r = Len(c.bufs)
      <4>1. EndOf(c.bufs[i]) = c.wid
        BY <1>1, <2>1, <3>2 DEF Chain
      <4> QED
        BY ONLY <4>1, f < c.wid
    <3>3. CASE c.r < Len(c.bufs)
      <4>1. R(c).pos < Len(R(c).infos)
        BY <1>1, <1>2, <3>3 DEF ReadKept
      <4>2. RFrameId(R(c)) < EndOf(R(c)) /\ RFrameId(R(c)) \in Int
        BY <3>1, <4>1, SoundFields DEF EndOf
      <4> QED
        BY ONLY <1>2, <1>3, <1>7, <2>1, <4>2, f \in Int, f <= RFrameId(R(c))
    <3> QED
      BY ONLY <1>2, <3>2, <3>3
  <2>2. CASE i # c.r
    <3>1. i + 1 \in 1 .. c.r /\ i + 1 \in 1 .. Len(c.bufs) /\ i < i + 1 /\ i \in 1 .. Len(c.bufs) - 1
          /\ i + 1 # 1
      BY ONLY <1>2, <1>7, <2>2
    <3>2. ~(f >= c.bufs[i + 1].start)
      <4>1. i + 1 \notin T
        BY ONLY <1>6, <1>7, <3>1
      <4> QED
        BY ONLY <1>2, <3>1, <4>1
    <3>3. EndOf(c.bufs[i]) = c.bufs[i + 1].start
      BY <1>1, <3>1 DEF Chain
    <3> QED
      BY ONLY <1>3, <1>7, <3>1, <3>2, <3>3, f \in Int
  <2> QED
    BY ONLY <2>1, <2>2
<1>10. SeekBackward(c, f) = SeekInBuffer(c, i, f)
  BY ONLY <1>5, Zenon DEF SeekBackward
<1> QED
  BY ONLY <1>7, <1>8, <1>9, <1>10, SoundManager(c, n), f \in Int, SeekInBufferReaches

LEMMA ReachedFrom ==
    ASSUME NEW c, NEW n, NEW f, NEW d, NEW x, Alike(c, d), Reached(d, n, f, x)
    PROVE  Reached(c, n, f, x)
<1>1. Alike(d, x.cbm)
  BY DEF Reached
<1>2. Alike(c, x.cbm)
  BY ONLY <1>1, Alike(c, d), AlikeTwice
<1> QED
  BY <1>2 DEF Reached

LEMMA ReachedHere ==
    ASSUME NEW c, NEW n, NEW f \in Int, NEW d, Alike(c, d), SoundManager(d, n), RFrameId(R(d)) = f
    PROVE  Reached(c, n, f, Moved(d, 0))
<1>1. PICK x : x = Moved(d, 0)
  OBVIOUS
<1>2. x.cbm = d /\ x.burn = 0
  BY ONLY <1>1 DEF Moved
<1>3. x.burn = f - RFrameId(R(x.cbm)) /\ x.burn >= 0
  BY ONLY <1>2, f \in Int, RFrameId(R(d)) = f
<1> QED
  BY <1>1, <1>2, <1>3 DEF Reached

LEMMA SameStart ==
    ASSUME NEW c, NEW n, Chain(c, n), NEW d, Alike(c, d)
    PROVE  d.bufs[1].start = c.bufs[1].start /\ d.wid = c.wid /\ Len(d.bufs) = Len(c.bufs)
<1>1. 1 \in 1 .. Len(c.bufs)
  BY Edges
<1> QED
  BY ONLY <1>1, Alike(c, d) DEF Alike, SameFrames

LEMMA ReadId ==
    ASSUME NEW c, NEW n, SoundManager(c, n)
    PROVE  /\ RFrameId(R(c)) \in Int /\ c.bufs[1].start <= RFrameId(R(c))
           /\ RFrameId(R(c)) <= c.wid /\ c.bufs[1].start \in Nat /\ c.wid \in Nat
           /\ c.bufs[1].start < c.wid
<1>1. Chain(c, n)
  BY DEF SoundManager
<1>2. /\ R(c) = c.bufs[c.r] /\ c.r \in 1 .. Len(c.bufs) /\ 1 \in 1 .. Len(c.bufs)
      /\ Sound(R(c), n) /\ c.wid \in Nat
  BY <1>1, Edges
<1>3. /\ RFrameId(R(c)) \in Int /\ R(c).start <= RFrameId(R(c))
      /\ RFrameId(R(c)) <= R(c).start + R(c).num
  BY <1>2, SoundFields
<1>4. /\ c.bufs[1].start <= R(c).start /\ EndOf(R(c)) <= c.wid /\ R(c).start \in Nat
      /\ EndOf(R(c)) = R(c).start + R(c).num /\ c.bufs[1].start \in Nat /\ EndOf(R(c)) \in Nat
  BY <1>1, <1>2, Edges
<1>5. c.bufs[1].start < EndOf(c.bufs[1]) /\ EndOf(c.bufs[1]) <= c.wid /\ EndOf(c.bufs[1]) \in Nat
  BY <1>1, <1>2, Edges
<1> QED
  BY ONLY <1>2, <1>3, <1>4, <1>5

LEMMA ToWriteFrameReaches ==
    ASSUME NEW c, NEW n, SoundManager(c, n)
    PROVE  Reached(c, n, c.wid, Moved(ToWriteFrame(c), 0))
<1>1. Chain(c, n) /\ NextKnown(c)
  BY DEF SoundManager
<1>2. PICK l, b : l = Len(c.bufs) /\ b = c.bufs[l]
  OBVIOUS
<1>3. l \in 1 .. Len(c.bufs) /\ Sound(b, n) /\ c.wid \in Nat /\ l \in Nat /\ l > 0
  BY <1>1, <1>2, Edges
<1>4. /\ UnRead(b) = At(b, Len(b.infos)) /\ Len(b.infos) \in Nat
      /\ Border(b, Len(b.infos)) = EndOf(b)
  BY <1>3, SoundMoves, SoundFields DEF EndOf
<1>5. PICK p : p = Len(b.infos)
  OBVIOUS
<1>6. EndOf(b) = c.wid
  BY <1>1, <1>2 DEF Chain
<1>7. PICK new : new = At(b, p)
  OBVIOUS
<1>8. PICK d : d = ReadAt(c, l, l, new)
  OBVIOUS
<1>9. ReadPlaced(c, n, d, l, new, p)
  <2>1. /\ p \in 0 .. Len(c.bufs[l].infos) /\ new = At(c.bufs[l], p) /\ ~(l < Len(c.bufs))
    BY ONLY <1>2, <1>3, <1>4, <1>5, <1>7
  <2> QED
    BY ONLY <1>1, <1>3, <1>8, <2>1, SoundPlaced
<1>10. ToWriteFrame(c) = d
  <2>1. c.bufs # <<>>
    BY <1>2, <1>3
  <2>2. ToWriteFrame(c) = [c EXCEPT !.r = l, !.bufs[l] = UnRead(@)]
    BY ONLY <1>2, <2>1, Zenon DEF ToWriteFrame
  <2>3. [c EXCEPT !.r = l, !.bufs[l] = UnRead(@)] = ReadAt(c, l, l, UnRead(c.bufs[l]))
    BY ONLY <1>2 DEF ReadAt
  <2>4. UnRead(c.bufs[l]) = new
    BY ONLY <1>2, <1>4, <1>5, <1>7
  <2> QED
    BY ONLY <1>8, <2>2, <2>3, <2>4
<1>11. SoundManager(d, n) /\ Alike(c, d) /\ RFrameId(R(d)) = c.wid
  BY ONLY <1>1, <1>2, <1>4, <1>5, <1>6, <1>9 DEF ReadPlaced, SoundManager
<1> QED
  BY ONLY <1>3, <1>10, <1>11, ReachedHere

LEMMA ReadFirstReaches ==
    ASSUME NEW c, NEW n, SoundManager(c, n)
    PROVE  /\ Alike(c, ReadFirst(c)) /\ SoundManager(ReadFirst(c), n)
           /\ RFrameId(R(ReadFirst(c))) = c.bufs[1].start
<1>1. Chain(c, n) /\ NextKnown(c)
  BY DEF SoundManager
<1>2. PICK b : b = c.bufs[1]
  OBVIOUS
<1>3. 1 \in 1 .. Len(c.bufs) /\ Sound(b, n)
  BY <1>1, <1>2, Edges
<1>4. /\ ReRead(b) = At(b, 0) /\ Len(b.infos) \in Nat /\ Len(b.infos) > 0
      /\ Border(b, 0) = b.start
  BY <1>3, SoundMoves, SoundFields
<1>5. PICK new : new = At(b, 0)
  OBVIOUS
<1>6. PICK d : d = ReadAt(c, 1, 1, new)
  OBVIOUS
<1>7. ReadPlaced(c, n, d, 1, new, 0)
  <2>1. 0 \in 0 .. Len(c.bufs[1].infos) /\ new = At(c.bufs[1], 0) /\ 0 < Len(c.bufs[1].infos)
    BY ONLY <1>2, <1>4, <1>5
  <2> QED
    BY ONLY <1>1, <1>3, <1>6, <2>1, SoundPlaced
<1>8. ReadFirst(c) = d
  <2>1. ReadFirst(c) = ReadAt(c, 1, 1, ReRead(c.bufs[1]))
    BY DEF ReadFirst, ReadAt
  <2> QED
    BY ONLY <1>2, <1>4, <1>5, <1>6, <2>1
<1> QED
  BY ONLY <1>1, <1>2, <1>4, <1>7, <1>8 DEF ReadPlaced, SoundManager

\* The first of the two seeks, back to next_decompress_frame: nothing is left to burn.
AtNext(c, n, x, id) ==
    /\ Alike(c, x.cbm) /\ SoundManager(x.cbm, n) /\ x.burn = 0
    /\ RFrameId(R(x.cbm)) = IF c.next = c.wid THEN id ELSE c.next

LEMMA ToNextDecompressReaches ==
    ASSUME NEW c, NEW n, SoundManager(c, n), NEW id, id = RFrameId(R(c))
    PROVE  AtNext(c, n, ToNextDecompress(c, id), id)
<1>1. NextKnown(c)
  BY DEF SoundManager
<1>2. /\ c.bufs[1].start <= c.next /\ c.next <= c.wid /\ NotInside(c, c.next)
  BY <1>1 DEF NextKnown
<1>3. id \in Int /\ c.next \in Int /\ c.wid \in Nat /\ c.wid \in Int
  BY ReadId, Edges DEF SoundManager
<1>4. PICK f : f = c.next
  OBVIOUS
<1>5. ASSUME NEW x, Reached(c, n, f, x), x.burn = 0, f # c.wid
      PROVE  AtNext(c, n, x, id)
  <2>1. x.burn = f - RFrameId(R(x.cbm)) /\ Alike(c, x.cbm) /\ SoundManager(x.cbm, n)
    BY ONLY <1>5 DEF Reached
  <2>2. RFrameId(R(x.cbm)) \in Int
    BY ONLY <2>1, ReadId
  <2>3. RFrameId(R(x.cbm)) = f
    BY ONLY <1>3, <1>4, <1>5, <2>1, <2>2
  <2> QED
    BY ONLY <1>4, <1>5, <2>1, <2>3 DEF AtNext
<1>6. CASE c.next = c.wid \/ id = c.next
  <2>1. ToNextDecompress(c, id) = Moved(c, 0)
    <3>1. (c.next = c.wid \/ id = c.next) /\ ~(c.next # c.wid /\ id > c.next)
      BY ONLY <1>3, <1>6
    <3> QED
      BY ONLY <3>1, Zenon DEF ToNextDecompress
  <2>2. PICK x : x = Moved(c, 0)
    OBVIOUS
  <2>3. x.cbm = c /\ x.burn = 0
    BY ONLY <2>2 DEF Moved
  <2>4. AtNext(c, n, x, id)
    BY <1>6, <2>3, AlikeSelf DEF AtNext
  <2> QED
    BY ONLY <2>1, <2>2, <2>4
<1>7. CASE c.next # c.wid /\ id > c.next
  <2>1. ToNextDecompress(c, id) = SeekBackward(c, f)
    <3>1. c.next # c.wid /\ id > c.next /\ ~(c.next = c.wid \/ id = c.next)
      BY ONLY <1>3, <1>7
    <3> QED
      BY ONLY <1>4, <3>1, Zenon DEF ToNextDecompress
  <2>2. f \in Int /\ c.bufs[1].start <= f /\ f <= RFrameId(R(c)) /\ f < c.wid /\ NotInside(c, f)
    BY ONLY <1>2, <1>3, <1>4, <1>7, id = RFrameId(R(c))
  <2>3. Reached(c, n, f, SeekBackward(c, f)) /\ SeekBackward(c, f).burn = 0
    BY ONLY <2>2, SoundManager(c, n), SeekBackwardReaches
  <2>4. f # c.wid
    BY ONLY <1>4, <1>7
  <2> QED
    BY ONLY <1>5, <2>1, <2>3, <2>4
<1>8. CASE c.next # c.wid /\ id < c.next
  <2>1. ToNextDecompress(c, id) = SeekForward(c, f)
    <3>1. ~(c.next # c.wid /\ id > c.next) /\ ~(c.next = c.wid \/ id = c.next)
      BY ONLY <1>3, <1>8
    <3> QED
      BY ONLY <1>4, <3>1, Zenon DEF ToNextDecompress
  <2>2. f \in Int /\ RFrameId(R(c)) <= f /\ f < c.wid /\ NotInside(c, f)
    BY ONLY <1>2, <1>3, <1>4, <1>8, id = RFrameId(R(c))
  <2>3. Reached(c, n, f, SeekForward(c, f)) /\ SeekForward(c, f).burn = 0
    BY ONLY <2>2, SoundManager(c, n), SeekForwardReaches
  <2>4. f # c.wid
    BY ONLY <1>4, <1>8
  <2> QED
    BY ONLY <1>5, <2>1, <2>3, <2>4
<1> QED
  BY ONLY <1>3, <1>6, <1>7, <1>8

\* The second one, from there to the frame.
LEMMA SeekFromReaches ==
    ASSUME NEW c, NEW n, NEW x, Alike(c, x.cbm), SoundManager(x.cbm, n), x.burn = 0, NEW id,
           RFrameId(R(x.cbm)) = id, NEW f \in Int, x.cbm.bufs[1].start <= f, f < x.cbm.wid
    PROVE  Reached(c, n, f, SeekFrom(x, id, f))
<1>1. PICK d : d = x.cbm
  OBVIOUS
<1>2. /\ Alike(c, d) /\ SoundManager(d, n) /\ RFrameId(R(d)) = id /\ d.bufs[1].start <= f
      /\ f < d.wid
  BY <1>1
<1>3. id \in Int /\ d.bufs[1].start \in Nat /\ S(d) = d.bufs[1]
  BY <1>2, ReadId, Edges DEF SoundManager
<1>4. CASE f > id
  <2>1. SeekFrom(x, id, f) = SeekForward(d, f)
    <3>1. x.burn = 0 /\ f > id /\ ~(f <= id) /\ ~(x.burn # 0)
      BY ONLY <1>3, <1>4, f \in Int, x.burn = 0
    <3> QED
      BY ONLY <1>1, <3>1, Zenon DEF SeekFrom
  <2>2. Reached(d, n, f, SeekForward(d, f))
    <3>1. RFrameId(R(d)) <= f
      BY ONLY <1>2, <1>3, <1>4, f \in Int
    <3> QED
      BY ONLY <1>2, <3>1, f \in Int, SeekForwardReaches
  <2> QED
    BY ONLY <1>2, <2>1, <2>2, ReachedFrom
<1>5. ASSUME f <= id PROVE ~(f > id) /\ f >= S(d).start /\ ~(f < S(d).start)
  BY ONLY <1>2, <1>3, <1>5, f \in Int
<1>6. CASE f <= id /\ f = SFrameId(d)
  <2>1. PICK e : e = ReadFirst(d)
    OBVIOUS
  <2>2. Alike(d, e) /\ SoundManager(e, n) /\ RFrameId(R(e)) = d.bufs[1].start
    BY ONLY <1>2, <2>1, ReadFirstReaches
  <2>3. SeekFrom(x, id, f) = IF d.off # 0 THEN SeekForward(e, f) ELSE Moved(e, 0)
    <3>1. /\ x.burn = 0 /\ f <= id /\ ~(f > id) /\ f >= S(d).start /\ ~(f < S(d).start)
          /\ f = SFrameId(d)
      BY ONLY <1>5, <1>6, x.burn = 0
    <3> QED
      BY ONLY <1>1, <2>1, <3>1, Zenon DEF SeekFrom
  <2>4. Alike(c, e)
    BY ONLY <1>2, <2>2, AlikeTwice
  <2>5. CASE d.off # 0
    <3>1. e.wid = d.wid
      BY ONLY <2>2 DEF Alike
    <3>2. RFrameId(R(e)) <= f /\ f < e.wid
      BY ONLY <1>2, <2>2, <3>1
    <3>3. Reached(e, n, f, SeekForward(e, f))
      BY ONLY <2>2, <3>2, f \in Int, SeekForwardReaches
    <3> QED
      BY ONLY <2>3, <2>4, <2>5, <3>3, ReachedFrom
  <2>6. CASE d.off = 0
    <3>1. f = d.bufs[1].start
      BY ONLY <1>3, <1>6, <2>6 DEF SFrameId
    <3>2. Reached(c, n, f, Moved(e, 0))
      BY ONLY <2>2, <2>4, <3>1, f \in Int, ReachedHere
    <3> QED
      BY ONLY <2>3, <2>6, <3>2
  <2> QED
    BY ONLY <2>5, <2>6
<1>7. CASE f <= id /\ f # SFrameId(d)
  <2>1. SeekFrom(x, id, f) = SeekBackward(d, f)
    <3>1. /\ x.burn = 0 /\ ~(f > id) /\ ~(f < S(d).start) /\ f # SFrameId(d)
      BY ONLY <1>5, <1>7, x.burn = 0
    <3> QED
      BY ONLY <1>1, <3>1, Zenon DEF SeekFrom
  <2>2. Reached(d, n, f, SeekBackward(d, f))
    BY ONLY <1>2, <1>7, f \in Int, SeekBackwardReaches
  <2> QED
    BY ONLY <1>2, <2>1, <2>2, ReachedFrom
<1> QED
  BY ONLY <1>3, <1>4, <1>6, <1>7, f \in Int

LEMMA SeekReaches ==
    ASSUME NEW c, NEW n, SoundManager(c, n), NEW f \in Int, c.bufs[1].start <= f, f <= c.wid
    PROVE  Reached(c, n, f, Seek(c, f))
<1>1. PICK id : id = RFrameId(R(c))
  OBVIOUS
<1>2. id \in Int /\ c.bufs[1].start \in Nat /\ c.wid \in Nat /\ c.bufs[1].start <= id
  BY <1>1, ReadId
<1>3. Seek(c, f) = SeekFromRead(c, id, f)
  BY ONLY <1>1, SoundManager(c, n), Zenon DEF Seek, SoundManager, Chain
<1>4. id # UnknownId
  BY ONLY <1>2 DEF UnknownId
<1>5. CASE f = id
  <2>1. SeekFromRead(c, id, f) = Moved(c, 0)
    BY ONLY <1>5, Zenon DEF SeekFromRead
  <2> QED
    BY <1>1, <1>3, <1>5, <2>1, AlikeSelf, ReachedHere
<1>6. CASE f # id /\ f = c.wid
  <2>1. SeekFromRead(c, id, f) = Moved(ToWriteFrame(c), 0)
    <3>1. ~(id = UnknownId \/ f > c.wid) /\ id # UnknownId
      BY ONLY <1>2, <1>4, <1>6
    <3> QED
      BY ONLY <1>6, <3>1, Zenon DEF SeekFromRead
  <2>2. Reached(c, n, c.wid, Moved(ToWriteFrame(c), 0))
    BY ToWriteFrameReaches
  <2> QED
    BY ONLY <1>3, <1>6, <2>1, <2>2
<1>7. CASE f # id /\ f # c.wid
  <2>1. PICK x : x = ToNextDecompress(c, id)
    OBVIOUS
  <2>2. PICK to : to = IF c.next = c.wid THEN id ELSE c.next
    OBVIOUS
  <2>3. Alike(c, x.cbm) /\ SoundManager(x.cbm, n) /\ x.burn = 0 /\ RFrameId(R(x.cbm)) = to
    <3>1. AtNext(c, n, x, id)
      BY ONLY <1>1, <2>1, SoundManager(c, n), ToNextDecompressReaches
    <3> QED
      BY ONLY <2>2, <3>1 DEF AtNext
  <2>4. SeekFromRead(c, id, f) = SeekFrom(x, to, f)
    <3>1. ~(id = UnknownId \/ f > c.wid) /\ f # id /\ f # c.wid
      BY ONLY <1>2, <1>4, <1>7, f \in Int, f <= c.wid
    <3> QED
      BY ONLY <2>1, <2>2, <3>1, Zenon DEF SeekFromRead
  <2>5. x.cbm.bufs[1].start <= f /\ f < x.cbm.wid
    <3>1. x.cbm.bufs[1].start = c.bufs[1].start /\ x.cbm.wid = c.wid
      BY <2>3, SameStart DEF SoundManager
    <3> QED
      BY ONLY <1>2, <1>7, <3>1, f \in Int, c.bufs[1].start <= f, f <= c.wid
  <2>6. Reached(c, n, f, SeekFrom(x, to, f))
    BY ONLY <2>3, <2>5, f \in Int, SeekFromReaches
  <2> QED
    BY ONLY <1>3, <2>4, <2>6
<1> QED
  BY <1>5, <1>6, <1>7

-----------------------------------------------------------------------------
\* The frame at the read position of b is passed: d reads the frame after it.
Passed(b, n, d) ==
    /\ Sound(d, n) /\ RFrameId(d) = RFrameId(b) + 1
    /\ d.start = b.start /\ d.num = b.num

\* splitInfo(): the first frame of an info becomes an info of its own.
LEMMA SplitSound ==
    ASSUME NEW b, NEW n, Sound(b, n), b.pos < Len(b.infos), Retrieve(b, b.pos).num > 1
    PROVE  Passed(b, n, Split(b))
<1>1. PICK d, N, p, i : d = Split(b) /\ N = Len(b.infos) /\ p = b.pos /\ i = Retrieve(b, b.pos)
  OBVIOUS
<1>0. PICK base, start, num : base = b.base /\ start = b.start /\ num = b.num
  OBVIOUS
<1>2. /\ b \in Buffers /\ N \in Nat /\ p \in 0 .. N /\ p \in 0 .. N - 1 /\ p \in Int
      /\ start \in Nat /\ num \in Nat /\ base \in Nat /\ Valid(b, b.pos)
      /\ Border(b, N) = start + num /\ Border(b, 0) = start
      /\ RFrameId(b) = Border(b, p) /\ Len(b.mem) = base + num
  <2>1. p \in 0 .. N /\ N \in Nat
    BY <1>1, SoundFields
  <2>2. p \in 0 .. N - 1 /\ p \in Int
    BY ONLY <1>1, <2>1, b.pos < Len(b.infos)
  <2> QED
    BY <1>0, <1>1, <2>1, <2>2, SoundFields
<1>3. ASSUME NEW q \in 0 .. N - 1
      PROVE  /\ b.infos[q + 1].id = Border(b, q)
             /\ b.infos[q + 1].num = Border(b, q + 1) - Border(b, q)
             /\ b.infos[q + 1].at = Border(b, q) + base - start
             /\ Border(b, q) < Border(b, q + 1)
             /\ Border(b, q) \in Int /\ Border(b, q + 1) \in Int
  <2>1. /\ Retrieve(b, q).id = Border(b, q)
        /\ Retrieve(b, q).num = Border(b, q + 1) - Border(b, q)
        /\ Retrieve(b, q).at = Border(b, q) + base - start
        /\ Border(b, q) < Border(b, q + 1)
        /\ Border(b, q) \in Int /\ Border(b, q + 1) \in Int
    BY <1>0, <1>1, SoundFields
  <2> QED
    BY ONLY <2>1 DEF Retrieve
<1>4. /\ i.id = Border(b, p) /\ i.num = Border(b, p + 1) - Border(b, p) /\ i.num > 1
      /\ i.at = Border(b, p) + base - start
      /\ Border(b, p) \in Int /\ Border(b, p + 1) \in Int
  <2>1. i = b.infos[p + 1]
    BY <1>1 DEF Retrieve
  <2>2. i.num > 1
    BY <1>1
  <2> QED
    BY ONLY <1>2, <1>3, <2>1, <2>2
<1>5. PICK x, y : x = Info(i.at, 1, i.id) /\ y = Info(i.at + 1, i.num - 1, i.id + 1)
  OBVIOUS
<1>6. /\ x.at = i.at /\ x.num = 1 /\ x.id = i.id
      /\ y.at = i.at + 1 /\ y.num = i.num - 1 /\ y.id = i.id + 1
  BY ONLY <1>5 DEF Info
<1>7. /\ d \in Buffers /\ d.mem = b.mem /\ d.base = base /\ d.start = start /\ d.num = num
      /\ d.pos = p + 1 /\ d.ptr = i.at + 1 /\ Len(d.infos) = N + 1
      /\ \A k \in 1 .. N + 1 : d.infos[k] = IF k <= p THEN b.infos[k]
                                            ELSE IF k = p + 1 THEN x
                                            ELSE IF k = p + 2 THEN y ELSE b.infos[k - 1]
  BY <1>0, <1>1, <1>2, <1>5, SplitType
<1>8. ASSUME NEW q \in 0 .. N + 1
      PROVE  Border(d, q) = IF q <= p THEN Border(b, q)
                            ELSE IF q = p + 1 THEN Border(b, p) + 1 ELSE Border(b, q - 1)
  <2>1. CASE q = N + 1
    <3>1. /\ q - 1 = N /\ ~(q <= p) /\ q # p + 1 /\ ~(q < Len(d.infos))
      BY ONLY <1>2, <1>7, <2>1
    <3>2. Border(d, q) = d.start + d.num
      BY ONLY <3>1 DEF Border
    <3> QED
      BY ONLY <1>2, <1>7, <3>1, <3>2
  <2>2. CASE q \in 0 .. N
    <3>1. Border(d, q) = d.infos[q + 1].id
      <4>1. q < Len(d.infos)
        BY ONLY <1>2, <1>7, <2>2
      <4> QED
        BY ONLY <4>1 DEF Border
    <3>2. q + 1 \in 1 .. N + 1
      BY ONLY <1>2, <2>2
    <3>3. CASE q < p
      <4>1. q + 1 <= p /\ q <= p /\ q \in 0 .. N - 1
        BY ONLY <1>2, <2>2, <3>3
      <4>2. d.infos[q + 1] = b.infos[q + 1]
        BY ONLY <1>7, <3>2, <4>1
      <4> QED
        BY ONLY <1>3, <3>1, <4>1, <4>2
    <3>4. CASE q = p
      <4>1. ~(q + 1 <= p) /\ q + 1 = p + 1 /\ q <= p
        BY ONLY <1>2, <3>4
      <4>2. d.infos[q + 1] = x
        BY ONLY <1>7, <3>2, <4>1
      <4> QED
        BY ONLY <1>4, <1>6, <3>1, <3>4, <4>1, <4>2
    <3>5. CASE q = p + 1
      <4>1. ~(q + 1 <= p) /\ q + 1 # p + 1 /\ q + 1 = p + 2 /\ ~(q <= p)
        BY ONLY <1>2, <3>5
      <4>2. d.infos[q + 1] = y
        BY ONLY <1>7, <3>2, <4>1
      <4> QED
        BY ONLY <1>4, <1>6, <3>1, <3>5, <4>1, <4>2
    <3>6. CASE q > p + 1
      <4>1. /\ ~(q + 1 <= p) /\ q + 1 # p + 1 /\ q + 1 # p + 2 /\ ~(q <= p) /\ q # p + 1
            /\ q - 1 \in 0 .. N - 1 /\ (q - 1) + 1 = q /\ (q + 1) - 1 = q
        BY ONLY <1>2, <2>2, <3>6
      <4>2. d.infos[q + 1] = b.infos[(q + 1) - 1]
        BY ONLY <1>7, <3>2, <4>1
      <4>3. b.infos[(q - 1) + 1].id = Border(b, q - 1)
        BY ONLY <1>3, <4>1
      <4> QED
        BY ONLY <3>1, <4>1, <4>2, <4>3
    <3> QED
      BY ONLY <1>2, <2>2, <3>3, <3>4, <3>5, <3>6
  <2> QED
    BY ONLY <1>2, <2>1, <2>2, q \in 0 .. N + 1
<1>9. ASSUME NEW q \in 0 .. N PROVE SoundInfo(d, q)
  <2>1. q \in 0 .. N + 1 /\ q + 1 \in 0 .. N + 1 /\ q + 1 \in 1 .. N + 1 /\ q \in Int
    BY ONLY <1>2, q \in 0 .. N
  <2>2. /\ Border(d, q) = IF q <= p THEN Border(b, q)
                          ELSE IF q = p + 1 THEN Border(b, p) + 1 ELSE Border(b, q - 1)
        /\ Border(d, q + 1) = IF q + 1 <= p THEN Border(b, q + 1)
                              ELSE IF q + 1 = p + 1 THEN Border(b, p) + 1
                              ELSE Border(b, (q + 1) - 1)
        /\ d.infos[q + 1] = IF q + 1 <= p THEN b.infos[q + 1]
                            ELSE IF q + 1 = p + 1 THEN x
                            ELSE IF q + 1 = p + 2 THEN y ELSE b.infos[(q + 1) - 1]
    BY ONLY <1>7, <1>8, <2>1
  <2>3. /\ d.infos[q + 1].num > 0
        /\ d.infos[q + 1].num = Border(d, q + 1) - Border(d, q)
        /\ d.infos[q + 1].at = Border(d, q) + base - start
    <3>1. CASE q < p
      <4>1. q <= p /\ q + 1 <= p /\ q \in 0 .. N - 1
        BY ONLY <1>2, <2>1, <3>1
      <4>2. /\ Border(d, q) = Border(b, q) /\ Border(d, q + 1) = Border(b, q + 1)
            /\ d.infos[q + 1] = b.infos[q + 1]
        BY ONLY <2>2, <4>1
      <4>3. /\ b.infos[q + 1].num = Border(b, q + 1) - Border(b, q)
            /\ b.infos[q + 1].at = Border(b, q) + base - start
            /\ Border(b, q) < Border(b, q + 1)
            /\ Border(b, q) \in Int /\ Border(b, q + 1) \in Int
        BY ONLY <1>3, <4>1
      <4>4. b.infos[q + 1].num > 0
        BY ONLY <4>3
      <4> QED
        BY ONLY <4>2, <4>3, <4>4
    <3>2. CASE q = p
      <4>1. q <= p /\ ~(q + 1 <= p) /\ q + 1 = p + 1
        BY ONLY <1>2, <3>2
      <4>2. Border(d, q) = Border(b, p) /\ Border(d, q + 1) = Border(b, p) + 1
            /\ d.infos[q + 1] = x
        BY ONLY <2>2, <3>2, <4>1
      <4>3. PICK u : u = Border(b, p)
        OBVIOUS
      <4>4. /\ u \in Int /\ x.num = 1 /\ x.at = u + base - start
            /\ Border(d, q) = u /\ Border(d, q + 1) = u + 1
        BY ONLY <1>4, <1>6, <4>2, <4>3
      <4>5. x.num > 0 /\ x.num = Border(d, q + 1) - Border(d, q)
        BY ONLY <4>4
      <4>6. x.at = Border(d, q) + base - start
        BY ONLY <4>4
      <4> QED
        BY ONLY <4>2, <4>5, <4>6
    <3>3. CASE q = p + 1
      <4>1. /\ ~(q <= p) /\ ~(q + 1 <= p) /\ q + 1 # p + 1 /\ q + 1 = p + 2
            /\ (q + 1) - 1 = p + 1
        BY ONLY <1>2, <3>3
      <4>2. Border(d, q) = Border(b, p) + 1 /\ Border(d, q + 1) = Border(b, p + 1)
            /\ d.infos[q + 1] = y
        BY ONLY <2>2, <3>3, <4>1
      <4>3. PICK u, v : u = Border(b, p) /\ v = Border(b, p + 1)
        OBVIOUS
      <4>4. /\ u \in Int /\ v \in Int /\ base \in Int /\ start \in Int
            /\ i.num = v - u /\ i.num > 1 /\ i.at = u + base - start
            /\ y.num = i.num - 1 /\ y.at = i.at + 1
            /\ Border(d, q) = u + 1 /\ Border(d, q + 1) = v
        BY ONLY <1>2, <1>4, <1>6, <4>2, <4>3
      <4>5. y.num = v - u - 1 /\ y.at = u + base - start + 1 /\ v - u > 1
        BY ONLY <4>4
      <4>6. y.num > 0 /\ y.num = Border(d, q + 1) - Border(d, q)
        BY ONLY <4>4, <4>5
      <4>7. y.at = Border(d, q) + base - start
        BY ONLY <4>4, <4>5
      <4> QED
        BY ONLY <4>2, <4>6, <4>7
    <3>4. CASE q > p + 1
      <4>1. /\ ~(q <= p) /\ q # p + 1 /\ ~(q + 1 <= p) /\ q + 1 # p + 1 /\ q + 1 # p + 2
            /\ (q + 1) - 1 = q /\ (q - 1) + 1 = q /\ q - 1 \in 0 .. N - 1
        BY ONLY <1>2, <3>4, q \in 0 .. N
      <4>2. Border(d, q) = Border(b, q - 1) /\ Border(d, q + 1) = Border(b, (q - 1) + 1)
            /\ d.infos[q + 1] = b.infos[(q - 1) + 1]
        BY ONLY <2>2, <4>1
      <4>3. /\ b.infos[(q - 1) + 1].num = Border(b, (q - 1) + 1) - Border(b, q - 1)
            /\ b.infos[(q - 1) + 1].at = Border(b, q - 1) + base - start
            /\ Border(b, q - 1) < Border(b, (q - 1) + 1)
            /\ Border(b, q - 1) \in Int /\ Border(b, (q - 1) + 1) \in Int
        BY ONLY <1>3, <4>1
      <4>4. b.infos[(q - 1) + 1].num > 0
        BY ONLY <4>3
      <4> QED
        BY ONLY <4>2, <4>3, <4>4
    <3> QED
      BY ONLY <1>2, <2>1, <3>1, <3>2, <3>3, <3>4
  <2> QED
    BY ONLY <1>7, <2>3 DEF SoundInfo
<1>10. Border(d, 0) = d.start /\ Border(d, p + 1) = Border(b, p) + 1
  <2>1. 0 \in 0 .. N + 1 /\ p + 1 \in 0 .. N + 1 /\ 0 <= p /\ ~(p + 1 <= p)
    BY ONLY <1>2
  <2> QED
    BY ONLY <1>2, <1>7, <1>8, <2>1
<1>11. d.ptr = d.base + (Border(d, d.pos) - d.start)
  BY ONLY <1>2, <1>4, <1>7, <1>10
<1>12. Sound(d, n)
  <2>1. /\ Len(d.infos) > 0 /\ d.start >= 0 /\ d.base >= 0 /\ d.pos # NoPosition
        /\ Len(d.infos) - 1 = N
    BY ONLY <1>2, <1>7 DEF NoPosition
  <2>2. /\ Len(d.mem) = d.base + d.num
        /\ \A k \in d.base + 1 .. Len(d.mem) : d.mem[k] = <<n, d.start + (k - 1 - d.base)>>
    BY ONLY <1>0, <1>7, Sound(b, n) DEF Sound
  <2> QED
    BY ONLY <1>7, <1>9, <1>10, <1>11, <2>1, <2>2 DEF Sound
<1>13. RFrameId(d) = RFrameId(b) + 1
  <2>1. RFrameId(d) = Border(d, d.pos)
    BY <1>12, SoundFields
  <2> QED
    BY ONLY <1>2, <1>7, <1>10, <2>1
<1> QED
  BY ONLY <1>0, <1>1, <1>7, <1>12, <1>13 DEF Passed

LEMMA AdvanceSound ==
    ASSUME NEW b, NEW n, Sound(b, n), b.pos < Len(b.infos), ~(Retrieve(b, b.pos).num > 1)
    PROVE  Passed(b, n, Advance(b))
<1>1. PICK d, N, p : d = Advance(b) /\ N = Len(b.infos) /\ p = b.pos
  OBVIOUS
<1>0. PICK base, start, num : base = b.base /\ start = b.start /\ num = b.num
  OBVIOUS
<1>2. /\ b \in Buffers /\ N \in Nat /\ p \in 0 .. N /\ p \in 0 .. N - 1 /\ p + 1 \in 0 .. N
      /\ start \in Nat /\ num \in Nat /\ base \in Nat /\ Valid(b, b.pos)
      /\ Border(b, N) = start + num /\ RFrameId(b) = Border(b, p)
      /\ Len(b.mem) = base + num
  <2>1. p \in 0 .. N /\ N \in Nat
    BY <1>1, SoundFields
  <2>2. p \in 0 .. N - 1 /\ p + 1 \in 0 .. N
    BY ONLY <1>1, <2>1, b.pos < Len(b.infos)
  <2> QED
    BY <1>0, <1>1, <2>1, <2>2, SoundFields
<1>3. ASSUME NEW q \in 0 .. N - 1
      PROVE  /\ Retrieve(b, q).id = Border(b, q)
             /\ Retrieve(b, q).num = Border(b, q + 1) - Border(b, q)
             /\ Retrieve(b, q).at = Border(b, q) + base - start
             /\ Border(b, q) < Border(b, q + 1)
             /\ Border(b, q) \in Int /\ Border(b, q + 1) \in Int
  BY <1>0, <1>1, SoundFields
<1>4. Border(b, p + 1) = Border(b, p) + 1
  BY ONLY <1>1, <1>2, <1>3, ~(Retrieve(b, b.pos).num > 1)
<1>5. /\ d \in Buffers /\ d.mem = b.mem /\ d.base = base /\ d.start = start
      /\ d.infos = b.infos /\ d.pos = p + 1
      /\ d.num = IF Valid(b, p + 1) THEN num ELSE Retrieve(b, p).id - start + 1
      /\ d.ptr = IF Valid(b, p + 1) THEN Retrieve(b, p + 1).at ELSE Len(b.mem)
  BY <1>0, <1>1, <1>2, AdvanceType
<1>6. d.num = num /\ d.ptr = base + (Border(b, p + 1) - start)
  <2>1. CASE p + 1 \in 0 .. N - 1
    <3>1. Valid(b, p + 1)
      BY ONLY <1>1, <2>1 DEF Valid, End
    <3> QED
      BY ONLY <1>2, <1>3, <1>5, <2>1, <3>1
  <2>2. CASE p + 1 = N
    <3>1. ~Valid(b, p + 1)
      BY ONLY <1>1, <1>2, <2>2 DEF Valid, End
    <3>2. d.num = Retrieve(b, p).id - start + 1 /\ d.ptr = base + num
      BY ONLY <1>2, <1>5, <3>1
    <3>3. Retrieve(b, p).id = Border(b, p) /\ Border(b, p) \in Int
      BY ONLY <1>2, <1>3
    <3>4. Border(b, p + 1) = start + num
      BY ONLY <1>2, <2>2
    <3>5. start \in Nat /\ num \in Nat /\ base \in Nat
      BY ONLY <1>2
    <3>6. Border(b, p) = start + num - 1
      BY ONLY <1>4, <3>3, <3>4, <3>5
    <3>7. d.num = num
      BY ONLY <3>2, <3>3, <3>5, <3>6
    <3>8. d.ptr = base + (Border(b, p + 1) - start)
      BY ONLY <3>2, <3>4, <3>5
    <3> QED
      BY ONLY <3>7, <3>8
  <2> QED
    BY ONLY <1>2, <2>1, <2>2
<1>7. SameFrames(b, d)
  BY ONLY <1>0, <1>5, <1>6 DEF SameFrames
<1>8. \A q : Border(d, q) = Border(b, q)
  BY ONLY <1>7, SameBorders
<1>9. Sound(d, n)
  <2>1. \A q \in 0 .. N - 1 : SoundInfo(d, q)
    <3>1. \A q \in 0 .. N - 1 : SoundInfo(b, q)
      BY <1>1 DEF Sound
    <3> QED
      BY ONLY <1>0, <1>5, <1>8, <3>1 DEF SoundInfo
  <2>2. d.pos # NoPosition
    BY ONLY <1>2, <1>5 DEF NoPosition
  <2>3. d.ptr = d.base + (Border(d, d.pos) - d.start)
    BY ONLY <1>5, <1>6, <1>8
  <2> QED
    BY ONLY <1>0, <1>1, <1>5, <1>6, <1>8, <2>1, <2>2, <2>3, Sound(b, n) DEF Sound
<1>10. RFrameId(d) = RFrameId(b) + 1
  <2>1. RFrameId(d) = Border(d, d.pos)
    BY <1>9, SoundFields
  <2> QED
    BY ONLY <1>2, <1>4, <1>5, <1>8, <2>1
<1> QED
  BY ONLY <1>0, <1>1, <1>5, <1>6, <1>9, <1>10 DEF Passed

\* decompressedFrame() of a buffer.
LEMMA DecompressedSound ==
    ASSUME NEW b, NEW n, Sound(b, n), b.pos < Len(b.infos)
    PROVE  Passed(b, n, Decompressed(b))
<1>1. Retrieve(b, b.pos).at = b.ptr
  <2>1. b.pos \in 0 .. Len(b.infos) /\ Len(b.infos) \in Nat
    BY SoundFields
  <2>2. b.pos \in 0 .. Len(b.infos) - 1
    BY ONLY <2>1, b.pos < Len(b.infos)
  <2>3. /\ Retrieve(b, b.pos).at = Border(b, b.pos) + b.base - b.start
        /\ Border(b, b.pos) \in Int /\ b.base \in Nat /\ b.start \in Nat
    BY <2>2, SoundFields
  <2>4. b.ptr = b.base + (Border(b, b.pos) - b.start)
    BY DEF Sound
  <2> QED
    BY ONLY <2>3, <2>4
<1> QED
  BY <1>1, SplitSound, AdvanceSound DEF Decompressed

-----------------------------------------------------------------------------
\* Managers with the same list that read at the same place.
SameList(c, d) ==
    /\ d.bufs = c.bufs /\ d.s = c.s /\ d.r = c.r /\ d.w = c.w /\ d.wid = c.wid
    /\ d.null = c.null

LEMMA SameListChain ==
    ASSUME NEW c, NEW n, Chain(c, n), NEW d, Manager(d), SameList(c, d)
    PROVE  /\ Chain(d, n) /\ R(d) = R(c) /\ (ReadKept(c) => ReadKept(d))
           /\ \A f : NotInside(c, f) => NotInside(d, f)
<1>1. Chain(d, n)
  BY ONLY Chain(c, n), Manager(d), SameList(c, d) DEF Chain, SameList
<1>2. R(d) = R(c) /\ (ReadKept(c) => ReadKept(d))
  BY ONLY SameList(c, d) DEF R, SameList, ReadKept
<1>3. \A f : NotInside(c, f) => NotInside(d, f)
  BY ONLY SameList(c, d) DEF NotInside, SameList
<1> QED
  BY <1>1, <1>2, <1>3

\* next_decompress_frame may be set to the first frame of an info.
LEMMA NextSet ==
    ASSUME NEW c, NEW n, Chain(c, n), ReadKept(c), NEW f \in Int, c.bufs[1].start <= f,
           f <= c.wid, NotInside(c, f), NEW d, d = [c EXCEPT !.next = f]
    PROVE  /\ SoundManager(d, n) /\ R(d) = R(c) /\ SameList(c, d) /\ d.next = f
           /\ d.locked = c.locked /\ d.off = c.off
<1>1. Manager(c) /\ FALSE \in BOOLEAN
  BY DEF Chain
<1>2. /\ Manager(d) /\ SameCounts(c, d) /\ d.bufs = c.bufs /\ d.r = c.r /\ d.s = c.s
      /\ d.w = c.w /\ d.next = f /\ d.null = c.null /\ d.off = c.off
  BY <1>1, OtherFields
<1>3. SameList(c, d) /\ d.locked = c.locked
  BY ONLY <1>2 DEF SameList, SameCounts
<1>4. /\ Chain(d, n) /\ R(d) = R(c) /\ ReadKept(d) /\ NotInside(d, f)
  BY <1>2, <1>3, SameListChain
<1>5. d.bufs[1].start <= d.next /\ d.next <= d.wid
  BY ONLY <1>2, <1>3, c.bufs[1].start <= f, f <= c.wid DEF SameList
<1> QED
  BY ONLY <1>2, <1>3, <1>4, <1>5 DEF SoundManager, NextKnown

\* One buffer is replaced by one with the same frame numbers.
ChainKept(c, n, d) ==
    /\ Chain(d, n) /\ Len(d.bufs) = Len(c.bufs) /\ d.bufs[1].start = c.bufs[1].start
    /\ d.wid = c.wid /\ d.locked = c.locked /\ d.off = c.off

LEMMA BufferReplaced ==
    ASSUME NEW c, NEW n, Chain(c, n), NEW i \in 1 .. Len(c.bufs), NEW b, Sound(b, n),
           b.start = c.bufs[i].start, b.num = c.bufs[i].num, NEW d, d = [c EXCEPT !.bufs[i] = b]
    PROVE  ChainKept(c, n, d) /\ d.r = c.r /\ d.bufs[i] = b
<1>1. Manager(c) /\ c.null = FALSE /\ b \in Buffers
  BY DEF Chain, Sound
<1>2. /\ Manager(d) /\ SameCounts(c, d) /\ d.s = c.s /\ d.w = c.w /\ d.r = c.r
      /\ d.off = c.off /\ d.next = c.next
      /\ d.null = c.null /\ Len(d.bufs) = Len(c.bufs)
      /\ \A j \in 1 .. Len(c.bufs) : d.bufs[j] = IF j = i THEN b ELSE c.bufs[j]
  BY ONLY <1>1, i \in 1 .. Len(c.bufs), d = [c EXCEPT !.bufs[i] = b], OneBuffer
<1>3. /\ Len(c.bufs) \in Nat /\ 1 \in 1 .. Len(c.bufs) /\ Len(c.bufs) \in 1 .. Len(c.bufs)
  BY Edges
<1>4. ASSUME NEW j \in 1 .. Len(c.bufs)
      PROVE  /\ d.bufs[j].start = c.bufs[j].start /\ EndOf(d.bufs[j]) = EndOf(c.bufs[j])
             /\ Sound(d.bufs[j], n)
  <2>1. Sound(c.bufs[j], n)
    BY DEF Chain
  <2>2. CASE j = i
    <3>1. d.bufs[j] = b
      BY ONLY <1>2, <2>2, j \in 1 .. Len(c.bufs)
    <3> QED
      BY <2>2, <3>1 DEF EndOf
  <2>3. CASE j # i
    <3>1. d.bufs[j] = c.bufs[j]
      BY ONLY <1>2, <2>3, j \in 1 .. Len(c.bufs)
    <3> QED
      BY ONLY <2>1, <3>1
  <2> QED
    BY ONLY <2>2, <2>3
<1>5. ASSUME NEW j \in 1 .. Len(c.bufs) - 1 PROVE EndOf(d.bufs[j]) = d.bufs[j + 1].start
  <2>1. j \in 1 .. Len(c.bufs) /\ j + 1 \in 1 .. Len(c.bufs)
    BY ONLY <1>3, j \in 1 .. Len(c.bufs) - 1
  <2>2. EndOf(c.bufs[j]) = c.bufs[j + 1].start
    BY ONLY Chain(c, n), j \in 1 .. Len(c.bufs) - 1 DEF Chain
  <2> QED
    BY ONLY <1>4, <2>1, <2>2
<1>6. EndOf(d.bufs[Len(c.bufs)]) = c.wid
  <2>1. EndOf(c.bufs[Len(c.bufs)]) = c.wid
    BY DEF Chain
  <2> QED
    BY ONLY <1>3, <1>4, <2>1
<1>7. Chain(d, n)
  <2>1. d.r # NoBuffer /\ d.null = FALSE /\ d.wid = c.wid
    BY ONLY <1>1, <1>2, Chain(c, n) DEF Chain, SameCounts
  <2> QED
    BY ONLY <1>2, <1>4, <1>5, <1>6, <2>1 DEF Chain
<1> QED
  BY ONLY <1>2, <1>3, <1>4, <1>7 DEF ChainKept, SameCounts

LEMMA ToNextBufferSound ==
    ASSUME NEW c, NEW n, Chain(c, n), ~(R(c).pos < Len(R(c).infos))
    PROVE  /\ Chain(ToNextBuffer(c), n) /\ ReadKept(ToNextBuffer(c))
           /\ Alike(c, ToNextBuffer(c)) /\ (NextKnown(c) => NextKnown(ToNextBuffer(c)))
           /\ RFrameId(R(ToNextBuffer(c))) = RFrameId(R(c))
<1>1. /\ c.r \in 1 .. Len(c.bufs) /\ Len(c.bufs) \in Nat /\ R(c) = c.bufs[c.r]
      /\ Sound(R(c), n) /\ c \in Managers
  BY Edges, ManagerFields DEF Chain
<1>2. RFrameId(R(c)) = EndOf(R(c))
  <2>1. ~(RFrameId(R(c)) < R(c).start + R(c).num) /\ RFrameId(R(c)) <= R(c).start + R(c).num
        /\ RFrameId(R(c)) \in Int /\ R(c).start \in Nat /\ R(c).num \in Nat
    BY <1>1, SoundFields
  <2> QED
    BY ONLY <2>1 DEF EndOf
<1>3. CASE c.r < Len(c.bufs)
  <2>1. PICK i, b : i = c.r + 1 /\ b = c.bufs[i]
    OBVIOUS
  <2>2. i \in 1 .. Len(c.bufs) /\ c.r \in 1 .. Len(c.bufs) - 1
    BY ONLY <1>1, <1>3, <2>1
  <2>3. Sound(b, n) /\ EndOf(R(c)) = b.start
    BY <1>1, <2>1, <2>2 DEF Chain
  <2>4. /\ ReRead(b) = At(b, 0) /\ Len(b.infos) \in Nat /\ Len(b.infos) > 0
        /\ Border(b, 0) = b.start
    BY <2>3, SoundMoves, SoundFields
  <2>5. PICK new : new = At(b, 0)
    OBVIOUS
  <2>6. PICK d : d = ReadAt(c, i, i, new)
    OBVIOUS
  <2>7. ReadPlaced(c, n, d, i, new, 0)
    <3>1. 0 \in 0 .. Len(c.bufs[i].infos) /\ new = At(c.bufs[i], 0) /\ 0 < Len(c.bufs[i].infos)
      BY ONLY <2>1, <2>4, <2>5
    <3> QED
      BY ONLY <2>2, <2>6, <3>1, Chain(c, n), SoundPlaced
  <2>8. ToNextBuffer(c) = d
    <3>1. ToNextBuffer(c) = ReadAt(c, i, i, ReRead(c.bufs[i]))
      BY ONLY <1>1, <1>3, <2>1 DEF ToNextBuffer, ReadAt, Managers
    <3> QED
      BY ONLY <2>1, <2>4, <2>5, <2>6, <3>1
  <2> QED
    BY ONLY <1>2, <2>1, <2>3, <2>4, <2>7, <2>8 DEF ReadPlaced
<1>4. CASE ~(c.r < Len(c.bufs))
  <2>1. ToNextBuffer(c) = c
    BY <1>4 DEF ToNextBuffer
  <2> QED
    BY <1>4, <2>1, AlikeSelf DEF ReadKept
<1> QED
  BY <1>3, <1>4

\* The frame at the read position of the manager is passed.
FrameRead(c, n, d) ==
    /\ SoundManager(d, n) /\ RFrameId(R(d)) = RFrameId(R(c)) + 1
    /\ d.bufs[1].start = c.bufs[1].start /\ d.wid = c.wid /\ d.locked = c.locked

\* The frame that would be next is no frame of the read buffer, unless it is the last one.
LEMMA AtWrite ==
    ASSUME NEW c, NEW n, SoundManager(c, n)
    PROVE  /\ RFrameId(R(c)) < c.wid <=> R(c).pos < Len(R(c).infos)
           /\ RFrameId(R(c)) < c.wid <=> AtFrame(R(c))
<1>1. /\ c.r \in 1 .. Len(c.bufs) /\ Len(c.bufs) \in Nat /\ R(c) = c.bufs[c.r]
      /\ Sound(R(c), n) /\ c.wid \in Nat /\ EndOf(R(c)) <= c.wid /\ EndOf(R(c)) \in Nat
  BY Edges DEF SoundManager
<1>2. /\ RFrameId(R(c)) \in Int /\ (R(c).pos < Len(R(c).infos) <=> RFrameId(R(c)) < EndOf(R(c)))
      /\ (AtFrame(R(c)) <=> R(c).pos < Len(R(c).infos))
  BY <1>1, SoundFields DEF EndOf
<1>3. CASE R(c).pos < Len(R(c).infos)
  BY ONLY <1>1, <1>2, <1>3
<1>4. CASE ~(R(c).pos < Len(R(c).infos))
  <2>1. ~(c.r < Len(c.bufs))
    BY <1>1, <1>4 DEF SoundManager, ReadKept
  <2>2. c.r = Len(c.bufs)
    BY ONLY <1>1, <2>1
  <2>3. EndOf(R(c)) = c.wid
    BY <1>1, <2>2 DEF SoundManager, Chain
  <2> QED
    BY ONLY <1>2, <1>4, <2>3
<1> QED
  BY ONLY <1>3, <1>4

\* decompressedFrame() of the manager goes on to the next buffer when this one is read.
LEMMA DecompressedFrameReads ==
    ASSUME NEW c, NEW n, SoundManager(c, n), RFrameId(R(c)) < c.wid
    PROVE  FrameRead(c, n, DecompressedFrame(c))
<1>1. Chain(c, n)
  BY DEF SoundManager
<1>2. /\ c.r \in 1 .. Len(c.bufs) /\ Len(c.bufs) \in Nat /\ R(c) = c.bufs[c.r] /\ Sound(R(c), n)
      /\ R(c).pos < Len(R(c).infos) /\ c \in Managers /\ c.r # NoBuffer
  BY <1>1, Edges, AtWrite, ManagerFields DEF Chain
<1>3. Valid(R(c), R(c).pos)
  BY <1>2, SoundFields
<1>4. PICK b : b = Decompressed(R(c))
  OBVIOUS
<1>5. /\ Sound(b, n) /\ RFrameId(b) = RFrameId(R(c)) + 1 /\ b.start = R(c).start /\ b.num = R(c).num
  BY <1>2, <1>4, DecompressedSound DEF Passed
<1>6. PICK d : d = [c EXCEPT !.bufs[c.r] = b]
  OBVIOUS
<1>7. ChainKept(c, n, d) /\ d.r = c.r /\ d.bufs[c.r] = b
  BY ONLY <1>1, <1>2, <1>5, <1>6, BufferReplaced
<1>8. R(d) = b /\ Chain(d, n)
  BY <1>7 DEF R, ChainKept
<1>9. PICK e : e = ReadOn(d)
  OBVIOUS
<1>10. /\ Chain(e, n) /\ ReadKept(e) /\ RFrameId(R(e)) = RFrameId(b) /\ Alike(d, e)
  <2>1. AtFrame(b) <=> b.pos < Len(b.infos)
    BY <1>5, SoundFields
  <2>2. CASE AtFrame(b)
    <3>1. e = d
      BY ONLY <1>8, <1>9, <2>2 DEF ReadOn
    <3>2. ReadKept(d)
      BY ONLY <1>7, <2>1, <2>2 DEF ReadKept
    <3> QED
      BY <1>8, <3>1, <3>2, AlikeSelf
  <2>3. CASE ~AtFrame(b)
    <3>1. e = ToNextBuffer(d)
      BY ONLY <1>8, <1>9, <2>3 DEF ReadOn
    <3> QED
      BY <1>8, <2>1, <2>3, <3>1, ToNextBufferSound
  <2> QED
    BY <2>2, <2>3
<1>11. PICK f : f = RFrameId(R(e))
  OBVIOUS
<1>12. e.bufs[1].start = c.bufs[1].start /\ e.wid = c.wid /\ e.locked = c.locked
  <2>1. e.bufs[1].start = d.bufs[1].start /\ e.wid = d.wid /\ e.locked = d.locked
    BY <1>8, <1>10, SameStart DEF Alike
  <2> QED
    BY ONLY <1>7, <2>1 DEF ChainKept
<1>13. /\ f \in Int /\ f = RFrameId(R(c)) + 1 /\ e.bufs[1].start <= f /\ f <= e.wid
  <2>1. /\ RFrameId(R(c)) \in Int /\ c.bufs[1].start <= RFrameId(R(c)) /\ c.wid \in Nat
        /\ c.bufs[1].start \in Nat
    BY ReadId
  <2> QED
    BY ONLY <1>5, <1>10, <1>11, <1>12, <2>1, RFrameId(R(c)) < c.wid
<1>14. NotInside(e, f)
  <2>1. e.r \in 1 .. Len(e.bufs) /\ R(e) = e.bufs[e.r] /\ Sound(R(e), n)
    BY <1>10, Edges
  <2>2. /\ RFrameId(R(e)) = Border(R(e), R(e).pos)
        /\ R(e).pos \in 0 .. Len(R(e).infos)
    BY <2>1, SoundFields
  <2>3. PICK i, p : i = e.r /\ p = R(e).pos
    OBVIOUS
  <2>4. i \in 1 .. Len(e.bufs) /\ p \in 0 .. Len(e.bufs[i].infos) /\ f = Border(e.bufs[i], p)
    BY ONLY <1>11, <2>1, <2>2, <2>3
  <2> QED
    BY ONLY <1>10, <2>4, BorderInside
<1>15. PICK x : x = [e EXCEPT !.next = f]
  OBVIOUS
<1>16. SoundManager(x, n) /\ R(x) = R(e) /\ SameList(e, x) /\ x.locked = e.locked
  BY ONLY <1>10, <1>13, <1>14, <1>15, NextSet
<1>17. DecompressedFrame(c) = x
  <2>1. [c EXCEPT !.bufs[c.r] = Decompressed(@)] = d
    BY <1>4, <1>6 DEF R
  <2> QED
    BY ONLY <1>2, <1>3, <1>9, <1>11, <1>15, <2>1 DEF DecompressedFrame, NextIsRFrame
<1>18. x.bufs[1].start = e.bufs[1].start /\ x.wid = e.wid
  BY ONLY <1>16 DEF SameList
<1> QED
  BY ONLY <1>11, <1>12, <1>13, <1>16, <1>17, <1>18 DEF FrameRead

-----------------------------------------------------------------------------
(***************************************************************************)
(* The compressor's seek reads the frame it was asked for.                 *)
(***************************************************************************)
Positioned(c, n, f, d) ==
    /\ SoundManager(d, n) /\ RFrameId(R(d)) = f
    /\ d.bufs[1].start = c.bufs[1].start /\ d.wid = c.wid /\ d.locked = c.locked

LEMMA PositionedOn ==
    ASSUME NEW c, NEW n, NEW f, NEW d, NEW e, Positioned(c, n, f, d), FrameRead(d, n, e)
    PROVE  Positioned(c, n, f + 1, e)
BY DEF Positioned, FrameRead

\* Burning as many frames as the seek has answered ends at the frame.
LEMMA BurnReads ==
    ASSUME NEW c, NEW n, SoundManager(c, n), NEW f, f = RFrameId(R(c)), NEW k \in Nat,
           k # 0 => f + k <= c.wid
    PROVE  Positioned(c, n, f + k, Burn(c, k))
<1>1. PICK g : Decompressing(c, k, g) /\ Burn(c, k) = g[k]
  BY BurnSteps
<1>2. f \in Int /\ c.wid \in Nat
  BY ReadId
<1> DEFINE T == {m \in 0 .. k : ~ Positioned(c, n, f + m, g[m])}
<1>3. T = {}
  <2>1. SUFFICES ASSUME T # {} PROVE FALSE
    OBVIOUS
  <2>2. T \subseteq Nat
    OBVIOUS
  <2>3. PICK m \in T : \A l \in T : m <= l
    <3> HIDE DEF T
    <3> QED
      BY <2>1, <2>2, LeastNat
  <2>4. m \in 0 .. k /\ ~ Positioned(c, n, f + m, g[m])
    OBVIOUS
  <2>5. m # 0
    <3>1. g[0] = c /\ f + 0 = f
      BY ONLY <1>1, <1>2 DEF Decompressing
    <3>2. Positioned(c, n, f + 0, g[0])
      BY ONLY <3>1, SoundManager(c, n), f = RFrameId(R(c)) DEF Positioned
    <3> QED
      BY ONLY <2>4, <3>2
  <2>6. m \in 1 .. k /\ m - 1 \in 0 .. k /\ ~(m <= m - 1) /\ k # 0 /\ m - 1 < k /\ m - 1 \in Int
    BY ONLY <2>4, <2>5, k \in Nat
  <2>7. m - 1 \notin T
    BY ONLY <2>3, <2>6
  <2>8. PICK before, last : before = g[m - 1] /\ last = f + (m - 1)
    OBVIOUS
  <2>9. Positioned(c, n, last, before)
    BY ONLY <2>6, <2>7, <2>8
  <2>10. g[m] = DecompressedFrame(before)
    BY ONLY <1>1, <2>6, <2>8 DEF Decompressing
  <2>11. RFrameId(R(before)) < before.wid /\ SoundManager(before, n)
    <3>1. last < c.wid
      <4>1. f + k <= c.wid
        BY ONLY <2>6, k # 0 => f + k <= c.wid
      <4> QED
        BY ONLY <1>2, <2>6, <2>8, <4>1, k \in Nat
    <3> QED
      BY ONLY <2>9, <3>1 DEF Positioned
  <2>12. FrameRead(before, n, g[m])
    BY ONLY <2>10, <2>11, DecompressedFrameReads
  <2>13. Positioned(c, n, last + 1, g[m])
    BY ONLY <2>9, <2>12, PositionedOn
  <2>14. last + 1 = f + m
    BY ONLY <1>2, <2>4, <2>8, k \in Nat
  <2> QED
    BY ONLY <2>4, <2>13, <2>14
<1>4. k \in 0 .. k
  BY ONLY k \in Nat
<1> QED
  BY <1>1, <1>3, <1>4

LEMMA DeviceSeekReaches ==
    ASSUME NEW c, NEW n, SoundManager(c, n), NEW f \in Int, c.bufs[1].start <= f, f <= c.wid
    PROVE  Positioned(c, n, f, DeviceSeek(c, f))
<1>1. PICK x, d : x = Seek(c, f) /\ d = x.cbm
  OBVIOUS
<1>2. /\ Alike(c, d) /\ SoundManager(d, n) /\ x.burn = f - RFrameId(R(d)) /\ x.burn >= 0
      /\ x.burn # 0 => R(d).pos < Len(R(d).infos) /\ f < Border(R(d), R(d).pos + 1)
  <2>1. Reached(c, n, f, x)
    BY ONLY <1>1, SoundManager(c, n), f \in Int, c.bufs[1].start <= f, f <= c.wid, SeekReaches
  <2> QED
    BY ONLY <1>1, <2>1 DEF Reached
<1>3. d.bufs[1].start = c.bufs[1].start /\ d.wid = c.wid /\ d.locked = c.locked
  BY <1>2, SameStart DEF SoundManager, Alike
<1>4. RFrameId(R(d)) \in Int /\ d.wid \in Nat
  BY <1>2, ReadId
<1>5. CASE x.burn = 0
  <2>1. BurnFrames(x) = d
    BY ONLY <1>1, <1>5 DEF BurnFrames
  <2>2. RFrameId(R(d)) = f
    BY ONLY <1>2, <1>4, <1>5, f \in Int
  <2> QED
    BY ONLY <1>1, <1>2, <1>3, <2>1, <2>2 DEF DeviceSeek, Positioned
<1>6. CASE x.burn # 0
  <2>1. PICK k, id : k = x.burn /\ id = RFrameId(R(d))
    OBVIOUS
  <2>2. k \in Nat /\ k # 0 /\ k > 0 /\ id + k = f
    BY ONLY <1>2, <1>4, <1>6, <2>1, f \in Int
  <2>3. BurnFrames(x) = Burn(d, k)
    BY ONLY <1>1, <2>1, <2>2 DEF BurnFrames
  <2>4. id + k <= d.wid
    <3>1. PICK b : b = R(d)
      OBVIOUS
    <3>2. Sound(b, n) /\ EndOf(b) <= d.wid /\ EndOf(b) \in Nat
      BY <1>2, <3>1, Edges DEF SoundManager
    <3>3. b.pos \in 0 .. Len(b.infos) /\ Len(b.infos) \in Nat
      BY <3>2, SoundFields
    <3>4. b.pos + 1 \in 0 .. Len(b.infos)
      BY ONLY <1>2, <1>6, <3>1, <3>3
    <3>5. Border(b, b.pos + 1) \in Int /\ Border(b, b.pos + 1) <= EndOf(b)
      BY <3>2, <3>4, Borders DEF EndOf
    <3>6. f < Border(b, b.pos + 1)
      BY ONLY <1>2, <1>6, <3>1
    <3> QED
      BY ONLY <1>4, <2>2, <3>2, <3>5, <3>6, f \in Int
  <2>5. Positioned(d, n, id + k, Burn(d, k))
    BY ONLY <1>2, <2>1, <2>2, <2>4, BurnReads
  <2> QED
    BY ONLY <1>1, <1>3, <2>2, <2>3, <2>5 DEF DeviceSeek, Positioned
<1> QED
  BY <1>5, <1>6

\* The frame it then takes is the one with that number.
LEMMA FrameThere ==
    ASSUME NEW c, NEW n, SoundManager(c, n), NEW f, f = RFrameId(R(c)), f < c.wid
    PROVE  HasFrame(c) /\ NextFrame(c) = <<n, f>>
<1>1. PICK b : b = R(c)
  OBVIOUS
<1>2. Sound(b, n) /\ c.r # NoBuffer /\ AtFrame(b) /\ b.pos < Len(b.infos)
  BY <1>1, Edges, AtWrite DEF SoundManager, Chain
<1>3. PICK base, start, num, ptr, k :
         base = b.base /\ start = b.start /\ num = b.num /\ ptr = b.ptr /\ k = b.ptr + 1
  OBVIOUS
<1>4. /\ base \in Nat /\ start \in Nat /\ num \in Nat /\ f \in Int /\ start <= f /\ f < start + num
      /\ ptr = base + (f - start) /\ Len(b.mem) = base + num
  BY <1>1, <1>2, <1>3, SoundFields
<1>5. k \in base + 1 .. Len(b.mem) /\ start + (k - 1 - base) = f
  BY ONLY <1>3, <1>4
<1>6. b.mem[k] = <<n, start + (k - 1 - base)>>
  BY ONLY <1>2, <1>3, <1>5 DEF Sound
<1>7. NextFrame(c) = b.mem[k]
  BY ONLY <1>1, <1>3 DEF NextFrame
<1> QED
  BY ONLY <1>1, <1>2, <1>5, <1>6, <1>7 DEF HasFrame

-----------------------------------------------------------------------------
(***************************************************************************)
(* Frames are added behind the last one.                                   *)
(***************************************************************************)
Following(n, f, frames) ==
    /\ frames \in Seq(FrameIds) /\ Len(frames) > 0
    /\ \A k \in 1 .. Len(frames) : frames[k] = <<n, f + (k - 1)>>

\* d holds the frames of b, as b has them, and more of them.
Extended(b, d) ==
    /\ d.start = b.start /\ d.pos = b.pos /\ Len(d.infos) = Len(b.infos) + 1
    /\ \A p \in 0 .. Len(b.infos) : Border(d, p) = Border(b, p)

\* addFrames() to the last info or as a new one.
LEMMA AddFramesSound ==
    ASSUME NEW b, NEW n, Sound(b, n), NEW f, f = EndOf(b), NEW frames, Following(n, f, frames),
           NEW d, d = AddFrames(b, frames, f)
    PROVE  Sound(d, n) /\ Extended(b, d) /\ EndOf(d) = f + Len(frames)
<1>1. PICK N, base, start, num, m, ptr :
         /\ N = Len(b.infos) /\ base = b.base /\ start = b.start /\ num = b.num
         /\ m = Len(frames) /\ ptr = b.ptr
  OBVIOUS
<1>2. /\ b \in Buffers /\ N \in Nat /\ base \in Nat /\ start \in Nat /\ num \in Nat
      /\ b.mem \in Seq(FrameIds) /\ b.pos \in 0 .. N /\ Border(b, 0) = start
      /\ Border(b, N) = start + num /\ Len(b.mem) = base + num /\ N > 0
  BY <1>1, SoundFields
<1>3. f = start + num /\ f \in Int /\ m \in Nat /\ m > 0 /\ frames \in Seq(FrameIds)
  <2>1. frames \in Seq(FrameIds) /\ Len(frames) > 0
    BY DEF Following
  <2>2. Len(frames) \in Nat
    BY <2>1, LenProperties
  <2>3. f = start + num
    BY ONLY <1>1, f = EndOf(b) DEF EndOf
  <2> QED
    BY ONLY <1>1, <1>2, <2>1, <2>2, <2>3
<1>4. b.pos # NoPosition
  BY DEF Sound
<1>5. PICK info : info = Info(Len(b.mem), Len(frames), f)
  OBVIOUS
<1>6. /\ d \in Buffers /\ d.base = base /\ d.ptr = ptr /\ d.mem = b.mem \o frames
      /\ d.num = num + m /\ d.start = start /\ d.pos = b.pos /\ Len(d.infos) = N + 1
      /\ \A k \in 1 .. N : d.infos[k] = b.infos[k]
      /\ d.infos[N + 1] = info
  BY <1>1, <1>2, <1>3, <1>4, <1>5, AddFramesType
<1>7. info.at = base + num /\ info.num = m /\ info.id = f
  BY ONLY <1>1, <1>2, <1>5 DEF Info
<1>8. /\ Len(d.mem) = base + num + m
      /\ \A k \in 1 .. base + num : d.mem[k] = b.mem[k]
      /\ \A k \in base + num + 1 .. base + num + m : d.mem[k] = frames[k - (base + num)]
  <2>1. /\ Len(b.mem \o frames) = Len(b.mem) + Len(frames)
        /\ \A k \in 1 .. Len(b.mem) + Len(frames) :
              (b.mem \o frames)[k] = IF k <= Len(b.mem) THEN b.mem[k] ELSE frames[k - Len(b.mem)]
    BY ONLY <1>2, <1>3, ConcatProperties
  <2>2. PICK mem : mem = b.mem \o frames
    OBVIOUS
  <2>3. /\ Len(mem) = base + num + m
        /\ \A k \in 1 .. base + num + m :
              mem[k] = IF k <= base + num THEN b.mem[k] ELSE frames[k - (base + num)]
    BY ONLY <1>1, <1>2, <2>1, <2>2
  <2>4. \A k \in 1 .. base + num : mem[k] = b.mem[k]
    BY ONLY <1>2, <1>3, <2>3
  <2>5. \A k \in base + num + 1 .. base + num + m : mem[k] = frames[k - (base + num)]
    BY ONLY <1>2, <1>3, <2>3
  <2> QED
    BY ONLY <1>6, <2>2, <2>3, <2>4, <2>5
<1>9. ASSUME NEW q \in 0 .. N PROVE Border(d, q) = Border(b, q)
  <2>1. CASE q = N
    <3>1. Border(d, q) = f
      <4>1. q < Len(d.infos)
        BY ONLY <1>2, <1>6, <2>1
      <4> QED
        BY ONLY <1>6, <1>7, <2>1, <4>1 DEF Border
    <3> QED
      BY ONLY <1>2, <1>3, <2>1, <3>1
  <2>2. CASE q # N
    <3>1. q < Len(d.infos) /\ q < Len(b.infos) /\ q + 1 \in 1 .. N
      BY ONLY <1>1, <1>2, <1>6, <2>2, q \in 0 .. N
    <3>2. d.infos[q + 1] = b.infos[q + 1]
      BY ONLY <1>6, <3>1
    <3> QED
      BY ONLY <3>1, <3>2 DEF Border
  <2> QED
    BY ONLY <2>1, <2>2
<1>10. Border(d, N + 1) = f + m /\ EndOf(d) = f + m
  <2>1. ~(N + 1 < Len(d.infos)) /\ d.start + d.num = f + m
    BY ONLY <1>2, <1>3, <1>6
  <2> QED
    BY ONLY <2>1 DEF Border, EndOf
<1>11. ASSUME NEW q \in 0 .. N PROVE SoundInfo(d, q)
  <2>1. CASE q = N
    <3>1. /\ d.infos[q + 1] = info /\ Border(d, q) = f /\ Border(d, q + 1) = f + m
      BY ONLY <1>2, <1>3, <1>6, <1>9, <1>10, <2>1
    <3>2. m = (f + m) - f /\ base + num = f + base - start
      BY ONLY <1>2, <1>3
    <3> QED
      BY ONLY <1>3, <1>6, <1>7, <3>1, <3>2 DEF SoundInfo
  <2>2. CASE q # N
    <3>1. q \in 0 .. N - 1 /\ q + 1 \in 0 .. N /\ q + 1 \in 1 .. N
      BY ONLY <1>2, <2>2, q \in 0 .. N
    <3>2. SoundInfo(b, q)
      BY <1>1, <3>1 DEF Sound
    <3>3. /\ d.infos[q + 1] = b.infos[q + 1] /\ Border(d, q) = Border(b, q)
          /\ Border(d, q + 1) = Border(b, q + 1) /\ d.base = b.base /\ d.start = b.start
      BY ONLY <1>1, <1>6, <1>9, <3>1
    <3> QED
      BY ONLY <3>2, <3>3 DEF SoundInfo
  <2> QED
    BY ONLY <2>1, <2>2
<1>12. ASSUME NEW k \in base + 1 .. base + num + m
       PROVE  d.mem[k] = <<n, start + (k - 1 - base)>>
  <2>1. CASE k <= base + num
    <3>1. k \in 1 .. base + num /\ k \in base + 1 .. base + num
      BY ONLY <1>2, <1>3, <2>1, k \in base + 1 .. base + num + m
    <3>2. b.mem[k] = <<n, start + (k - 1 - base)>>
      BY ONLY <1>1, <1>2, <3>1, Sound(b, n) DEF Sound
    <3> QED
      BY ONLY <1>8, <3>1, <3>2
  <2>2. CASE ~(k <= base + num)
    <3>1. /\ k \in base + num + 1 .. base + num + m /\ k - (base + num) \in 1 .. m
          /\ f + (k - (base + num) - 1) = start + (k - 1 - base)
      BY ONLY <1>2, <1>3, <2>2, k \in base + 1 .. base + num + m
    <3>2. frames[k - (base + num)] = <<n, f + (k - (base + num) - 1)>>
      BY ONLY <1>1, <3>1, Following(n, f, frames) DEF Following
    <3> QED
      BY ONLY <1>8, <3>1, <3>2
  <2> QED
    BY ONLY <2>1, <2>2
<1>13. Sound(d, n)
  <2>1. /\ Len(d.infos) > 0 /\ d.start >= 0 /\ d.base >= 0 /\ Len(d.infos) - 1 = N
        /\ Len(d.mem) = d.base + d.num
    BY ONLY <1>2, <1>3, <1>6, <1>8
  <2>2. Border(d, 0) = d.start
    <3>1. 0 \in 0 .. N
      BY ONLY <1>2
    <3> QED
      BY ONLY <1>2, <1>6, <1>9, <3>1
  <2>3. d.ptr = d.base + (Border(d, d.pos) - d.start)
    <3>1. b.ptr = b.base + (Border(b, b.pos) - b.start)
      BY DEF Sound
    <3> QED
      BY ONLY <1>1, <1>2, <1>6, <1>9, <3>1
  <2>4. \A k \in d.base + 1 .. Len(d.mem) : d.mem[k] = <<n, d.start + (k - 1 - d.base)>>
    BY ONLY <1>6, <1>8, <1>12
  <2> QED
    BY ONLY <1>4, <1>6, <1>11, <2>1, <2>2, <2>3, <2>4 DEF Sound
<1> QED
  BY ONLY <1>1, <1>6, <1>9, <1>10, <1>13 DEF Extended

\* A buffer of one info.
LEMMA OneInfoSound ==
    ASSUME NEW n, NEW f \in Nat, NEW frames, Following(n, f, frames), NEW d \in Buffers,
           d.mem = frames, d.base = 0, d.start = f, d.num = Len(frames), Len(d.infos) = 1,
           d.infos[1] = Info(0, Len(frames), f), d.pos = 0, d.ptr = 0
    PROVE  Sound(d, n) /\ EndOf(d) = f + Len(frames)
<1>1. PICK m : m = Len(frames)
  OBVIOUS
<1>2. m \in Nat /\ m > 0
  BY <1>1, LenProperties DEF Following
<1>3. d.infos[1].at = 0 /\ d.infos[1].num = m /\ d.infos[1].id = f
  BY ONLY <1>1, d.infos[1] = Info(0, Len(frames), f) DEF Info
<1>4. Border(d, 0) = f /\ Border(d, 1) = f + m
  <2>1. 0 < Len(d.infos) /\ ~(1 < Len(d.infos)) /\ 0 + 1 = 1
    BY ONLY Len(d.infos) = 1
  <2> QED
    BY ONLY <1>1, <1>3, <2>1, d.start = f, d.num = Len(frames) DEF Border
<1>5. SoundInfo(d, 0)
  <2>1. 0 + 1 = 1 /\ m = (f + m) - f /\ 0 = f + 0 - f
    BY ONLY <1>2, f \in Nat
  <2> QED
    BY ONLY <1>2, <1>3, <1>4, <2>1, d.base = 0, d.start = f DEF SoundInfo
<1>6. \A p \in 0 .. Len(d.infos) - 1 : SoundInfo(d, p)
  <2>1. \A p \in 0 .. Len(d.infos) - 1 : p = 0
    BY ONLY Len(d.infos) = 1
  <2> QED
    BY ONLY <1>5, <2>1
<1>7. \A k \in d.base + 1 .. Len(d.mem) : d.mem[k] = <<n, d.start + (k - 1 - d.base)>>
  <2>1. \A k \in 1 .. m : frames[k] = <<n, f + (k - 1)>>
    BY ONLY <1>1, Following(n, f, frames) DEF Following
  <2>2. \A k \in 1 .. m : k - 1 = k - 1 - 0
    BY ONLY <1>2
  <2>3. d.base + 1 = 1
    BY ONLY d.base = 0
  <2> QED
    BY ONLY <1>1, <2>1, <2>2, <2>3, d.base = 0, d.mem = frames, d.start = f
<1>8. d.ptr = d.base + (Border(d, d.pos) - d.start) /\ Len(d.mem) = d.base + d.num
  BY ONLY <1>1, <1>2, <1>4, d.base = 0, d.mem = frames, d.start = f, d.pos = 0, d.ptr = 0,
          d.num = Len(frames), f \in Nat
<1>9. d.pos # NoPosition /\ Len(d.infos) > 0 /\ d.start >= 0 /\ d.base >= 0
  BY ONLY d.pos = 0, Len(d.infos) = 1, d.start = f, d.base = 0, f \in Nat DEF NoPosition
<1> QED
  BY ONLY <1>4, <1>6, <1>7, <1>8, <1>9, d \in Buffers, d.start = f, d.num = Len(frames)
     DEF Sound, EndOf

LEMMA UserBufferSound ==
    ASSUME NEW n, NEW f \in Nat, NEW frames, Following(n, f, frames), NEW d,
           d = UserBuffer(frames, f)
    PROVE  Sound(d, n) /\ EndOf(d) = f + Len(frames) /\ d.start = f
<1>1. frames \in Seq(FrameIds) /\ f \in Int
  BY DEF Following
<1>2. /\ d \in Buffers
      /\ d.mem = frames /\ d.base = 0 /\ d.start = f /\ d.num = Len(frames)
      /\ d.infos = <<Info(0, Len(frames), f)>> /\ d.pos = 0 /\ d.ptr = 0
  BY <1>1, UserBufferType
<1>3. Len(d.infos) = 1 /\ d.infos[1] = Info(0, Len(frames), f)
  BY ONLY <1>2
<1> QED
  BY ONLY <1>2, <1>3, f \in Nat, Following(n, f, frames), OneInfoSound

LEMMA NewBufferSound ==
    ASSUME NEW n, NEW f \in Nat, NEW frames, Following(n, f, frames), NEW size \in Int,
           NEW d, d = AddFrames(NewBuffer(size), frames, f)
    PROVE  Sound(d, n) /\ EndOf(d) = f + Len(frames) /\ d.start = f
<1>1. frames \in Seq(FrameIds) /\ f \in Int /\ Len(frames) \in Nat
  BY LenProperties DEF Following
<1>2. PICK b : b = NewBuffer(size)
  OBVIOUS
<1>3. /\ b \in Buffers /\ b.pos = NoPosition /\ b.base = 0 /\ b.ptr = 0 /\ b.num = 0
      /\ b.mem = <<>> /\ Len(b.mem) = 0 /\ Len(b.infos) = 0
  BY <1>2, NewBufferType DEF NewBuffer
<1>4. /\ d \in Buffers /\ d.base = b.base /\ d.ptr = b.ptr /\ d.mem = b.mem \o frames
      /\ d.num = b.num + Len(frames)
      /\ d.start = IF b.pos = NoPosition THEN f ELSE b.start
      /\ d.pos = IF b.pos = NoPosition THEN 0 ELSE b.pos
      /\ Len(d.infos) = Len(b.infos) + 1
      /\ d.infos[Len(b.infos) + 1] = Info(Len(b.mem), Len(frames), f)
  BY <1>1, <1>2, <1>3, AddFramesType
<1>5. /\ d.base = 0 /\ d.ptr = 0 /\ d.num = Len(frames) /\ d.start = f /\ d.pos = 0
      /\ Len(d.infos) = 1 /\ d.infos[1] = Info(0, Len(frames), f)
  BY ONLY <1>1, <1>3, <1>4
<1>6. d.mem = frames
  BY ONLY <1>1, <1>3, <1>4, ConcatEmptySeq
<1> QED
  BY ONLY <1>4, <1>5, <1>6, f \in Nat, Following(n, f, frames), OneInfoSound

-----------------------------------------------------------------------------
(***************************************************************************)
(* The manager before the first frame, and the manager a reset leaves.     *)
(***************************************************************************)
Empty(c) ==
    /\ Manager(c) /\ c.bufs = <<>> /\ c.s = NoBuffer /\ c.r = NoBuffer /\ c.w = NoBuffer
    /\ c.wid = 0 /\ c.next = 0 /\ c.null = FALSE

SoundCis(c, n) == Empty(c) \/ SoundManager(c, n)

\* The first frame the manager holds.
FirstFrame(c) == IF c.r = NoBuffer THEN c.wid ELSE c.bufs[1].start

\* After frames were added the manager holds some, and from the same first one on.
Grown(c, n, d) == SoundManager(d, n) /\ FirstFrame(d) = FirstFrame(c)

LEMMA SoundFirst ==
    ASSUME NEW c, NEW n, SoundManager(c, n)
    PROVE  FirstFrame(c) = c.bufs[1].start /\ c.r # NoBuffer /\ c.w # NoBuffer
<1>1. c.r # NoBuffer
  BY DEF SoundManager, Chain
<1>2. c.w # NoBuffer
  BY <1>1, ManagerFields DEF SoundManager, Chain, NoBuffer
<1> QED
  BY <1>1, <1>2 DEF FirstFrame

\* The manager d is c with the buffer b behind the others.
Followed(c, d, b) ==
    /\ Manager(d) /\ Len(d.bufs) = Len(c.bufs) + 1
    /\ \A j \in 1 .. Len(c.bufs) : d.bufs[j] = c.bufs[j]
    /\ d.bufs[Len(c.bufs) + 1] = b
    /\ d.next = c.next /\ d.null = c.null
    /\ d.r = IF c.r # NoBuffer /\ ~ReadIsAtWrite(c) THEN c.r ELSE Len(c.bufs) + 1

LEMMA BufferFollows ==
    ASSUME NEW c, NEW n, SoundCis(c, n), NEW b, Sound(b, n), b.start = c.wid, NEW d,
           Followed(c, d, b), d.wid = EndOf(b)
    PROVE  Grown(c, n, d)
<1>1. PICK l : l = Len(c.bufs)
  OBVIOUS
<1>2. /\ Manager(c) /\ l \in Nat /\ c.null = FALSE /\ c.wid \in Nat
      /\ c.next \in Int /\ c.next <= c.wid
  <2>1. CASE Empty(c)
    BY <1>1, <2>1 DEF Empty
  <2>2. CASE SoundManager(c, n)
    BY <1>1, <2>2, Edges DEF SoundManager, Chain, NextKnown
  <2> QED
    BY <2>1, <2>2 DEF SoundCis
<1>3. /\ Len(d.bufs) = l + 1 /\ \A j \in 1 .. l : d.bufs[j] = c.bufs[j]
      /\ d.bufs[l + 1] = b /\ d.next = c.next /\ d.null = c.null
      /\ d.r = IF c.r # NoBuffer /\ ~ReadIsAtWrite(c) THEN c.r ELSE l + 1
      /\ Manager(d)
  BY ONLY <1>1, Followed(c, d, b) DEF Followed
<1>4. /\ b.start < EndOf(b) /\ EndOf(b) \in Nat /\ b.start \in Nat
      /\ \A p \in 0 .. Len(b.infos) : Border(b, p) \in Int /\ b.start <= Border(b, p)
  <2>1. b.start \in Nat /\ b.num \in Nat /\ b.num > 0
    BY SoundFields
  <2>2. \A p \in 0 .. Len(b.infos) : Border(b, p) \in Int /\ b.start <= Border(b, p)
    BY Borders
  <2> QED
    BY ONLY <2>1, <2>2 DEF EndOf
\* The buffers of c, when it has some.
<1>5. ASSUME SoundManager(c, n)
      PROVE  /\ l \in 1 .. l /\ 1 \in 1 .. l /\ c.r \in 1 .. l /\ c.r # NoBuffer
             /\ EndOf(c.bufs[l]) = c.wid
             /\ \A i \in 1 .. l - 1 : EndOf(c.bufs[i]) = c.bufs[i + 1].start
             /\ \A i \in 1 .. l : Sound(c.bufs[i], n)
             /\ NotInside(c, c.next) /\ c.bufs[1].start <= c.next
  BY <1>1, <1>5, Edges DEF SoundManager, Chain, NextKnown
<1>6. ASSUME NEW i \in 1 .. l PROVE SoundManager(c, n)
  <2>1. l # 0
    BY ONLY <1>2, i \in 1 .. l
  <2>2. c.bufs # <<>>
    BY ONLY <1>1, <2>1
  <2> QED
    BY ONLY <2>2, SoundCis(c, n) DEF SoundCis, Empty
<1>7. \A i \in 1 .. l + 1 : Sound(d.bufs[i], n)
  <2>1. ASSUME NEW i \in 1 .. l PROVE Sound(d.bufs[i], n)
    BY ONLY <1>3, <1>5, <1>6, i \in 1 .. l
  <2>2. \A i \in 1 .. l + 1 : i = l + 1 \/ i \in 1 .. l
    BY ONLY <1>2
  <2> QED
    BY ONLY <1>3, <2>1, <2>2, Sound(b, n)
<1>8. ASSUME NEW i \in 1 .. (l + 1) - 1 PROVE EndOf(d.bufs[i]) = d.bufs[i + 1].start
  <2>1. i \in 1 .. l
    BY ONLY <1>2, i \in 1 .. (l + 1) - 1
  <2>2. d.bufs[i] = c.bufs[i]
    BY ONLY <1>3, <2>1
  <2>3. CASE i = l
    BY ONLY <1>3, <1>5, <1>6, <2>1, <2>2, <2>3, b.start = c.wid
  <2>4. CASE i # l
    <3>1. i \in 1 .. l - 1 /\ i + 1 \in 1 .. l
      BY ONLY <1>2, <2>1, <2>4
    <3> QED
      BY ONLY <1>3, <1>5, <1>6, <2>1, <2>2, <3>1
  <2> QED
    BY ONLY <2>3, <2>4
<1>9. d.r # NoBuffer
  <2>1. l + 1 # NoBuffer
    BY ONLY <1>2 DEF NoBuffer
  <2> QED
    BY ONLY <1>3, <2>1
<1>10. Chain(d, n)
  BY ONLY <1>2, <1>3, <1>7, <1>8, <1>9, d.wid = EndOf(b) DEF Chain
<1>11. ReadKept(d)
  <2>1. CASE c.r # NoBuffer /\ ~ReadIsAtWrite(c)
    <3>1. SoundManager(c, n)
      BY ONLY <2>1, SoundCis(c, n) DEF SoundCis, Empty
    <3>2. c.r \in 1 .. l /\ d.r = c.r /\ d.bufs[c.r] = c.bufs[c.r]
      BY ONLY <1>3, <1>5, <2>1, <3>1
    <3>3. c.bufs[c.r].pos < Len(c.bufs[c.r].infos)
      <4>1. CASE c.r = l
        <5>1. AtFrame(R(c)) /\ R(c) = c.bufs[c.r]
          BY <1>1, <2>1, <3>1, <4>1, Edges DEF ReadIsAtWrite, SoundManager
        <5> QED
          BY <3>1, <5>1, AtWrite
      <4>2. CASE c.r # l
        <5>1. c.r < l
          BY ONLY <1>2, <3>2, <4>2
        <5> QED
          BY ONLY <1>1, <3>1, <5>1 DEF SoundManager, ReadKept
      <4> QED
        BY ONLY <4>1, <4>2
    <3> QED
      BY ONLY <3>2, <3>3 DEF ReadKept
  <2>2. CASE ~(c.r # NoBuffer /\ ~ReadIsAtWrite(c))
    <3>1. ~(d.r < Len(d.bufs))
      BY ONLY <1>2, <1>3, <2>2
    <3> QED
      BY ONLY <3>1 DEF ReadKept
  <2> QED
    BY ONLY <2>1, <2>2
<1>12. d.bufs[1].start = FirstFrame(c) /\ d.bufs[1].start <= d.next
  <2>1. CASE Empty(c)
    <3>1. l = 0 /\ c.r = NoBuffer /\ c.next = 0 /\ c.wid = 0
      BY ONLY <1>1, <2>1 DEF Empty
    <3>2. d.bufs[1] = b
      BY ONLY <1>3, <3>1
    <3> QED
      BY ONLY <1>3, <3>1, <3>2, b.start = c.wid DEF FirstFrame
  <2>2. CASE SoundManager(c, n)
    <3>1. d.bufs[1] = c.bufs[1]
      BY ONLY <1>3, <1>5, <2>2
    <3> QED
      BY ONLY <1>3, <1>5, <2>2, <3>1 DEF FirstFrame
  <2> QED
    BY ONLY <2>1, <2>2, SoundCis(c, n) DEF SoundCis
<1>13. NotInside(d, d.next)
  <2>1. SUFFICES ASSUME NEW i \in 1 .. Len(d.bufs), NEW p \in 0 .. Len(d.bufs[i].infos) - 1
                 PROVE  ~(Border(d.bufs[i], p) < d.next /\ d.next < Border(d.bufs[i], p + 1))
    BY DEF NotInside
  <2>2. i = l + 1 \/ i \in 1 .. l
    BY ONLY <1>2, <1>3, i \in 1 .. Len(d.bufs)
  <2>3. CASE i = l + 1
    <3>1. d.bufs[i] = b
      BY ONLY <1>3, <2>3
    <3>2. p \in 0 .. Len(b.infos)
      <4>1. Len(b.infos) \in Nat
        BY SoundFields
      <4> QED
        BY ONLY <3>1, <4>1, p \in 0 .. Len(d.bufs[i].infos) - 1
    <3>3. Border(b, p) \in Int /\ b.start <= Border(b, p)
      BY ONLY <1>4, <3>2
    <3>4. ~(Border(b, p) < c.next)
      BY ONLY <1>2, <1>4, <3>3, b.start = c.wid
    <3> QED
      BY ONLY <1>3, <3>1, <3>4
  <2>4. CASE i \in 1 .. l
    <3>1. d.bufs[i] = c.bufs[i] /\ NotInside(c, c.next)
      BY ONLY <1>3, <1>5, <1>6, <2>4
    <3>2. p \in 0 .. Len(c.bufs[i].infos) - 1
      BY ONLY <3>1, p \in 0 .. Len(d.bufs[i].infos) - 1
    <3>3. ~(Border(c.bufs[i], p) < c.next /\ c.next < Border(c.bufs[i], p + 1))
      BY ONLY <1>1, <2>4, <3>1, <3>2 DEF NotInside
    <3> QED
      BY ONLY <1>3, <3>1, <3>3
  <2> QED
    BY ONLY <2>2, <2>3, <2>4
<1>14. d.next <= d.wid
  BY ONLY <1>2, <1>3, <1>4, b.start = c.wid, d.wid = EndOf(b)
<1>15. SoundManager(d, n)
  BY ONLY <1>10, <1>11, <1>12, <1>13, <1>14 DEF SoundManager, NextKnown
<1> QED
  BY ONLY <1>9, <1>12, <1>15 DEF Grown, FirstFrame

\* The write buffer gets more frames.
LEMMA BufferExtends ==
    ASSUME NEW c, NEW n, SoundManager(c, n), NEW b, Sound(b, n), Extended(W(c), b),
           NEW d, Manager(d), Len(d.bufs) = Len(c.bufs), d.wid = EndOf(b), EndOf(b) >= c.wid,
           \A j \in 1 .. Len(c.bufs) : d.bufs[j] = IF j = c.w THEN b ELSE c.bufs[j],
           d.next = c.next, d.null = c.null, d.r = c.r
    PROVE  Grown(c, n, d)
<1>1. PICK l, o : l = Len(c.bufs) /\ o = W(c)
  OBVIOUS
<1>2. /\ l \in Nat /\ c.null = FALSE /\ c.wid \in Nat /\ c.next \in Int /\ c.next <= c.wid
      /\ l \in 1 .. l /\ 1 \in 1 .. l /\ c.r \in 1 .. l /\ c.r # NoBuffer /\ c.w = l
      /\ o = c.bufs[l] /\ EndOf(o) = c.wid
      /\ \A i \in 1 .. l - 1 : EndOf(c.bufs[i]) = c.bufs[i + 1].start
      /\ \A i \in 1 .. l : Sound(c.bufs[i], n)
      /\ NotInside(c, c.next) /\ c.bufs[1].start <= c.next
  BY <1>1, Edges DEF SoundManager, Chain, NextKnown
<1>3. /\ Len(d.bufs) = l /\ d.bufs[l] = b /\ \A j \in 1 .. l - 1 : d.bufs[j] = c.bufs[j]
  <2>1. \A j \in 1 .. l - 1 : j \in 1 .. l /\ j # l
    BY ONLY <1>2
  <2> QED
    BY ONLY <1>1, <1>2, <2>1, Len(d.bufs) = Len(c.bufs),
            \A j \in 1 .. Len(c.bufs) : d.bufs[j] = IF j = c.w THEN b ELSE c.bufs[j]
<1>4. /\ b.start = o.start /\ b.pos = o.pos /\ Len(b.infos) = Len(o.infos) + 1
      /\ \A p \in 0 .. Len(o.infos) : Border(b, p) = Border(o, p)
  BY ONLY <1>1, Extended(W(c), b) DEF Extended
<1>5. \A i \in 1 .. l : i = l \/ i \in 1 .. l - 1
  BY ONLY <1>2
<1>6. \A i \in 1 .. l : Sound(d.bufs[i], n) /\ d.bufs[i].start = c.bufs[i].start
  BY ONLY <1>2, <1>3, <1>4, <1>5, Sound(b, n)
<1>7. ASSUME NEW i \in 1 .. l - 1 PROVE EndOf(d.bufs[i]) = d.bufs[i + 1].start
  <2>1. i + 1 \in 1 .. l
    BY ONLY <1>2, i \in 1 .. l - 1
  <2> QED
    BY ONLY <1>2, <1>3, <1>6, <2>1, i \in 1 .. l - 1
<1>8. Chain(d, n)
  <2>1. d.r # NoBuffer /\ d.null = FALSE
    BY ONLY <1>2, d.null = c.null, d.r = c.r
  <2> QED
    BY ONLY <1>3, <1>6, <1>7, <2>1, Manager(d), d.wid = EndOf(b) DEF Chain
<1>9. ReadKept(d)
  <2>1. CASE c.r \in 1 .. l - 1
    <3>1. c.r < Len(c.bufs) /\ d.bufs[c.r] = c.bufs[c.r]
      BY ONLY <1>1, <1>2, <1>3, <2>1
    <3>2. c.bufs[c.r].pos < Len(c.bufs[c.r].infos)
      BY ONLY <3>1, SoundManager(c, n) DEF SoundManager, ReadKept
    <3> QED
      BY ONLY <3>1, <3>2, d.r = c.r DEF ReadKept
  <2>2. CASE c.r = l
    <3>1. ~(d.r < Len(d.bufs))
      BY ONLY <1>2, <1>3, <2>2, d.r = c.r
    <3> QED
      BY ONLY <3>1 DEF ReadKept
  <2> QED
    BY ONLY <1>2, <1>5, <2>1, <2>2
<1>10. d.bufs[1].start = c.bufs[1].start
  BY ONLY <1>2, <1>6
<1>11. NotInside(d, d.next)
  <2>1. SUFFICES ASSUME NEW i \in 1 .. Len(d.bufs), NEW p \in 0 .. Len(d.bufs[i].infos) - 1
                 PROVE  ~(Border(d.bufs[i], p) < d.next /\ d.next < Border(d.bufs[i], p + 1))
    BY DEF NotInside
  <2>2. i = l \/ i \in 1 .. l - 1
    BY ONLY <1>3, <1>5, i \in 1 .. Len(d.bufs)
  <2>3. CASE i = l
    <3>1. d.bufs[i] = b /\ c.bufs[i] = o /\ i \in 1 .. Len(c.bufs)
      BY ONLY <1>1, <1>2, <1>3, <2>3
    <3>2. PICK N : N = Len(o.infos)
      OBVIOUS
    <3>3. N \in Nat /\ Border(o, N) = c.wid
      <4>1. Sound(o, n)
        BY ONLY <1>2
      <4> QED
        BY <1>2, <3>2, <4>1, SoundFields DEF EndOf
    <3>4. p \in 0 .. N
      BY ONLY <1>4, <3>1, <3>2, <3>3, p \in 0 .. Len(d.bufs[i].infos) - 1
    <3>5. CASE p = N
      <4>1. Border(b, p) = c.wid
        BY ONLY <1>4, <3>2, <3>3, <3>4, <3>5
      <4>2. ~(Border(b, p) < c.next)
        BY ONLY <1>2, <4>1
      <4> QED
        BY ONLY <3>1, <4>2, d.next = c.next
    <3>6. CASE p # N
      <4>1. p \in 0 .. N - 1 /\ p + 1 \in 0 .. N
        BY ONLY <3>3, <3>4, <3>6
      <4>2. p \in 0 .. Len(c.bufs[i].infos) - 1
        BY ONLY <3>1, <3>2, <4>1
      <4>3. ~(Border(c.bufs[i], p) < c.next /\ c.next < Border(c.bufs[i], p + 1))
        BY ONLY <1>2, <3>1, <4>2 DEF NotInside
      <4>4. Border(b, p) = Border(o, p) /\ Border(b, p + 1) = Border(o, p + 1)
        BY ONLY <1>4, <3>2, <3>4, <4>1
      <4> QED
        BY ONLY <3>1, <4>3, <4>4, d.next = c.next
    <3> QED
      BY ONLY <3>5, <3>6
  <2>4. CASE i \in 1 .. l - 1
    <3>1. d.bufs[i] = c.bufs[i] /\ i \in 1 .. Len(c.bufs)
      BY ONLY <1>1, <1>2, <1>3, <2>4
    <3>2. p \in 0 .. Len(c.bufs[i].infos) - 1
      BY ONLY <3>1, p \in 0 .. Len(d.bufs[i].infos) - 1
    <3>3. ~(Border(c.bufs[i], p) < c.next /\ c.next < Border(c.bufs[i], p + 1))
      BY ONLY <1>2, <3>1, <3>2 DEF NotInside
    <3> QED
      BY ONLY <3>1, <3>3, d.next = c.next
  <2> QED
    BY ONLY <2>2, <2>3, <2>4
<1>12. d.bufs[1].start <= d.next /\ d.next <= d.wid
  <2>1. EndOf(b) \in Nat
    <3>1. b.start \in Nat /\ b.num \in Nat
      BY SoundFields
    <3> QED
      BY ONLY <3>1 DEF EndOf
  <2> QED
    BY ONLY <1>2, <1>10, <2>1, d.next = c.next, d.wid = EndOf(b), EndOf(b) >= c.wid
<1>13. SoundManager(d, n)
  BY ONLY <1>8, <1>9, <1>11, <1>12 DEF SoundManager, NextKnown
<1> QED
  BY ONLY <1>2, <1>10, <1>13, d.r = c.r DEF Grown, FirstFrame

-----------------------------------------------------------------------------
\* Frames are written into a new buffer behind the last one, or into the last one.
LEMMA AttachedIsWritten ==
    ASSUME NEW c, NEW n, SoundCis(c, n), NEW frames, Following(n, c.wid, frames),
           NEW size \in Int, NEW d, d = Attach(c, NewBuffer(size)), NEW e,
           e = Written(d, AddFrames(W(d), frames, c.wid), c.wid + Len(frames))
    PROVE  /\ Grown(c, n, e) /\ e.wid = c.wid + Len(frames) /\ e.locked = c.locked
           /\ Manager(d) /\ d.wid = c.wid /\ d.r # NoBuffer
<1>1. Manager(c) /\ c.wid \in Nat /\ c.bufs \in Seq(Buffers) /\ Len(c.bufs) \in Nat
  BY ManagerFields DEF SoundCis, Empty, SoundManager, Chain
<1>2. PICK b0 : b0 = NewBuffer(size)
  OBVIOUS
<1>3. b0 \in Buffers
  BY <1>2, NewBufferType
<1>4. /\ Manager(d) /\ SameCounts(c, d) /\ d.r # NoBuffer
      /\ d.bufs = Append(c.bufs, b0) /\ d.w = Len(c.bufs) + 1
      /\ d.next = c.next /\ d.null = c.null /\ d.off = c.off
      /\ d.r = IF c.r # NoBuffer /\ ~ReadIsAtWrite(c) THEN c.r ELSE Len(c.bufs) + 1
  BY <1>1, <1>2, <1>3, AttachType DEF KeptType
<1>5. /\ Len(d.bufs) = Len(c.bufs) + 1 /\ d.bufs[Len(c.bufs) + 1] = b0
      /\ \A j \in 1 .. Len(c.bufs) : d.bufs[j] = c.bufs[j]
  BY ONLY <1>1, <1>3, <1>4, AppendProperties
<1>6. W(d) = b0
  BY <1>4, <1>5 DEF W
<1>7. PICK b, m : b = AddFrames(b0, frames, c.wid) /\ m = c.wid + Len(frames)
  OBVIOUS
<1>8. Sound(b, n) /\ EndOf(b) = m /\ b.start = c.wid
  BY <1>1, <1>2, <1>7, NewBufferSound
<1>9. b \in Buffers /\ m \in Nat
  BY <1>1, <1>7, <1>8 DEF Sound, Following
<1>10. e = Written(d, b, m)
  BY <1>6, <1>7
<1>11. /\ Manager(e) /\ e.wid = m /\ e.locked = d.locked /\ e.r = d.r
       /\ e.next = d.next /\ e.null = d.null /\ Len(e.bufs) = Len(d.bufs)
       /\ \A j \in 1 .. Len(d.bufs) : e.bufs[j] = IF j = d.w THEN b ELSE d.bufs[j]
  BY ONLY <1>4, <1>9, <1>10, WrittenType
<1>12. /\ e.bufs[Len(c.bufs) + 1] = b
       /\ \A j \in 1 .. Len(c.bufs) : e.bufs[j] = c.bufs[j]
  <2>1. Len(c.bufs) + 1 \in 1 .. Len(d.bufs)
    BY <1>1, <1>5
  <2>2. ASSUME NEW j \in 1 .. Len(c.bufs) PROVE e.bufs[j] = c.bufs[j]
    <3>1. j \in 1 .. Len(d.bufs) /\ j # d.w
      BY <1>1, <1>4, <1>5
    <3> QED
      BY <1>5, <1>11, <3>1
  <2> QED
    BY <1>4, <1>11, <2>1, <2>2
<1>13. Followed(c, e, b)
  BY ONLY <1>4, <1>5, <1>11, <1>12 DEF Followed
<1>14. Grown(c, n, e)
  BY ONLY <1>8, <1>11, <1>13, SoundCis(c, n), BufferFollows
<1> QED
  BY <1>4, <1>7, <1>11, <1>14 DEF SameCounts

LEMMA LastIsWritten ==
    ASSUME NEW c, NEW n, SoundManager(c, n), NEW frames, Following(n, c.wid, frames), NEW e,
           e = Written(c, AddFrames(W(c), frames, c.wid), c.wid + Len(frames))
    PROVE  Grown(c, n, e) /\ e.wid = c.wid + Len(frames) /\ e.locked = c.locked
<1>1. Chain(c, n) /\ Manager(c) /\ c.r # NoBuffer
  BY DEF SoundManager, Chain
<1>2. Len(c.bufs) \in 1 .. Len(c.bufs) /\ c.w = Len(c.bufs) /\ c.wid \in Nat
  BY <1>1, Edges
<1>3. Sound(W(c), n) /\ EndOf(W(c)) = c.wid
  BY <1>1, <1>2 DEF Chain, W
<1>4. PICK b, m : b = AddFrames(W(c), frames, c.wid) /\ m = c.wid + Len(frames)
  OBVIOUS
<1>5. Sound(b, n) /\ Extended(W(c), b) /\ EndOf(b) = m
  BY <1>3, <1>4, AddFramesSound
<1>6. b \in Buffers /\ m \in Nat /\ m >= c.wid
  BY <1>2, <1>4, <1>5 DEF Sound, Following
<1>7. /\ Manager(e) /\ e.wid = m /\ e.locked = c.locked /\ e.r = c.r
      /\ e.next = c.next /\ e.null = c.null /\ Len(e.bufs) = Len(c.bufs)
      /\ \A j \in 1 .. Len(c.bufs) : e.bufs[j] = IF j = c.w THEN b ELSE c.bufs[j]
  <2>1. e = Written(c, b, m)
    BY <1>4
  <2> QED
    BY ONLY <1>1, <1>6, <2>1, WrittenType
<1>8. Grown(c, n, e)
  BY ONLY <1>5, <1>6, <1>7, SoundManager(c, n), BufferExtends
<1> QED
  BY <1>4, <1>7, <1>8

LEMMA PutBitsPtrGrows ==
    ASSUME NEW c, NEW n, SoundCis(c, n), NEW frames, Following(n, c.wid, frames)
    PROVE  Grown(c, n, PutBitsPtr(c, frames))
<1>1. Manager(c) /\ c.wid \in Nat /\ c.bufs \in Seq(Buffers) /\ Len(c.bufs) \in Nat
  BY ManagerFields DEF SoundCis, Empty, SoundManager, Chain
<1>2. PICK b, m : b = UserBuffer(frames, c.wid) /\ m = c.wid + Len(frames)
  OBVIOUS
<1>3. Sound(b, n) /\ EndOf(b) = m /\ b.start = c.wid
  BY <1>1, <1>2, UserBufferSound
<1>4. b \in Buffers /\ m \in Nat
  BY <1>1, <1>2, <1>3 DEF Sound, Following
<1>5. PICK d : d = Attach(c, b)
  OBVIOUS
<1>6. /\ Manager(d) /\ SameCounts(c, d) /\ d.r # NoBuffer
      /\ d.bufs = Append(c.bufs, b) /\ d.w = Len(c.bufs) + 1
      /\ d.next = c.next /\ d.null = c.null
      /\ d.r = IF c.r # NoBuffer /\ ~ReadIsAtWrite(c) THEN c.r ELSE Len(c.bufs) + 1
  BY <1>1, <1>4, <1>5, AttachType DEF KeptType
<1>7. /\ Len(d.bufs) = Len(c.bufs) + 1 /\ d.bufs[Len(c.bufs) + 1] = b
      /\ \A j \in 1 .. Len(c.bufs) : d.bufs[j] = c.bufs[j]
  BY ONLY <1>1, <1>4, <1>6, AppendProperties
<1>8. PICK e : e = [d EXCEPT !.wid = m]
  OBVIOUS
<1>9. /\ Manager(e) /\ e.bufs = d.bufs /\ e.next = d.next /\ e.null = d.null /\ e.r = d.r
      /\ e.wid = m
  BY ONLY <1>4, <1>6, <1>8 DEF Manager, Managers, Pointers
<1>10. Followed(c, e, b)
  BY ONLY <1>6, <1>7, <1>9 DEF Followed
<1>11. Grown(c, n, e)
  BY ONLY <1>3, <1>9, <1>10, SoundCis(c, n), BufferFollows
<1>12. PutBitsPtr(c, frames) = e
  <2>1. PutBitsPtr(c, frames) = [d EXCEPT !.wid = d.wid + Len(frames)]
    BY <1>2, <1>5 DEF PutBitsPtr
  <2> QED
    BY <1>2, <1>6, <1>8, <2>1 DEF SameCounts
<1> QED
  BY <1>11, <1>12

LEMMA PutBitsGrows ==
    ASSUME NEW c, NEW n, SoundCis(c, n), NEW frames, Following(n, c.wid, frames)
    PROVE  Grown(c, n, PutBits(c, frames))
<1>1. Manager(c) /\ c.wid \in Nat /\ Len(frames) \in Int
  BY ManagerFields DEF SoundCis, Empty, SoundManager, Chain, Following
<1>2. c.w # NoBuffer => SoundManager(c, n)
  BY DEF SoundCis, Empty
<1>3. PICK d : d = IF c.w = NoBuffer \/ Room(W(c)) < Len(frames)
                   THEN Attach(c, NewBuffer(Len(frames))) ELSE c
  OBVIOUS
<1>4. PICK e : e = Written(d, AddFrames(W(d), frames, c.wid), c.wid + Len(frames))
  OBVIOUS
<1>5. Grown(c, n, e) /\ Manager(d) /\ d.wid = c.wid
  <2>1. CASE d = Attach(c, NewBuffer(Len(frames)))
    BY <1>1, <1>4, <2>1, AttachedIsWritten
  <2>2. CASE d = c /\ c.w # NoBuffer
    BY <1>1, <1>2, <1>4, <2>2, LastIsWritten
  <2> QED
    BY <1>3, <2>1, <2>2
<1>6. PutBits(c, frames) = e
  <2>1. PutBits(c, frames) = [d EXCEPT !.bufs[d.w] = AddFrames(@, frames, c.wid),
                                       !.wid = @ + Len(frames)]
    BY ONLY <1>3 DEF PutBits
  <2> QED
    BY ONLY <1>4, <1>5, <2>1 DEF Written, W, Managers, Manager
<1> QED
  BY <1>5, <1>6

-----------------------------------------------------------------------------
\* nextBuffer() of a manager whose buffers have frames: a buffer is only ever added.
LEMMA NextBufferAttaches ==
    ASSUME NEW c, NEW n, SoundCis(c, n), NEW d, d = NextBuffer(c, Capacity)
    PROVE  (d = c /\ c.w # NoBuffer) \/ d = Attach(c, NewBuffer(Capacity))
<1>1. PICK b : b = NewBuffer(Capacity)
  OBVIOUS
<1>2. b \in Buffers
  BY <1>1, NewBufferType, CisAssumption
<1>3. Manager(c) /\ c \in Managers
  BY DEF SoundCis, Empty, SoundManager, Chain, Manager
<1>4. CASE Empty(c)
  <2>1. c.w = 0 /\ c.s = 0 /\ c.r = 0 /\ c.bufs = <<>> /\ Len(c.bufs) = 0
    BY <1>4 DEF Empty, NoBuffer
  <2>2. PICK bufs : bufs = Append(c.bufs, b)
    OBVIOUS
  <2>3. Append(c.bufs, b) \in Seq(Buffers)
    BY ONLY <1>2, <2>1
  <2>4. d = [c EXCEPT !.bufs = bufs, !.s = 1, !.r = 1, !.w = 1]
    BY ONLY <1>1, <1>3, <2>1, <2>2, d = NextBuffer(c, Capacity) DEF NextBuffer, NoBuffer, Managers
  <2>5. Attach(c, b) = StartIfNone(AppendAndRead(c, b))
    BY ONLY <2>1 DEF Attach, NoBuffer
  <2>6. PICK e : e = AppendAndRead(c, b)
    OBVIOUS
  <2>7. e = [c EXCEPT !.bufs = bufs, !.w = 1, !.r = 1]
    BY ONLY <1>3, <2>1, <2>2, <2>6 DEF AppendAndRead, AppendBuffer, Managers
  <2>8. e.s = 0 /\ e.w = 1
    BY ONLY <1>3, <2>1, <2>2, <2>3, <2>7 DEF Managers
  <2>9. StartIfNone(e) = [e EXCEPT !.s = 1]
    BY ONLY <2>8 DEF StartIfNone, NoBuffer
  <2>10. d = [e EXCEPT !.s = 1]
    BY ONLY <1>3, <2>2, <2>3, <2>4, <2>7 DEF Managers
  <2> QED
    BY ONLY <1>1, <2>5, <2>6, <2>9, <2>10
<1>5. CASE SoundManager(c, n)
  <2>1. c.w # NoBuffer /\ c.r # NoBuffer
    BY <1>5, SoundFirst
  <2>2. S(c).num # 0
    BY <1>5, Edges DEF SoundManager
  <2>3. d \in {c, AppendBuffer(c, b), AppendAndRead(c, b)}
        /\ (d # c => d = IF ~ReadIsAtWrite(c) THEN AppendBuffer(c, b) ELSE AppendAndRead(c, b))
    BY ONLY <1>1, <2>1, <2>2, d = NextBuffer(c, Capacity) DEF NextBuffer
  <2>4. StartIfNone(AppendBuffer(c, b)) = AppendBuffer(c, b)
        /\ StartIfNone(AppendAndRead(c, b)) = AppendAndRead(c, b)
    BY <1>2, <1>3, <2>1, AppendType
  <2>5. Attach(c, b) = IF ~ReadIsAtWrite(c) THEN AppendBuffer(c, b) ELSE AppendAndRead(c, b)
    BY ONLY <2>1, <2>4 DEF Attach
  <2> QED
    BY ONLY <1>1, <2>1, <2>3, <2>5
<1> QED
  BY <1>4, <1>5 DEF SoundCis

\* A frame that fits the next buffer.
LEMMA NextIsWritten ==
    ASSUME NEW c, NEW n, SoundCis(c, n), NEW frame, frame = <<n, c.wid>>, n \in Nat,
           NEW d, d = NextBuffer(c, Capacity), NEW e,
           e = Written(d, AddFrames(W(d), <<frame>>, c.wid), c.wid + 1)
    PROVE  /\ Grown(c, n, e) /\ e.locked = c.locked
           /\ Manager(d) /\ d.wid = c.wid /\ d.r # NoBuffer
<1>1. Manager(c) /\ c.wid \in Nat
  BY ManagerFields DEF SoundCis, Empty, SoundManager, Chain
<1>2. Following(n, c.wid, <<frame>>) /\ Len(<<frame>>) = 1
  <2>1. frame \in FrameIds
    BY <1>1 DEF FrameIds
  <2>2. <<frame>> \in Seq(FrameIds) /\ Len(<<frame>>) = 1 /\ <<frame>>[1] = frame
    BY ONLY <2>1
  <2>3. \A k \in 1 .. 1 : <<frame>>[k] = <<n, c.wid + (k - 1)>>
    BY ONLY <1>1, <2>2, frame = <<n, c.wid>>
  <2> QED
    BY ONLY <2>2, <2>3 DEF Following
<1>5. PICK frames : frames = <<frame>>
  OBVIOUS
<1>6. Following(n, c.wid, frames) /\ e = Written(d, AddFrames(W(d), frames, c.wid), c.wid + Len(frames))
  BY <1>2, <1>5
<1>3. CASE d = c /\ c.w # NoBuffer
  <2>1. SoundManager(c, n)
    BY <1>3 DEF SoundCis, Empty
  <2>2. e = Written(c, AddFrames(W(c), frames, c.wid), c.wid + Len(frames))
    BY <1>3, <1>6
  <2>3. Grown(c, n, e) /\ e.locked = c.locked
    BY ONLY <1>6, <2>1, <2>2, LastIsWritten
  <2> QED
    BY <1>1, <1>3, <2>1, <2>3, SoundFirst
<1>4. CASE d = Attach(c, NewBuffer(Capacity))
  <2>1. Capacity \in Int
    BY CisAssumption
  <2>2. /\ Grown(c, n, e) /\ e.locked = c.locked
        /\ Manager(d) /\ d.wid = c.wid /\ d.r # NoBuffer
    BY ONLY <1>4, <1>6, <2>1, AttachedIsWritten, SoundCis(c, n)
  <2> QED
    BY <2>2
<1> QED
  BY <1>3, <1>4, NextBufferAttaches

LEMMA CompressedFrameGrows ==
    ASSUME NEW c, NEW n, SoundCis(c, n), n \in Nat
    PROVE  Grown(c, n, CompressedFrame(NextBuffer(c, Capacity), <<n, c.wid>>))
<1>1. PICK frame, d : frame = <<n, c.wid>> /\ d = NextBuffer(c, Capacity)
  OBVIOUS
<1>2. PICK e : e = Written(d, AddFrames(W(d), <<frame>>, c.wid), c.wid + 1)
  OBVIOUS
<1>3. Grown(c, n, e) /\ Manager(d) /\ d.wid = c.wid
  BY <1>1, <1>2, NextIsWritten
<1>4. CompressedFrame(d, frame) = e
  BY ONLY <1>2, <1>3 DEF CompressedFrame, Written, W, Managers, Manager
<1> QED
  BY ONLY <1>1, <1>3, <1>4

\* The lock of the write buffer is all that differs.
LEMMA LockSet ==
    ASSUME NEW c, NEW n, SoundCis(c, n), NEW l \in BOOLEAN, NEW d, d = [c EXCEPT !.locked = l]
    PROVE  SoundCis(d, n) /\ (SoundManager(c, n) => SoundManager(d, n))
           /\ FirstFrame(d) = FirstFrame(c) /\ d.wid = c.wid
<1>1. Manager(c)
  BY DEF SoundCis, Empty, SoundManager, Chain
<1>2. /\ Manager(d) /\ d.wid = c.wid /\ d.bufs = c.bufs /\ d.r = c.r /\ d.s = c.s /\ d.w = c.w
      /\ d.next = c.next /\ d.null = c.null
  BY <1>1, OtherFields, 0 \in Int
<1>3. FirstFrame(d) = FirstFrame(c)
  BY ONLY <1>2 DEF FirstFrame
<1>4. ASSUME SoundManager(c, n) PROVE SoundManager(d, n)
  <2>1. SameList(c, d)
    BY <1>2 DEF SameList
  <2>2. Chain(d, n) /\ ReadKept(d) /\ NotInside(d, c.next)
    BY <1>2, <1>4, <2>1, SameListChain DEF SoundManager, NextKnown
  <2>3. c.bufs[1].start <= c.next /\ c.next <= c.wid
    BY <1>4 DEF SoundManager, NextKnown
  <2> QED
    BY ONLY <1>2, <2>2, <2>3 DEF SoundManager, NextKnown
<1>5. ASSUME Empty(c) PROVE Empty(d)
  BY ONLY <1>2, <1>5 DEF Empty
<1> QED
  BY <1>2, <1>3, <1>4, <1>5 DEF SoundCis

LEMMA BufferSpaceGrows ==
    ASSUME NEW c, NEW n, SoundCis(c, n), n \in Nat
    PROVE  Grown(c, n, DoneBufferSpace(NextBufferSpace(c, Capacity), <<n, c.wid>>))
<1>1. PICK frame, d : frame = <<n, c.wid>> /\ d = NextBuffer(c, Capacity)
  OBVIOUS
<1>2. PICK e : e = Written(d, AddFrames(W(d), <<frame>>, c.wid), c.wid + 1)
  OBVIOUS
<1>3. Grown(c, n, e) /\ Manager(d) /\ d.wid = c.wid /\ d.r # NoBuffer
  BY <1>1, <1>2, NextIsWritten
<1>4. PICK k : k = [d EXCEPT !.locked = TRUE]
  OBVIOUS
<1>5. PICK g : g = [e EXCEPT !.locked = FALSE]
  OBVIOUS
<1>6. NextBufferSpace(c, Capacity) = k
  BY <1>1, <1>4 DEF NextBufferSpace
<1>7. DoneBufferSpace(k, frame) = g
  <2>1. /\ k \in Managers /\ k.bufs = d.bufs /\ k.w = d.w /\ k.wid = d.wid
        /\ d \in Managers
    BY ONLY <1>3, <1>4 DEF Managers, Manager
  <2>2. PICK bufs : bufs = [d.bufs EXCEPT ![d.w] = AddFrames(d.bufs[d.w], <<frame>>, c.wid)]
    OBVIOUS
  <2>3. CompressedFrame(k, frame) = [k EXCEPT !.bufs = bufs, !.wid = c.wid + 1]
    BY ONLY <1>3, <2>1, <2>2 DEF CompressedFrame, Managers
  <2>4. e = [d EXCEPT !.bufs = bufs, !.wid = c.wid + 1]
    BY ONLY <1>2, <1>3, <2>1, <2>2 DEF Written, W, Managers
  <2>5. [[k EXCEPT !.bufs = bufs, !.wid = c.wid + 1] EXCEPT !.locked = FALSE]
          = [[d EXCEPT !.bufs = bufs, !.wid = c.wid + 1] EXCEPT !.locked = FALSE]
    BY ONLY <1>4, <2>1 DEF Managers
  <2> QED
    BY ONLY <1>5, <2>3, <2>4, <2>5 DEF DoneBufferSpace
<1>8. SoundManager(g, n) /\ FirstFrame(g) = FirstFrame(e)
  <2>1. SoundCis(e, n) /\ SoundManager(e, n)
    BY <1>3 DEF Grown, SoundCis
  <2> QED
    BY ONLY <1>5, <2>1, LockSet, FALSE \in BOOLEAN
<1> QED
  BY ONLY <1>1, <1>3, <1>6, <1>7, <1>8 DEF Grown

-----------------------------------------------------------------------------
LEMMA SameFields ==
    ASSUME NEW c \in Managers, NEW d \in Managers, d.bufs = c.bufs, d.s = c.s, d.r = c.r,
           d.w = c.w, d.wid = c.wid, d.off = c.off, d.next = c.next, d.locked = c.locked,
           d.null = c.null
    PROVE  d = c
  BY DEF Managers

\* Space that is asked for and given back leaves the manager as it was.
LEMMA SpaceGivenBack ==
    ASSUME NEW c, NEW n, SoundCis(c, n)
    PROVE  CancelBufferSpace(NextBufferSpace(c, Capacity)) = [c EXCEPT !.locked = FALSE]
<1>1. PICK d, k, o : /\ d = NextBuffer(c, Capacity) /\ k = [d EXCEPT !.locked = TRUE]
                     /\ o = [c EXCEPT !.locked = FALSE]
  OBVIOUS
<1>2. Manager(c) /\ c \in Managers /\ c.bufs \in Seq(Buffers) /\ Len(c.bufs) \in Nat
      /\ (c.w # NoBuffer => SoundManager(c, n))
  BY ManagerFields DEF SoundCis, Empty, SoundManager, Chain
<1>3. NextBufferSpace(c, Capacity) = k
  BY <1>1 DEF NextBufferSpace
<1>4. CASE d = c /\ c.w # NoBuffer
  <2>1. W(c).num # 0 /\ c.w \in 1 .. Len(c.bufs)
    BY <1>2, <1>4, Edges DEF SoundManager, W
  <2>2. W(k) = W(c) /\ [k EXCEPT !.locked = FALSE] = o
    BY ONLY <1>1, <1>2, <1>4 DEF W, Managers
  <2> QED
    BY ONLY <1>3, <2>1, <2>2, <1>1 DEF CancelBufferSpace
<1>5. CASE d = Attach(c, NewBuffer(Capacity))
  <2>1. PICK b : b = NewBuffer(Capacity)
    OBVIOUS
  <2>2. b \in Buffers /\ b.num = 0
    <3>1. b.num = 0
      BY <2>1 DEF NewBuffer
    <3> QED
      BY <2>1, <3>1, NewBufferType, CisAssumption
  <2>3. /\ Manager(d) /\ SameCounts(c, d) /\ d.r # NoBuffer /\ d.bufs = Append(c.bufs, b)
        /\ d.w = Len(c.bufs) + 1
        /\ d.next = c.next /\ d.null = c.null /\ d.off = c.off
        /\ d.r = IF c.r # NoBuffer /\ ~ReadIsAtWrite(c) THEN c.r ELSE Len(c.bufs) + 1
    BY <1>2, <1>5, <2>1, <2>2, AttachType DEF KeptType
  <2>4. /\ Len(d.bufs) = Len(c.bufs) + 1 /\ d.bufs[Len(c.bufs) + 1] = b
        /\ \A j \in 1 .. Len(c.bufs) : d.bufs[j] = c.bufs[j]
    BY ONLY <1>2, <2>2, <2>3, AppendProperties
  <2>5. d \in Managers /\ d.s = 1 /\ W(d).num = 0
    BY <2>2, <2>3, <2>4, ManagerFields DEF W
  <2>6. /\ k \in Managers /\ Manager(k) /\ k.bufs = d.bufs /\ k.s = d.s /\ k.r = d.r
        /\ k.w = d.w /\ k.wid = d.wid /\ k.off = d.off /\ k.next = d.next /\ k.null = d.null
    BY ONLY <1>1, <2>3 DEF Manager, Managers, Pointers
  <2>7. o \in Managers /\ o.bufs = c.bufs /\ o.s = c.s /\ o.r = c.r
        /\ o.w = c.w /\ o.wid = c.wid /\ o.off = c.off /\ o.next = c.next /\ o.null = c.null
        /\ o.locked = FALSE
    BY ONLY <1>1, <1>2 DEF Managers
  <2>8. W(k).num = 0
    BY ONLY <2>5, <2>6 DEF W
  <2>9. CASE Empty(c)
    <3>1. c.bufs = <<>> /\ c.s = 0 /\ c.r = 0 /\ c.w = 0 /\ Len(c.bufs) = 0 /\ k.w = k.s
      BY <2>3, <2>5, <2>6, <2>9 DEF Empty, NoBuffer
    <3>2. PICK g : g = [RemoveOnly(k) EXCEPT !.locked = FALSE]
      OBVIOUS
    <3>3. CancelBufferSpace(k) = g
      BY ONLY <2>8, <3>1, <3>2 DEF CancelBufferSpace
    <3>4. /\ g \in Managers /\ g.bufs = <<>> /\ g.s = 0 /\ g.r = 0 /\ g.w = 0 /\ g.wid = k.wid
          /\ g.off = k.off /\ g.next = k.next /\ g.null = k.null /\ g.locked = FALSE
      <4>1. <<>> \in Seq(Buffers)
        OBVIOUS
      <4> QED
        BY ONLY <2>6, <3>2, <4>1 DEF RemoveOnly, Managers, NoBuffer
    <3>5. g = o
      <4>1. /\ g.bufs = o.bufs /\ g.s = o.s /\ g.r = o.r /\ g.w = o.w /\ g.wid = o.wid
            /\ g.off = o.off /\ g.next = o.next /\ g.locked = o.locked /\ g.null = o.null
        BY ONLY <2>3, <2>6, <2>7, <3>1, <3>4 DEF SameCounts, NoBuffer
      <4>2. g \in Managers /\ o \in Managers
        BY ONLY <2>3, <2>6, <2>7, <3>1, <3>4
      <4> QED
        BY ONLY <4>1, <4>2, SameFields
    <3> QED
      BY ONLY <1>1, <1>3, <3>3, <3>5
  <2>10. CASE SoundManager(c, n)
    <3>1. PICK l : l = Len(c.bufs)
      OBVIOUS
    <3>2. /\ l \in Nat /\ l >= 1 /\ c.r \in 1 .. l /\ c.w = l /\ c.s = 1 /\ c.r # NoBuffer
          /\ l \in 1 .. l /\ Sound(c.bufs[l], n)
      BY <2>10, <3>1, Edges DEF SoundManager, NoBuffer
    <3>3. k.w = l + 1 /\ k.w # k.s /\ k.w - 1 = l
      BY ONLY <2>3, <2>5, <2>6, <3>1, <3>2
    <3>4. SubSeq(k.bufs, 1, l) = c.bufs
      <4>1. k.bufs \in Seq(Buffers) /\ l \in 1 .. Len(k.bufs)
        BY <2>4, <2>6, <3>1, <3>2, ManagerFields
      <4>2. SubSeq(k.bufs, 1, l) \in Seq(Buffers) /\ Len(SubSeq(k.bufs, 1, l)) = l
            /\ \A j \in 1 .. l : SubSeq(k.bufs, 1, l)[j] = k.bufs[j]
        BY ONLY <4>1, ShorterSeq
      <4> QED
        BY ONLY <1>2, <2>4, <2>6, <3>1, <4>2, SeqEqual
    <3>5. PICK left : left = IF k.r = k.w THEN [c.bufs EXCEPT ![l] = UnRead(c.bufs[l])] ELSE c.bufs
      OBVIOUS
    <3>6. left = c.bufs
      <4>1. CASE k.r = k.w
        <5>1. ReadIsAtWrite(c)
          BY ONLY <2>3, <2>6, <3>1, <3>2, <3>3, <4>1
        <5>2. c.r = l /\ ~AtFrame(c.bufs[l])
          BY ONLY <3>2, <5>1 DEF ReadIsAtWrite, R
        <5>3. UnRead(c.bufs[l]) = c.bufs[l]
          <6>1. PICK b1 : b1 = c.bufs[l]
            OBVIOUS
          <6>2. Sound(b1, n) /\ ~AtFrame(b1)
            BY <3>2, <5>2, <6>1
          <6>3. b1.pos = Len(b1.infos)
            BY <6>2, SoundFields
          <6>4. UnRead(b1) = At(b1, Len(b1.infos)) /\ b1 = At(b1, b1.pos)
            BY <6>2, SoundMoves
          <6> QED
            BY ONLY <6>1, <6>3, <6>4
        <5>4. [c.bufs EXCEPT ![l] = c.bufs[l]] = c.bufs
          <6>1. PICK s : s = c.bufs
            OBVIOUS
          <6>2. s \in Seq(Buffers) /\ s = [i \in DOMAIN s |-> s[i]]
            BY <1>2, <6>1
          <6>3. [s EXCEPT ![l] = s[l]] = s
            BY ONLY <6>2
          <6> QED
            BY ONLY <6>1, <6>3
        <5> QED
          BY ONLY <3>5, <4>1, <5>3, <5>4
      <4>2. CASE k.r # k.w
        BY ONLY <3>5, <4>2
      <4> QED
        BY ONLY <4>1, <4>2
    <3>7. PICK r : r = IF k.r = k.w THEN k.r - 1 ELSE k.r
      OBVIOUS
    <3>8. r = c.r
      BY ONLY <2>3, <2>6, <3>1, <3>2, <3>3, <3>7 DEF ReadIsAtWrite
    <3>9. RemoveLast(k) = [k EXCEPT !.bufs = left, !.r = r, !.w = l]
      BY ONLY <2>6, <3>3, <3>4, <3>5, <3>7 DEF RemoveLast, Managers
    <3>10. PICK g : g = [[k EXCEPT !.bufs = left, !.r = r, !.w = l] EXCEPT !.locked = FALSE]
      OBVIOUS
    <3>11. CancelBufferSpace(k) = g
      BY ONLY <2>8, <3>3, <3>9, <3>10 DEF CancelBufferSpace
    <3>12. /\ g \in Managers /\ g.bufs = left /\ g.s = k.s /\ g.r = r /\ g.w = l
           /\ g.wid = k.wid
           /\ g.off = k.off /\ g.next = k.next /\ g.null = k.null /\ g.locked = FALSE
      <4>1. left \in Seq(Buffers) /\ r \in Nat
        BY ONLY <1>2, <3>2, <3>6, <3>8
      <4> QED
        BY ONLY <2>6, <3>2, <3>10, <4>1 DEF Managers
    <3>13. g = o
      <4>1. /\ g.bufs = o.bufs /\ g.s = o.s /\ g.r = o.r /\ g.w = o.w /\ g.wid = o.wid
            /\ g.off = o.off /\ g.next = o.next /\ g.locked = o.locked /\ g.null = o.null
        BY ONLY <2>3, <2>5, <2>6, <2>7, <3>2, <3>6, <3>8, <3>12 DEF SameCounts, NoBuffer
      <4>2. g \in Managers /\ o \in Managers
        BY ONLY <2>3, <2>5, <2>6, <2>7, <3>2, <3>6, <3>8, <3>12
      <4> QED
        BY ONLY <4>1, <4>2, SameFields
    <3> QED
      BY ONLY <1>1, <1>3, <3>11, <3>13
  <2> QED
    BY <2>9, <2>10 DEF SoundCis
<1> QED
  BY <1>1, <1>4, <1>5, NextBufferAttaches

-----------------------------------------------------------------------------
\* The manager d has the frames of c, which may be none.
Kept(c, n, d) ==
    /\ SoundCis(d, n) /\ FirstFrame(d) = FirstFrame(c) /\ d.wid = c.wid
    /\ SoundManager(c, n) => SoundManager(d, n)
    /\ Empty(c) => Empty(d)

\* A seek where no frame has been written does nothing.
LEMMA EmptySeek ==
    ASSUME NEW c, Empty(c)
    PROVE  DeviceSeek(c, 0) = c /\ NumberOfFrames(c) = c /\ GetBitsPtr(c) = c
           /\ AvailFrames(c) = <<>> /\ ~HasFrame(c) /\ \A f : AdjustStart(c, f) = c
<1>1. c.r = NoBuffer
  BY DEF Empty
<1>2. Seek(c, 0) = Moved(c, 0)
  BY ONLY <1>1 DEF Seek
<1>3. Moved(c, 0).burn = 0 /\ Moved(c, 0).cbm = c /\ ~(0 > 0)
  BY DEF Moved
<1>4. DeviceSeek(c, 0) = c
  BY ONLY <1>2, <1>3 DEF DeviceSeek, BurnFrames
<1> QED
  BY ONLY <1>1, <1>4 DEF NumberOfFrames, GetBitsPtr, AvailFrames, HasFrame, AdjustStart

\* The compressor's seek to the end of the sequence.
LEMMA SeekToEnd ==
    ASSUME NEW c, NEW n, SoundCis(c, n)
    PROVE  Kept(c, n, DeviceSeek(c, c.wid))
<1>1. CASE Empty(c)
  <2>1. c.wid = 0
    BY <1>1 DEF Empty
  <2>2. DeviceSeek(c, c.wid) = c
    BY <1>1, <2>1, EmptySeek
  <2> QED
    BY ONLY <1>1, <2>2, SoundCis(c, n) DEF Kept
<1>2. CASE SoundManager(c, n)
  <2>1. /\ c.wid \in Int /\ c.bufs[1].start <= c.wid /\ c.wid <= c.wid
    <3>1. c.wid \in Nat /\ c.bufs[1].start \in Nat /\ c.bufs[1].start < c.wid
      BY <1>2, ReadId
    <3> QED
      BY <3>1
  <2>2. PICK d : d = DeviceSeek(c, c.wid)
    OBVIOUS
  <2>3. Positioned(c, n, c.wid, d)
    BY <1>2, <2>1, <2>2, DeviceSeekReaches
  <2>4. SoundManager(d, n) /\ d.bufs[1].start = c.bufs[1].start /\ d.wid = c.wid
    BY <2>3 DEF Positioned
  <2>5. FirstFrame(c) = c.bufs[1].start /\ FirstFrame(d) = d.bufs[1].start /\ ~Empty(c)
    BY <1>2, <2>4, SoundFirst DEF Empty
  <2> QED
    BY ONLY <1>2, <2>2, <2>4, <2>5 DEF Kept, SoundCis
<1> QED
  BY <1>1, <1>2 DEF SoundCis

\* A compression, which may give its space back and seek first, adds the next frame.
LEMMA CompressedGrows ==
    ASSUME NEW c, NEW n \in Nat, SoundCis(c, n), NEW frame, frame = <<n, c.wid>>, NEW gaveBack
    PROVE  Grown(c, n, Compressed(c, frame, gaveBack))
<1>1. frame[2] = c.wid
  OBVIOUS
<1>2. CASE compressor = "next buffer"
  <2>1. PICK d : d = DeviceSeek(c, c.wid)
    OBVIOUS
  <2>2. SoundCis(d, n) /\ d.wid = c.wid /\ FirstFrame(d) = FirstFrame(c)
    BY <2>1, SeekToEnd DEF Kept
  <2>3. Grown(d, n, CompressedFrame(NextBuffer(d, Capacity), frame))
    BY <2>2, CompressedFrameGrows
  <2>4. Compressed(c, frame, gaveBack) = CompressedFrame(NextBuffer(d, Capacity), frame)
    BY ONLY <1>1, <1>2, <2>1 DEF Compressed
  <2> QED
    BY ONLY <2>2, <2>3, <2>4 DEF Grown
<1>3. CASE compressor # "next buffer"
  <2>1. PICK d : d = IF gaveBack THEN CancelBufferSpace(NextBufferSpace(c, Capacity)) ELSE c
    OBVIOUS
  <2>2. SoundCis(d, n) /\ d.wid = c.wid /\ FirstFrame(d) = FirstFrame(c)
    <3>1. CASE gaveBack
      <4>1. d = [c EXCEPT !.locked = FALSE]
        BY <2>1, <3>1, SpaceGivenBack
      <4> QED
        BY <4>1, LockSet
    <3>2. CASE ~gaveBack
      BY <2>1, <3>2
    <3> QED
      BY <3>1, <3>2
  <2>3. Grown(d, n, DoneBufferSpace(NextBufferSpace(d, Capacity), frame))
    BY <2>2, BufferSpaceGrows
  <2>4. Compressed(c, frame, gaveBack) = DoneBufferSpace(NextBufferSpace(d, Capacity), frame)
    BY ONLY <1>3, <2>1 DEF Compressed
  <2> QED
    BY ONLY <2>2, <2>3, <2>4 DEF Grown
<1> QED
  BY <1>2, <1>3

\* The pending compression is of the frame that comes next.
PendingIsNext(c) == compressOp # <<>> => compressOp[1] = <<resets, c.wid>>

\* Flushing it adds that frame, and drops none.
LEMMA SyncedSound ==
    ASSUME NEW c, SoundCis(c, resets), resets \in Nat, PendingIsNext(c), NEW gaveBack, NEW d,
           d = Synced(c, gaveBack)
    PROVE  /\ SoundCis(d, resets) /\ FirstFrame(d) = FirstFrame(c)
           /\ (SoundManager(c, resets) => SoundManager(d, resets))
           /\ (compressOp # <<>> => SoundManager(d, resets))
           /\ (compressOp = <<>> => d = c)
<1>1. CASE compressOp = <<>>
  BY <1>1 DEF Synced
<1>2. CASE compressOp # <<>>
  <2>1. d = Compressed(c, compressOp[1], gaveBack)
    BY <1>2 DEF Synced
  <2>2. Grown(c, resets, d)
    BY <1>2, <2>1, CompressedGrows DEF PendingIsNext
  <2> QED
    BY ONLY <1>2, <2>2 DEF Grown, SoundCis
<1> QED
  BY <1>1, <1>2

-----------------------------------------------------------------------------
\* The frames from the read position to the end of a buffer.
LEMMA SoundAvail ==
    ASSUME NEW b, NEW n, Sound(b, n), NEW f, f = RFrameId(b), NEW frames, frames = Avail(b)
    PROVE  /\ Len(frames) \in Nat /\ f + Len(frames) = EndOf(b)
           /\ DOMAIN frames = 1 .. Len(frames)
           /\ \A k \in 1 .. Len(frames) : frames[k] = <<n, f + k - 1>>
           /\ frames = <<>> <=> ~(b.pos < Len(b.infos))
<1>1. PICK N, p, base, start, num : /\ N = Len(b.infos) /\ p = b.pos /\ base = b.base
                                    /\ start = b.start /\ num = b.num
  OBVIOUS
<1>2. /\ N \in Nat /\ p \in 0 .. N /\ base \in Nat /\ start \in Nat /\ num \in Nat
      /\ f \in Int /\ f = Border(b, p) /\ Border(b, N) = start + num /\ EndOf(b) = start + num
      /\ start <= f /\ f <= start + num /\ b.mem \in Seq(FrameIds)
      /\ Len(b.mem) = base + num
      /\ f < start + num <=> p < N
      /\ Valid(b, p) <=> p < N
  BY <1>1, SoundFields DEF EndOf
<1>3. \A k \in base + 1 .. base + num : b.mem[k] = <<n, start + (k - 1 - base)>>
  BY <1>1, <1>2 DEF Sound
<1>4. CASE p < N
  <2>1. PICK m : m = N - p
    OBVIOUS
  <2>2. m \in Nat /\ m # 0 /\ p + m = N
    BY ONLY <1>2, <1>4, <2>1
  <2>3. PICK g : Summing(b, m, g) /\ NumAvail(b, m) = g[m]
    BY ONLY <2>2, SumSteps
  <2> DEFINE T == {k \in 0 .. m : g[k] # Border(b, p + k) - f}
  <2>4. T = {}
    <3>1. SUFFICES ASSUME T # {} PROVE FALSE
      OBVIOUS
    <3>2. PICK k \in T : \A j \in T : k <= j
      <4>1. T \subseteq Nat
        OBVIOUS
      <4> HIDE DEF T
      <4> QED
        BY <3>1, <4>1, LeastNat
    <3>3. k # 0
      <4>1. g[0] = 0 /\ Border(b, p + 0) - f = 0
        BY <1>2, <2>3 DEF Summing
      <4>2. 0 \notin T
        BY ONLY <4>1
      <4> QED
        BY <3>2, <4>2
    <3>4. k \in 1 .. m /\ k - 1 \in 0 .. m /\ k - 1 \notin T /\ p + k - 1 \in 0 .. N - 1
      BY <1>2, <2>2, <3>2, <3>3
    <3>5. g[k - 1] = Border(b, p + (k - 1)) - f
      BY <3>4
    <3>6. PICK q : q = p + k - 1
      OBVIOUS
    <3>7. q \in 0 .. N - 1 /\ p + (k - 1) = q /\ p + k = q + 1
      BY <1>2, <3>4, <3>6
    <3>8. Retrieve(b, q).num = Border(b, q + 1) - Border(b, q) /\ Border(b, q) \in Int
          /\ Border(b, q + 1) \in Int
      BY ONLY <1>1, <3>7, SoundFields, Sound(b, n)
    <3>9. g[k] = g[k - 1] + Retrieve(b, q).num
      BY ONLY <1>1, <2>3, <3>4, <3>6 DEF Summing
    <3>10. g[k] = Border(b, p + k) - f
      <4>1. PICK u, v : u = Border(b, q) /\ v = Border(b, q + 1)
        OBVIOUS
      <4>2. g[k - 1] = u - f /\ Retrieve(b, q).num = v - u /\ u \in Int /\ v \in Int /\ f \in Int
        BY ONLY <1>2, <3>5, <3>7, <3>8, <4>1
      <4>3. g[k] = (u - f) + (v - u)
        BY ONLY <3>9, <4>2
      <4>4. (u - f) + (v - u) = v - f
        BY ONLY <4>2
      <4> QED
        BY ONLY <3>7, <4>1, <4>3, <4>4
    <3> QED
      BY <3>2, <3>10
  <2>5. g[m] = start + num - f
    <3>1. m \in 0 .. m
      BY ONLY <2>2
    <3>2. g[m] = Border(b, p + m) - f
      BY <2>4, <3>1
    <3>3. PICK q : q = p + m
      OBVIOUS
    <3>4. q = N
      BY ONLY <2>2, <3>3
    <3>5. g[m] = Border(b, q) - f
      BY ONLY <3>2, <3>3
    <3>6. Border(b, q) = start + num
      BY ONLY <1>2, <3>4
    <3>7. f \in Int /\ start \in Int /\ num \in Int
      BY ONLY <1>2
    <3> QED
      BY ONLY <3>5, <3>6, <3>7
  <2>6. PICK at, total : at = Retrieve(b, p).at /\ total = NumAvail(b, m)
    OBVIOUS
  <2>7. at = f + base - start /\ total = start + num - f
    <3>1. p \in 0 .. N - 1
      BY ONLY <1>2, <1>4
    <3>2. Retrieve(b, p).at = Border(b, p) + b.base - b.start
      BY ONLY <1>1, <3>1, SoundFields, Sound(b, n)
    <3> QED
      BY ONLY <1>1, <1>2, <2>3, <2>5, <2>6, <3>2
  <2>8. frames = SubSeq(b.mem, at + 1, at + total)
    <3>1. p # NoPosition /\ Valid(b, p)
      BY ONLY <1>2, <1>4 DEF NoPosition
    <3>2. NumAvail(b, End(b) - b.pos) = total
      BY ONLY <1>1, <2>1, <2>6 DEF End
    <3> QED
      BY ONLY <1>1, <2>6, <3>1, <3>2, frames = Avail(b) DEF Avail
  <2>9. PICK x, y, s : x = at + 1 /\ y = at + total /\ s = b.mem
    OBVIOUS
  <2>17. f < start + num /\ f \in Int /\ start \in Nat /\ num \in Nat /\ base \in Nat /\ start <= f
    BY ONLY <1>2, <1>4
  <2>18. x = f + base - start + 1 /\ y = f + base - start + (start + num - f)
    BY ONLY <2>7, <2>9
  <2>10. x \in base + 1 .. base + num /\ y = base + num /\ x \in Int /\ y \in Int /\ x <= y
         /\ y - x + 1 = start + num - f /\ x - 1 - base + start = f
    BY ONLY <2>17, <2>18
  <2>11. \A k \in x .. y : s[k] \in FrameIds
    <3>1. \A k \in x .. y : k \in 1 .. Len(s)
      <4>1. Len(s) = base + num /\ base \in Nat
        BY ONLY <1>2, <2>9
      <4> QED
        BY ONLY <2>10, <2>17, <4>1
    <3> QED
      BY ONLY <1>2, <2>9, <3>1, ElementOfSeq
  <2>12. /\ frames \in Seq(FrameIds) /\ Len(frames) = start + num - f
         /\ \A i \in 1 .. start + num - f : frames[i] = s[x + i - 1]
    BY ONLY <2>8, <2>9, <2>10, <2>11, SubSeqProperties
  <2>13. ASSUME NEW k \in 1 .. Len(frames) PROVE frames[k] = <<n, f + k - 1>>
    <3>1. x + k - 1 \in base + 1 .. base + num /\ start + ((x + k - 1) - 1 - base) = f + k - 1
      BY ONLY <1>2, <2>10, <2>12, k \in 1 .. Len(frames)
    <3>2. frames[k] = s[x + k - 1]
      BY ONLY <2>12, k \in 1 .. Len(frames)
    <3> QED
      BY ONLY <1>3, <2>9, <3>1, <3>2
  <2>14. DOMAIN frames = 1 .. Len(frames)
    BY ONLY <2>12, LenProperties
  <2>15. f + Len(frames) = EndOf(b) /\ Len(frames) \in Nat /\ Len(frames) # 0
    <3>1. EndOf(b) = start + num
      BY ONLY <1>2
    <3> QED
      BY ONLY <2>12, <2>17, <3>1
  <2>16. frames # <<>>
    BY ONLY <2>15
  <2> QED
    BY ONLY <1>1, <1>4, <2>13, <2>14, <2>15, <2>16
<1>5. CASE ~(p < N)
  <2>1. frames = <<>>
    BY ONLY <1>1, <1>2, <1>5, frames = Avail(b) DEF Avail
  <2>2. Len(frames) = 0 /\ DOMAIN frames = {} /\ 1 .. 0 = {}
    BY ONLY <2>1
  <2>3. f = EndOf(b)
    BY ONLY <1>2, <1>5
  <2> QED
    BY ONLY <1>1, <1>2, <1>5, <2>1, <2>2, <2>3
<1> QED
  BY ONLY <1>4, <1>5

\* getBitsPtr() hands out the frames from the read frame on.
LEMMA GetBitsPtrReads ==
    ASSUME NEW c, NEW n, SoundManager(c, n), NEW f, f = RFrameId(R(c)), NEW frames,
           frames = AvailFrames(c), NEW d, d = GetBitsPtr(c)
    PROVE  /\ SoundManager(d, n) /\ d.bufs[1].start = c.bufs[1].start /\ d.wid = c.wid
           /\ Len(frames) \in Nat /\ f + Len(frames) <= c.wid
           /\ \A k \in DOMAIN frames : frames[k] = <<n, f + k - 1>>
<1>1. Chain(c, n) /\ NextKnown(c)
  BY DEF SoundManager
<1>2. /\ c.r \in 1 .. Len(c.bufs) /\ Len(c.bufs) \in Nat /\ R(c) = c.bufs[c.r] /\ Sound(R(c), n)
      /\ c \in Managers /\ c.r # NoBuffer /\ Manager(c) /\ c.null = FALSE
      /\ EndOf(R(c)) <= c.wid
      /\ \A i \in 1 .. Len(c.bufs) : Sound(c.bufs[i], n)
  BY <1>1, Edges, ManagerFields DEF Chain
<1>3. PICK o, i : o = R(c) /\ i = c.r
  OBVIOUS
<1>4. frames = Avail(o)
  BY <1>2, <1>3 DEF AvailFrames
<1>5. /\ Len(frames) \in Nat /\ f + Len(frames) = EndOf(o)
      /\ DOMAIN frames = 1 .. Len(frames)
      /\ \A k \in 1 .. Len(frames) : frames[k] = <<n, f + k - 1>>
      /\ frames = <<>> <=> ~(o.pos < Len(o.infos))
  BY ONLY <1>2, <1>3, <1>4, f = RFrameId(R(c)), SoundAvail
<1>6. PICK b : b = IF frames = <<>> THEN o ELSE UnRead(o)
  OBVIOUS
<1>7. Sound(b, n) /\ SameFrames(o, b) /\ ~(b.pos < Len(b.infos))
  <2>1. CASE frames = <<>>
    BY ONLY <1>2, <1>3, <1>5, <1>6, <2>1 DEF SameFrames
  <2>2. CASE frames # <<>>
    <3>1. b = At(o, Len(o.infos)) /\ Len(o.infos) \in 0 .. Len(o.infos) /\ Len(o.infos) \in Nat
      BY <1>2, <1>3, <1>6, <2>2, SoundMoves, SoundFields
    <3>2. Sound(b, n) /\ SameFrames(o, b) /\ b.pos = Len(o.infos)
      BY ONLY <1>2, <1>3, <3>1, SoundAt
    <3> QED
      BY ONLY <3>1, <3>2 DEF SameFrames
  <2> QED
    BY ONLY <2>1, <2>2
<1>8. PICK e : e = [c EXCEPT !.bufs[i] = b]
  OBVIOUS
<1>9. /\ Manager(e) /\ e.wid = c.wid /\ e.locked = c.locked
      /\ e.s = c.s /\ e.w = c.w /\ e.r = c.r /\ e.off = c.off /\ e.next = c.next
      /\ e.null = c.null /\ Len(e.bufs) = Len(c.bufs)
      /\ \A j \in 1 .. Len(c.bufs) : e.bufs[j] = IF j = i THEN b ELSE c.bufs[j]
  <2>1. b \in Buffers /\ i \in 1 .. Len(c.bufs)
    BY ONLY <1>2, <1>3, <1>7 DEF Sound
  <2> QED
    BY ONLY <1>2, <1>8, <2>1, OneBuffer DEF SameCounts
<1>10. Alike(c, e) /\ \A j \in 1 .. Len(e.bufs) : Sound(e.bufs[j], n)
  <2>1. ASSUME NEW j \in 1 .. Len(c.bufs)
        PROVE  SameFrames(c.bufs[j], e.bufs[j]) /\ Sound(e.bufs[j], n)
    BY ONLY <1>2, <1>3, <1>7, <1>9, j \in 1 .. Len(c.bufs) DEF SameFrames
  <2> QED
    BY ONLY <1>9, <2>1 DEF Alike
<1>11. Chain(e, n) /\ NextKnown(e) /\ e.bufs[1].start = c.bufs[1].start
  <2>1. e.r # NoBuffer /\ e.null = FALSE
    BY ONLY <1>2, <1>9
  <2> QED
    BY ONLY <1>1, <1>9, <1>10, <2>1, AlikeChain
<1>12. R(e) = b
  BY ONLY <1>2, <1>3, <1>9 DEF R
<1>13. d = ToNextBuffer(e)
  <2>1. [c EXCEPT !.bufs[c.r] = IF Avail(@) = <<>> THEN @ ELSE UnRead(@)] = e
    BY ONLY <1>2, <1>3, <1>4, <1>6, <1>8
  <2> QED
    BY ONLY <1>2, <2>1, d = GetBitsPtr(c) DEF GetBitsPtr
<1>14. Chain(d, n) /\ ReadKept(d) /\ NextKnown(d) /\ Alike(e, d)
  <2>1. ~(R(e).pos < Len(R(e).infos))
    BY ONLY <1>7, <1>12
  <2> QED
    BY ONLY <1>11, <1>13, <2>1, ToNextBufferSound
<1>15. d.bufs[1].start = c.bufs[1].start /\ d.wid = c.wid
  <2>1. d.bufs[1].start = e.bufs[1].start /\ d.wid = e.wid
    BY ONLY <1>11, <1>14, SameStart
  <2> QED
    BY ONLY <1>9, <1>11, <2>1
<1> QED
  BY ONLY <1>2, <1>3, <1>5, <1>14, <1>15 DEF SoundManager

\* numberOfFrames() comes back to the read frame.
LEMMA NumberOfFramesReads ==
    ASSUME NEW c, NEW n, SoundManager(c, n), NEW d, d = NumberOfFrames(c)
    PROVE  SoundManager(d, n) /\ d.bufs[1].start = c.bufs[1].start /\ d.wid = c.wid
<1>1. Chain(c, n) /\ NextKnown(c)
  BY DEF SoundManager
<1>2. /\ Len(c.bufs) \in Nat /\ Manager(c) /\ c.null = FALSE /\ c.r # NoBuffer
      /\ c.w = Len(c.bufs)
      /\ \A i \in 1 .. Len(c.bufs) : Sound(c.bufs[i], n)
  BY <1>1, Edges DEF Chain
<1>3. PICK e, f : e = ReadLastBuffer(c) /\ f = RFrameId(R(c))
  OBVIOUS
<1>4. /\ Manager(e) /\ e.wid = c.wid /\ e.locked = c.locked /\ e.r = c.w /\ e.s = c.s
      /\ e.w = c.w /\ e.off = c.off
      /\ e.next = c.next /\ e.null = c.null /\ Len(e.bufs) = Len(c.bufs)
      /\ \A i \in 1 .. Len(c.bufs) :
            e.bufs[i] = IF i \in c.r + 1 .. c.w THEN ReRead(c.bufs[i]) ELSE c.bufs[i]
  BY ONLY <1>2, <1>3, ReadLastBufferType DEF KeptType, SameCounts
<1>5. ASSUME NEW i \in 1 .. Len(c.bufs)
      PROVE  SameFrames(c.bufs[i], e.bufs[i]) /\ Sound(e.bufs[i], n)
  <2>1. PICK b, g : b = c.bufs[i] /\ g = e.bufs[i]
    OBVIOUS
  <2>2. Sound(b, n)
    BY <1>2, <2>1
  <2>3. g = b \/ g = ReRead(b)
    BY ONLY <1>4, <2>1, i \in 1 .. Len(c.bufs)
  <2>4. ReRead(b) = At(b, 0) /\ 0 \in 0 .. Len(b.infos)
    BY <2>2, SoundMoves, SoundFields
  <2>5. g = b => SameFrames(b, g) /\ Sound(g, n)
    BY ONLY <2>2 DEF SameFrames
  <2>6. g = At(b, 0) => SameFrames(b, g) /\ Sound(g, n)
    BY ONLY <2>2, <2>4, SoundAt
  <2> QED
    BY ONLY <2>1, <2>3, <2>4, <2>5, <2>6
<1>6. Alike(c, e)
  BY ONLY <1>4, <1>5 DEF Alike
<1>7. Chain(e, n) /\ NextKnown(e) /\ e.bufs[1].start = c.bufs[1].start
  <2>1. e.r # NoBuffer /\ e.null = FALSE /\ \A i \in 1 .. Len(e.bufs) : Sound(e.bufs[i], n)
    BY <1>2, <1>4, <1>5, ManagerFields
  <2> QED
    BY ONLY <1>1, <1>4, <1>6, <2>1, AlikeChain
<1>8. SoundManager(e, n)
  <2>1. ReadKept(e)
    BY ONLY <1>2, <1>4 DEF ReadKept
  <2> QED
    BY ONLY <1>7, <2>1 DEF SoundManager
<1>9. f \in Int /\ e.bufs[1].start <= f /\ f <= e.wid
  BY ONLY <1>3, <1>4, <1>7, SoundManager(c, n), ReadId
<1>10. Reached(e, n, f, Seek(e, f))
  BY ONLY <1>8, <1>9, SeekReaches
<1>11. d = Seek(e, f).cbm
  BY ONLY <1>2, <1>3, d = NumberOfFrames(c) DEF NumberOfFrames
<1>12. SoundManager(d, n) /\ Alike(e, d)
  BY ONLY <1>10, <1>11 DEF Reached
<1>13. d.bufs[1].start = e.bufs[1].start /\ d.wid = e.wid
  BY ONLY <1>7, <1>12, SameStart
<1> QED
  BY ONLY <1>4, <1>7, <1>12, <1>13

-----------------------------------------------------------------------------
\* The buffer d is b from the read position on.
StartedAt(b, n, d) ==
    /\ Sound(d, n) /\ d.start = RFrameId(b) /\ EndOf(d) = EndOf(b) /\ d.pos = 0
    /\ Len(d.infos) = Len(b.infos) - b.pos
    /\ \A q \in 0 .. Len(d.infos) : Border(d, q) = Border(b, q + b.pos)

\* adjustStart() of a buffer drops what is before the read position.
LEMMA StartAtInfoSound ==
    ASSUME NEW b, NEW n, Sound(b, n), b.pos < Len(b.infos), NEW d, d = StartAtInfo(b)
    PROVE  StartedAt(b, n, d)
<1>1. PICK N, p, base, start, num, f : /\ N = Len(b.infos) /\ p = b.pos /\ base = b.base
                                       /\ start = b.start /\ num = b.num /\ f = Border(b, p)
  OBVIOUS
<1>2. /\ b \in Buffers /\ N \in Nat /\ p \in 0 .. N /\ p < N /\ base \in Nat /\ start \in Nat
      /\ num \in Nat /\ f \in Int /\ f = RFrameId(b) /\ start <= f /\ f <= start + num
      /\ b.ptr = base + (f - start) /\ Len(b.mem) = base + num /\ Valid(b, p)
      /\ Retrieve(b, p).id = f /\ Retrieve(b, p).at = f + base - start
      /\ Border(b, N) = start + num
  <2>1. /\ b \in Buffers /\ N \in Nat /\ p \in 0 .. N /\ base \in Nat /\ start \in Nat
        /\ num \in Nat /\ f \in Int /\ f = RFrameId(b) /\ start <= f /\ f <= start + num
        /\ b.ptr = base + (f - start) /\ Len(b.mem) = base + num
        /\ Border(b, N) = start + num /\ (Valid(b, p) <=> p < N)
    BY <1>1, SoundFields
  <2>2. p \in 0 .. N - 1 /\ p < N
    BY ONLY <1>1, <2>1, b.pos < Len(b.infos)
  <2>3. Retrieve(b, p).id = Border(b, p) /\ Retrieve(b, p).at = Border(b, p) + b.base - b.start
    BY ONLY <1>1, <2>2, Sound(b, n), SoundFields
  <2> QED
    BY ONLY <1>1, <2>1, <2>2, <2>3
<1>3. /\ d \in Buffers /\ d.mem = b.mem /\ d.base = f + base - start /\ d.start = f
      /\ d.num = num - (f - start) /\ d.ptr = base + (f - start) /\ d.pos = 0
      /\ Len(d.infos) = N - p
      /\ \A k \in 1 .. N - p : d.infos[k] = b.infos[k + p]
  <2>1. /\ d \in Buffers
        /\ d.mem = b.mem /\ d.base = Retrieve(b, p).at /\ d.start = Retrieve(b, p).id
        /\ d.num = b.num - (Retrieve(b, p).id - b.start) /\ d.ptr = b.ptr /\ d.pos = 0
        /\ Len(d.infos) = Len(b.infos) - b.pos
        /\ \A k \in 1 .. Len(b.infos) - b.pos : d.infos[k] = b.infos[k + b.pos]
    BY ONLY <1>1, <1>2, d = StartAtInfo(b), StartAtInfoType
  <2> QED
    BY ONLY <1>1, <1>2, <2>1
<1>4. d.start + d.num = start + num
  BY ONLY <1>2, <1>3
<1>5. ASSUME NEW q \in 0 .. N - p PROVE Border(d, q) = Border(b, q + p)
  <2>1. CASE q < N - p
    <3>1. q + 1 \in 1 .. N - p /\ q + p < N /\ (q + 1) + p = (q + p) + 1
      BY ONLY <1>2, <2>1, q \in 0 .. N - p
    <3>2. d.infos[q + 1] = b.infos[(q + p) + 1]
      BY ONLY <1>3, <3>1
    <3> QED
      BY ONLY <1>1, <1>3, <2>1, <3>1, <3>2 DEF Border
  <2>2. CASE ~(q < N - p)
    <3>1. q + p = N
      BY ONLY <1>2, <2>2, q \in 0 .. N - p
    <3>2. Border(b, q + p) = start + num
      BY ONLY <1>2, <3>1
    <3>3. Border(d, q) = d.start + d.num
      BY ONLY <1>3, <2>2 DEF Border
    <3> QED
      BY ONLY <1>4, <3>2, <3>3
  <2> QED
    BY ONLY <2>1, <2>2
<1>6. ASSUME NEW q \in 0 .. Len(d.infos) - 1 PROVE SoundInfo(d, q)
  <2>1. PICK j : j = q + p
    OBVIOUS
  <2>2. /\ j \in 0 .. N - 1 /\ q \in 0 .. N - p /\ q + 1 \in 0 .. N - p /\ q + 1 \in 1 .. N - p
        /\ (q + 1) + p = j + 1
    BY ONLY <1>2, <1>3, <2>1, q \in 0 .. Len(d.infos) - 1
  <2>3. d.infos[q + 1] = b.infos[j + 1]
    BY ONLY <1>3, <2>2
  <2>4. Border(d, q) = Border(b, j) /\ Border(d, q + 1) = Border(b, j + 1)
    BY ONLY <1>5, <2>1, <2>2
  <2>5. SoundInfo(b, j)
    BY ONLY <1>1, <2>2, Sound(b, n) DEF Sound
  <2>6. Border(b, j) \in Int
    BY ONLY <1>1, <2>2, Sound(b, n), SoundFields
  <2>7. Border(b, j) + b.base - b.start = Border(b, j) + d.base - d.start
    BY ONLY <1>1, <1>2, <1>3, <2>6
  <2> QED
    BY ONLY <2>3, <2>4, <2>5, <2>7 DEF SoundInfo
<1>7. ASSUME NEW k \in d.base + 1 .. Len(d.mem)
      PROVE  d.mem[k] = <<n, d.start + (k - 1 - d.base)>>
  <2>1. k \in b.base + 1 .. Len(b.mem) /\ d.start + (k - 1 - d.base) = b.start + (k - 1 - b.base)
    <3>1. k \in (f + base - start) + 1 .. base + num
      BY ONLY <1>2, <1>3, k \in d.base + 1 .. Len(d.mem)
    <3>2. /\ k \in base + 1 .. base + num
          /\ f + (k - 1 - (f + base - start)) = start + (k - 1 - base)
      <4>1. f \in Int /\ base \in Nat /\ start \in Nat /\ num \in Nat /\ start <= f
        BY ONLY <1>2
      <4> QED
        BY ONLY <3>1, <4>1
    <3> QED
      BY ONLY <1>1, <1>2, <1>3, <3>2
  <2>2. b.mem[k] = <<n, b.start + (k - 1 - b.base)>>
    BY ONLY <2>1, Sound(b, n) DEF Sound
  <2> QED
    BY ONLY <1>3, <2>1, <2>2
<1>8. Border(d, 0) = d.start
  <2>1. 0 \in 0 .. N - p /\ 0 + p = p
    BY ONLY <1>2
  <2>2. Border(d, 0) = Border(b, p)
    BY ONLY <1>5, <2>1
  <2> QED
    BY ONLY <1>1, <1>3, <2>2
<1>9. Sound(d, n)
  <2>1. Len(d.infos) > 0 /\ d.start >= 0 /\ d.base >= 0 /\ Len(d.mem) = d.base + d.num
        /\ d.ptr = d.base + (d.start - d.start) /\ d.pos = 0
    BY ONLY <1>2, <1>3
  <2> QED
    BY ONLY <1>3, <1>6, <1>7, <1>8, <2>1 DEF Sound, NoPosition
<1> QED
  <2>1. EndOf(d) = EndOf(b)
    BY ONLY <1>1, <1>4 DEF EndOf
  <2> QED
    BY ONLY <1>1, <1>2, <1>3, <1>5, <1>9, <2>1 DEF StartedAt

\* The manager d is c from its read position on.
Shortened(c, n, d) ==
    /\ Chain(d, n) /\ ReadKept(d) /\ d.bufs[1].start = RFrameId(R(c)) /\ d.wid = c.wid
    /\ \A f : NotInside(c, f) => NotInside(d, f)

\* The buffers before the read buffer, and the frames before its read position, are dropped.
LEMMA StartAdjustedSound ==
    ASSUME NEW c, NEW n, Chain(c, n), R(c).pos < Len(R(c).infos), NEW offset \in Int,
           NEW d, d = StartAdjusted(DropBefore(c), offset)
    PROVE  Shortened(c, n, d)
<1>1. PICK L, r, b : L = Len(c.bufs) /\ r = c.r /\ b = R(c)
  OBVIOUS
<1>2. /\ L \in Nat /\ r \in 1 .. L /\ b = c.bufs[r] /\ Manager(c) /\ c.r # NoBuffer
      /\ c.null = FALSE /\ Sound(b, n) /\ b.pos < Len(b.infos) /\ L \in 1 .. L
      /\ \A i \in 1 .. L : Sound(c.bufs[i], n)
      /\ \A i \in 1 .. L - 1 : EndOf(c.bufs[i]) = c.bufs[i + 1].start
      /\ EndOf(c.bufs[L]) = c.wid
  BY <1>1, Edges DEF Chain
<1>3. PICK e, m : e = DropBefore(c) /\ m = L - r + 1
  OBVIOUS
<1>4. /\ Manager(e) /\ e.wid = c.wid /\ e.r = 1 /\ e.null = c.null /\ Len(e.bufs) = m
      /\ \A i \in 1 .. m : e.bufs[i] = c.bufs[i + r - 1]
      /\ e.bufs[1] = b
  BY ONLY <1>1, <1>2, <1>3, DropBeforeType DEF KeptType, SameCounts
<1>5. Valid(b, b.pos) /\ HasInfo(b)
  <2>1. Valid(b, b.pos) /\ Len(b.infos) > 0
    BY ONLY <1>2, SoundFields
  <2> QED
    BY ONLY <2>1 DEF HasInfo, End
<1>6. PICK g : g = StartAtInfo(b)
  OBVIOUS
<1>7. StartedAt(b, n, g)
  BY ONLY <1>2, <1>6, StartAtInfoSound
<1>8. AdjustStartToRFrame(b) = g
  BY ONLY <1>5, <1>6 DEF AdjustStartToRFrame
<1>9. /\ Manager(d) /\ d.wid = c.wid /\ d.r = 1 /\ d.null = FALSE /\ Len(d.bufs) = m
      /\ \A i \in 1 .. m : d.bufs[i] = IF i = 1 THEN g ELSE c.bufs[i + r - 1]
  <2>1. e.r # NoBuffer /\ HasInfo(e.bufs[1])
    BY ONLY <1>4, <1>5 DEF NoBuffer
  <2>2. /\ KeptType(e, d) /\ d.r = e.r /\ d.null = e.null
        /\ Len(d.bufs) = Len(e.bufs)
        /\ \A i \in 1 .. Len(e.bufs) :
              d.bufs[i] = IF i = 1 THEN AdjustStartToRFrame(e.bufs[1]) ELSE e.bufs[i]
    BY ONLY <1>3, <1>4, <2>1, offset \in Int, d = StartAdjusted(DropBefore(c), offset), StartAdjustedType
  <2> QED
    BY ONLY <1>2, <1>4, <1>8, <2>2 DEF KeptType, SameCounts
<1>10. m \in Nat /\ 1 \in 1 .. m /\ m \in 1 .. m /\ d.bufs[1] = g
       /\ \A i \in 1 .. m : i + r - 1 \in 1 .. L /\ (i # 1 => d.bufs[i] = c.bufs[i + r - 1])
  <2>1. m \in Nat /\ 1 \in 1 .. m /\ m \in 1 .. m /\ \A i \in 1 .. m : i + r - 1 \in 1 .. L
    BY ONLY <1>2, <1>3
  <2> QED
    BY ONLY <1>9, <2>1
<1>11. ASSUME NEW i \in 1 .. m
       PROVE  Sound(d.bufs[i], n) /\ EndOf(d.bufs[i]) = EndOf(c.bufs[i + r - 1])
  <2>1. CASE i = 1
    <3>1. i + r - 1 = r
      BY ONLY <1>2, <2>1
    <3> QED
      BY ONLY <1>2, <1>7, <1>10, <2>1, <3>1 DEF StartedAt
  <2>2. CASE i # 1
    BY ONLY <1>2, <1>10, <2>2, i \in 1 .. m
  <2> QED
    BY ONLY <2>1, <2>2
<1>12. ASSUME NEW i \in 1 .. m - 1 PROVE EndOf(d.bufs[i]) = d.bufs[i + 1].start
  <2>1. PICK j : j = i + r - 1
    OBVIOUS
  <2>2. j \in 1 .. L - 1 /\ i \in 1 .. m /\ i + 1 \in 1 .. m /\ i + 1 # 1 /\ (i + 1) + r - 1 = j + 1
    BY ONLY <1>2, <1>3, <2>1, i \in 1 .. m - 1
  <2>3. d.bufs[i + 1] = c.bufs[j + 1]
    BY ONLY <1>10, <2>2
  <2>4. EndOf(d.bufs[i]) = EndOf(c.bufs[j])
    BY ONLY <1>11, <2>1, <2>2
  <2> QED
    BY ONLY <1>2, <2>2, <2>3, <2>4
<1>13. EndOf(d.bufs[m]) = c.wid
  <2>1. m + r - 1 = L
    BY ONLY <1>2, <1>3
  <2>2. EndOf(d.bufs[m]) = EndOf(c.bufs[m + r - 1])
    BY ONLY <1>10, <1>11
  <2> QED
    BY ONLY <1>2, <2>1, <2>2
<1>14. Chain(d, n)
  <2>1. d.r # NoBuffer
    BY ONLY <1>9 DEF NoBuffer
  <2> QED
    BY ONLY <1>9, <1>11, <1>12, <1>13, <2>1 DEF Chain
<1>15. ReadKept(d)
  <2>1. g.pos = 0 /\ Len(g.infos) > 0
    BY ONLY <1>7, SoundFields DEF StartedAt
  <2> QED
    BY ONLY <1>9, <1>10, <2>1 DEF ReadKept
<1>16. ASSUME NEW f, NotInside(c, f) PROVE NotInside(d, f)
  <2>1. SUFFICES ASSUME NEW i \in 1 .. Len(d.bufs), NEW p \in 0 .. Len(d.bufs[i].infos) - 1
                 PROVE  ~(Border(d.bufs[i], p) < f /\ f < Border(d.bufs[i], p + 1))
    BY DEF NotInside
  <2>2. i \in 1 .. m
    BY ONLY <1>9, i \in 1 .. Len(d.bufs)
  <2>3. CASE i = 1
    <3>1. d.bufs[i] = g
      BY ONLY <1>10, <2>3
    <3>2. PICK q, N : q = b.pos /\ N = Len(b.infos)
      OBVIOUS
    <3>3. q \in 0 .. N /\ N \in Nat /\ Len(g.infos) = N - q
      BY ONLY <1>2, <1>7, <3>2, SoundFields DEF StartedAt
    <3>4. p + q \in 0 .. N - 1 /\ p \in 0 .. Len(g.infos) /\ p + 1 \in 0 .. Len(g.infos)
          /\ (p + 1) + q = (p + q) + 1
      BY ONLY <3>1, <3>3, p \in 0 .. Len(d.bufs[i].infos) - 1
    <3>5. Border(g, p) = Border(b, p + q) /\ Border(g, p + 1) = Border(b, (p + q) + 1)
      BY ONLY <1>7, <3>2, <3>4 DEF StartedAt
    <3>6. ~(Border(b, p + q) < f /\ f < Border(b, (p + q) + 1))
      BY ONLY <1>1, <1>2, <3>2, <3>4, NotInside(c, f) DEF NotInside
    <3> QED
      BY ONLY <3>1, <3>5, <3>6
  <2>4. CASE i # 1
    <3>1. PICK j : j = i + r - 1
      OBVIOUS
    <3>2. j \in 1 .. Len(c.bufs) /\ d.bufs[i] = c.bufs[j]
      BY ONLY <1>1, <1>10, <2>2, <2>4, <3>1
    <3> QED
      BY ONLY <3>2, p \in 0 .. Len(d.bufs[i].infos) - 1, NotInside(c, f) DEF NotInside
  <2> QED
    BY ONLY <2>3, <2>4
<1> QED
  BY ONLY <1>1, <1>7, <1>9, <1>10, <1>14, <1>15, <1>16 DEF Shortened, StartedAt

-----------------------------------------------------------------------------
\* The start of the manager moved up to a frame before f, or to f itself.
StartedBy(c, n, f, d) ==
    SoundManager(d, n) /\ d.bufs[1].start \in Nat /\ d.bufs[1].start <= f /\ d.wid = c.wid

\* adjustStart() never drops a frame from the new start on.
LEMMA AdjustStartSound ==
    ASSUME NEW c, NEW n, SoundManager(c, n), NEW f \in Int, c.bufs[1].start <= f, f < c.wid
    PROVE  StartedBy(c, n, f, AdjustStart(c, f))
<1>1. PICK first, id : first = c.bufs[1].start /\ id = RFrameId(R(c))
  OBVIOUS
<1>2. Chain(c, n) /\ ReadKept(c) /\ NotInside(c, c.next) /\ c.next <= c.wid
  BY DEF SoundManager, NextKnown
<1>3. /\ S(c) = c.bufs[1] /\ first \in Nat /\ c.wid \in Nat /\ c.next \in Int /\ c.r # NoBuffer
      /\ id \in Int /\ id <= c.wid /\ first <= c.wid
  <2>1. S(c) = c.bufs[1] /\ c.next \in Int /\ c.r # NoBuffer
    BY <1>2, Edges DEF Chain
  <2>2. /\ RFrameId(R(c)) \in Int /\ RFrameId(R(c)) <= c.wid /\ c.bufs[1].start \in Nat
        /\ c.wid \in Nat /\ c.bufs[1].start < c.wid
    BY ReadId
  <2> QED
    BY ONLY <1>1, <2>1, <2>2
<1>4. NotInside(c, first)
  <2>1. 1 \in 1 .. Len(c.bufs) /\ Sound(c.bufs[1], n)
    BY <1>2, Edges
  <2>2. Border(c.bufs[1], 0) = first /\ 0 \in 0 .. Len(c.bufs[1].infos)
    BY <1>1, <2>1, SoundFields
  <2>3. NotInside(c, Border(c.bufs[1], 0))
    BY ONLY <1>2, <2>1, <2>2, BorderInside
  <2> QED
    BY ONLY <2>2, <2>3
<1>5. PICK a : a = [c EXCEPT !.next = first]
  OBVIOUS
<1>6. SoundManager(a, n) /\ SameList(c, a)
  BY ONLY <1>1, <1>2, <1>3, <1>4, <1>5, NextSet
<1>7. PICK x : x = Seek(a, f)
  OBVIOUS
<1>8. Reached(a, n, f, x)
  <2>1. a.bufs[1].start <= f /\ f <= a.wid
    BY ONLY <1>1, <1>3, <1>6, f \in Int, c.bufs[1].start <= f, f < c.wid DEF SameList
  <2> QED
    BY ONLY <1>6, <1>7, <2>1, f \in Int, SeekReaches
<1>9. PICK d, off : d = x.cbm /\ off = x.burn
  OBVIOUS
<1>10. SoundManager(d, n) /\ Alike(a, d) /\ off = f - RFrameId(R(d)) /\ off >= 0
  BY ONLY <1>8, <1>9 DEF Reached
<1>11. PICK s : s = RFrameId(R(d))
  OBVIOUS
<1>12. d.wid = c.wid /\ s \in Nat /\ s <= f /\ s < d.wid /\ off \in Int /\ ~(off < 0)
  <2>1. d.wid = c.wid
    BY ONLY <1>6, <1>10 DEF Alike, SameList
  <2>2. s \in Int /\ d.bufs[1].start <= s /\ d.bufs[1].start \in Nat
    BY ONLY <1>10, <1>11, ReadId
  <2> QED
    BY ONLY <1>3, <1>10, <1>11, <2>1, <2>2, f \in Int, f < c.wid
<1>13. R(d).pos < Len(R(d).infos) /\ Chain(d, n)
  BY ONLY <1>10, <1>11, <1>12, AtWrite DEF SoundManager
<1>14. HasInfo(R(d))
  <2>1. Sound(R(d), n)
    BY ONLY <1>13, Edges
  <2> QED
    BY ONLY <2>1, SoundFields DEF HasInfo, End
<1>15. PICK g : g = StartAdjusted(DropBefore(d), off)
  OBVIOUS
<1>16. Shortened(d, n, g)
  BY ONLY <1>12, <1>13, <1>15, StartAdjustedSound
<1>17. /\ Chain(g, n) /\ ReadKept(g) /\ g.bufs[1].start = s /\ g.wid = c.wid /\ S(g) = g.bufs[1]
       /\ NotInside(g, c.next)
  <2>1. NotInside(d, c.next)
    <3>1. NotInside(a, c.next)
      BY ONLY <1>2, <1>6 DEF NotInside, SameList
    <3> QED
      BY ONLY <1>10, <3>1, AlikeInside
  <2>2. Chain(g, n)
    BY ONLY <1>16 DEF Shortened
  <2>3. S(g) = g.bufs[1]
    BY ONLY <2>2, Edges
  <2> QED
    BY ONLY <1>11, <1>12, <1>16, <2>1, <2>3 DEF Shortened
<1>18. NotInside(g, s)
  <2>1. 1 \in 1 .. Len(g.bufs) /\ Sound(g.bufs[1], n)
    BY ONLY <1>17, Edges
  <2>2. Border(g.bufs[1], 0) = s /\ 0 \in 0 .. Len(g.bufs[1].infos)
    BY ONLY <1>17, <2>1, SoundFields
  <2>3. NotInside(g, Border(g.bufs[1], 0))
    BY ONLY <1>17, <2>1, <2>2, BorderInside
  <2> QED
    BY ONLY <2>2, <2>3
<1>19. PICK m : m = IF c.next <= s THEN s ELSE c.next
  OBVIOUS
<1>20. m \in Int /\ g.bufs[1].start <= m /\ m <= g.wid /\ NotInside(g, m)
  BY ONLY <1>2, <1>3, <1>12, <1>17, <1>18, <1>19
<1>21. PICK h : h = [g EXCEPT !.next = m]
  OBVIOUS
<1>22. SoundManager(h, n) /\ SameList(g, h)
  BY ONLY <1>17, <1>20, <1>21, NextSet
<1>23. h.bufs[1].start = s /\ h.wid = c.wid /\ S(h) = h.bufs[1]
  <2>1. S(h) = h.bufs[1]
    BY ONLY <1>22, Edges DEF SoundManager
  <2> QED
    BY ONLY <1>17, <1>22, <2>1 DEF SameList
<1>24. NextKept(g, c.next) = h
  BY ONLY <1>17, <1>19, <1>21 DEF NextKept
<1>25. PICK k : k = ReadRestored(h, id)
  OBVIOUS
<1>26. SoundManager(k, n) /\ k.bufs[1].start = s /\ k.wid = c.wid
  <2>1. CASE id > s
    <3>1. h.bufs[1].start <= id /\ id <= h.wid
      BY ONLY <1>3, <1>12, <1>23, <2>1
    <3>2. Reached(h, n, id, Seek(h, id))
      BY ONLY <1>3, <1>22, <3>1, SeekReaches
    <3>3. k = Seek(h, id).cbm
      BY ONLY <1>23, <1>25, <2>1 DEF ReadRestored
    <3>4. SoundManager(k, n) /\ Alike(h, k)
      BY ONLY <3>2, <3>3 DEF Reached
    <3>5. k.bufs[1].start = h.bufs[1].start /\ k.wid = h.wid
      BY ONLY <1>22, <3>4, SameStart DEF SoundManager
    <3> QED
      BY ONLY <1>23, <3>4, <3>5
  <2>2. CASE ~(id > s)
    BY ONLY <1>22, <1>23, <1>25, <2>2 DEF ReadRestored
  <2> QED
    BY ONLY <2>1, <2>2
<1>27. AdjustStart(c, f) = k
  <2>1. AdjustStart(c, f) = StartMoved(c, x)
    BY ONLY <1>1, <1>3, <1>5, <1>7 DEF AdjustStart
  <2>2. StartMoved(c, x) = ReadRestored(NextKept(StartAdjusted(DropBefore(d), off), c.next), id)
    BY ONLY <1>1, <1>9, <1>12, <1>14 DEF StartMoved
  <2> QED
    BY ONLY <1>15, <1>24, <1>25, <2>1, <2>2
<1> QED
  BY ONLY <1>12, <1>26, <1>27 DEF StartedBy

-----------------------------------------------------------------------------
\* The frames from start on are in the buffers, and unless there never was one, start
\* is among them.
Window(c, start) ==
    FirstFrame(c) <= start /\ (start < c.wid \/ (start = 0 /\ c.wid = 0))

\* A manager with a window has the frames of it, or none at all was written.
LEMMA WindowCases ==
    ASSUME NEW c, NEW n, SoundCis(c, n), NEW start \in Nat, Window(c, start)
    PROVE  /\ c.wid \in Nat
           /\ \/ Empty(c) /\ c.wid = 0 /\ start = 0 /\ FirstFrame(c) = 0
              \/ SoundManager(c, n) /\ start < c.wid /\ c.bufs[1].start \in Nat
                   /\ c.bufs[1].start <= start /\ FirstFrame(c) = c.bufs[1].start
<1>1. CASE Empty(c)
  <2>1. c.wid = 0 /\ FirstFrame(c) = 0
    BY <1>1 DEF Empty, FirstFrame
  <2> QED
    BY ONLY <1>1, <2>1, start \in Nat, Window(c, start) DEF Window
<1>2. CASE SoundManager(c, n)
  <2>1. FirstFrame(c) = c.bufs[1].start /\ c.bufs[1].start \in Nat /\ c.wid \in Nat
        /\ c.bufs[1].start < c.wid
    BY <1>2, SoundFirst, ReadId
  <2> QED
    BY ONLY <1>2, <2>1, start \in Nat, Window(c, start) DEF Window
<1> QED
  BY <1>1, <1>2 DEF SoundCis

\* A manager with the same frames or more of them at its end.
LEMMA WindowKeeps ==
    ASSUME NEW c, NEW start \in Nat, c.wid \in Nat, Window(c, start), NEW d, d.wid \in Nat,
           FirstFrame(d) = FirstFrame(c), c.wid <= d.wid
    PROVE  Window(d, start)
  BY DEF Window

\* A device's seek to a frame that is there, or to the end.
LEMMA WindowSeek ==
    ASSUME NEW c, NEW n, SoundCis(c, n), NEW start \in Nat, Window(c, start),
           NEW f \in Nat, start <= f, f <= c.wid, NEW d, d = DeviceSeek(c, f)
    PROVE  /\ SoundCis(d, n) /\ Window(d, start) /\ d.wid = c.wid
           /\ SoundManager(c, n) => SoundManager(d, n) /\ RFrameId(R(d)) = f
           /\ ~SoundManager(c, n) => d = c /\ Empty(c) /\ f = 0
           /\ f < c.wid => /\ SoundManager(d, n) /\ RFrameId(R(d)) = f
                           /\ HasFrame(d) /\ NextFrame(d) = <<n, f>>
<1>1. c.wid \in Nat
  BY WindowCases
<1>2. CASE Empty(c) /\ c.wid = 0
  <2>1. f = 0 /\ d = c
    <3>1. f = 0
      BY <1>2
    <3> QED
      BY <1>2, <3>1, EmptySeek
  <2>2. ~SoundManager(c, n) /\ ~(f < c.wid)
    BY <1>2, <2>1 DEF Empty, SoundManager, Chain
  <2> QED
    BY ONLY <1>2, <2>1, <2>2, SoundCis(c, n), Window(c, start)
<1>3. CASE SoundManager(c, n) /\ c.bufs[1].start \in Nat /\ c.bufs[1].start <= start
           /\ FirstFrame(c) = c.bufs[1].start
  <2>1. f \in Int /\ c.bufs[1].start <= f
    BY ONLY <1>3, start \in Nat, f \in Nat, start <= f
  <2>2. Positioned(c, n, f, d)
    BY <1>3, <2>1, DeviceSeekReaches
  <2>3. /\ SoundManager(d, n) /\ d.wid = c.wid /\ RFrameId(R(d)) = f
        /\ d.bufs[1].start = c.bufs[1].start
    BY ONLY <2>2 DEF Positioned
  <2>4. FirstFrame(d) = FirstFrame(c)
    BY <1>3, <2>3, SoundFirst
  <2>5. Window(d, start)
    BY ONLY <2>3, <2>4, Window(c, start) DEF Window
  <2>6. f < c.wid => HasFrame(d) /\ NextFrame(d) = <<n, f>>
    BY ONLY <2>3, FrameThere
  <2> QED
    BY ONLY <1>3, <2>3, <2>5, <2>6 DEF SoundCis
<1> QED
  BY <1>2, <1>3, WindowCases

\* The start moves where a caller who waits for the compression may move it.
LEMMA WindowMoves ==
    ASSUME NEW c, NEW n, SoundCis(c, n), NEW start \in Nat, Window(c, start),
           NEW to \in Nat, start <= to, to = start \/ to < c.wid, NEW d, d = AdjustStart(c, to)
    PROVE  SoundCis(d, n) /\ Window(d, to) /\ d.wid = c.wid
<1>1. CASE Empty(c) /\ c.wid = 0 /\ start = 0
  <2>1. to = 0 /\ d = c
    <3>1. to = 0
      BY <1>1
    <3> QED
      BY <1>1, <3>1, EmptySeek
  <2> QED
    BY ONLY <1>1, <2>1, SoundCis(c, n), Window(c, start)
<1>2. CASE SoundManager(c, n) /\ start < c.wid /\ c.bufs[1].start \in Nat
           /\ c.bufs[1].start <= start
  <2>1. to \in Int /\ c.bufs[1].start <= to /\ to < c.wid
    BY ONLY <1>2, start \in Nat, to \in Nat, start <= to, to = start \/ to < c.wid
  <2>2. StartedBy(c, n, to, d)
    BY <1>2, <2>1, AdjustStartSound
  <2>3. FirstFrame(d) = d.bufs[1].start
    BY <2>2, SoundFirst DEF StartedBy
  <2> QED
    BY ONLY <2>1, <2>2, <2>3 DEF StartedBy, Window, SoundCis
<1> QED
  BY <1>1, <1>2, WindowCases

-----------------------------------------------------------------------------
\* The caller has an image computed before its frame may be dropped, and the pending
\* compression before putting or taking frames by their number, and decompresses only a
\* frame that is there.  Without the first or the last FrameDelivered fails, without the
\* second WindowKept.
CarefulCaller == {"images", "compression", "frames"} \subseteq WaitsFor

\* The inductive invariant: the frames from start_frame on are in the buffers, the
\* numbers of XilCis are in order, the pending compression is of the frame that comes
\* next, and what is still to be decompressed is among the frames that are kept.
FramesInv ==
    /\ CountsInv
    /\ SoundCis(cbm, resets)
    /\ Window(cbm, startFrame)
    /\ startFrame <= readFrame /\ readFrame <= writeFrame
    /\ compressOp # <<>> => compressOp[1] = <<resets, cbm.wid>>
    /\ \A f \in decompressOps : f[1] = resets /\ startFrame <= f[2] /\ f[2] < writeFrame
    /\ FrameDelivered

\* There are no frames at first.
LEMMA InitEmpty == Empty(InitValues)
<1>1. PICK c : c = InitValues
  OBVIOUS
<1>2. /\ c.bufs = <<>> /\ c.s = NoBuffer /\ c.r = NoBuffer /\ c.w = NoBuffer
      /\ c.wid = 0 /\ c.next = 0 /\ c.null = FALSE /\ c \in Managers
  BY <1>1 DEF InitValues, NoBuffer, Managers
<1>3. Manager(c)
  BY <1>2 DEF Manager, Pointers
<1> QED
  BY ONLY <1>1, <1>2, <1>3 DEF Empty

LEMMA EmptyWindow ==
    ASSUME NEW c, Empty(c)
    PROVE  Window(c, 0)
  BY DEF Empty, Window, FirstFrame

LEMMA FramesInit == Init => FramesInv
<1> SUFFICES ASSUME Init PROVE FramesInv
  OBVIOUS
<1>1. CountsInv
  BY CountsInit
<1>2. /\ cbm = InitValues /\ startFrame = 0 /\ readFrame = 0 /\ writeFrame = 0
      /\ compressOp = <<>> /\ decompressOps = {} /\ got = None
  BY DEF Init
<1>3. SoundCis(cbm, resets) /\ Window(cbm, startFrame)
  BY <1>2, InitEmpty, EmptyWindow DEF SoundCis
<1>4. FrameDelivered
  BY <1>2 DEF FrameDelivered, None
<1> QED
  BY <1>1, <1>2, <1>3, <1>4 DEF FramesInv

\* What a call finds.
LEMMA FramesThere ==
    ASSUME FramesInv
    PROVE  /\ SoundCis(cbm, resets) /\ Window(cbm, startFrame) /\ resets \in Nat
           /\ startFrame \in Nat /\ readFrame \in Nat /\ writeFrame \in Nat /\ cbm.wid \in Nat
           /\ startFrame <= readFrame /\ readFrame <= writeFrame
           /\ cbm.wid <= writeFrame /\ writeFrame <= cbm.wid + 1
           /\ compressOp = <<>> => cbm.wid = writeFrame
           /\ maxFrames \in Int /\ keepFrames \in Int
           /\ \A f \in decompressOps :
                 /\ f = <<resets, f[2]>> /\ f[1] = resets /\ f[2] \in Nat
                 /\ startFrame <= f[2] /\ f[2] < writeFrame
<1>1. /\ SoundCis(cbm, resets) /\ Window(cbm, startFrame)
      /\ startFrame \in Nat /\ readFrame \in Nat /\ writeFrame \in 0 .. MaxFrame
      /\ resets \in Nat /\ startFrame <= readFrame /\ readFrame <= writeFrame
      /\ cbm.wid + Len(compressOp) = writeFrame
      /\ Manager(cbm) /\ AtMostOne(compressOp) /\ decompressOps \subseteq FrameIds
      /\ keepFrames \in KeepValues \cup MaxValues \cup {NoLimit}
      /\ maxFrames \in MaxValues \cup {NoLimit}
  BY DEF FramesInv, CountsInv, CountsAgree
<1>2. writeFrame \in Nat /\ maxFrames \in Int /\ keepFrames \in Int
  BY <1>1, CisAssumption DEF NoLimit
<1>3. cbm.wid \in Nat
  BY <1>1, ManagerFields
<1>4. Len(compressOp) \in {0, 1} /\ (compressOp = <<>> => Len(compressOp) = 0)
  BY <1>1 DEF AtMostOne
<1>5. cbm.wid <= writeFrame /\ writeFrame <= cbm.wid + 1
      /\ (compressOp = <<>> => cbm.wid = writeFrame)
  <2>1. PICK k, w : k = Len(compressOp) /\ w = cbm.wid
    OBVIOUS
  <2>2. k \in {0, 1} /\ (compressOp = <<>> => k = 0) /\ w \in Nat /\ w + k = writeFrame
    BY <1>1, <1>3, <1>4, <2>1
  <2>3. w <= writeFrame /\ writeFrame <= w + 1
    BY ONLY <1>2, <2>2
  <2>4. k = 0 => w = writeFrame
    BY ONLY <1>2, <2>2
  <2> QED
    BY ONLY <2>1, <2>2, <2>3, <2>4
<1>6. ASSUME NEW f \in decompressOps
      PROVE  /\ f = <<resets, f[2]>> /\ f[1] = resets /\ f[2] \in Nat
             /\ startFrame <= f[2] /\ f[2] < writeFrame
  <2>1. f \in Nat \X Nat
    BY <1>1 DEF FrameIds
  <2>2. f[1] = resets /\ startFrame <= f[2] /\ f[2] < writeFrame
    BY DEF FramesInv
  <2> QED
    BY ONLY <2>1, <2>2
<1> QED
  BY ONLY <1>1, <1>2, <1>3, <1>5, <1>6

\* The manager after the pending compression was flushed.
LEMMA FramesSynced ==
    ASSUME FramesInv, NEW gaveBack, NEW d, d = Synced(cbm, gaveBack)
    PROVE  SoundCis(d, resets) /\ Window(d, startFrame) /\ d.wid = writeFrame
<1>1. PendingIsNext(cbm) /\ resets \in Nat /\ SoundCis(cbm, resets) /\ Window(cbm, startFrame)
      /\ startFrame \in Nat /\ cbm.wid \in Nat /\ writeFrame \in Nat /\ cbm.wid <= writeFrame
  BY FramesThere DEF FramesInv, PendingIsNext
<1>2. SoundCis(d, resets) /\ FirstFrame(d) = FirstFrame(cbm)
  BY ONLY <1>1, d = Synced(cbm, gaveBack), SyncedSound
<1>3. CountsMore(cbm, d, Len(compressOp), FALSE)
  BY SyncedType DEF FramesInv, CountsInv
<1>4. d.wid = writeFrame
  BY ONLY <1>3, FramesInv DEF FramesInv, CountsInv, CountsAgree, CountsMore
<1>5. Window(d, startFrame)
  BY ONLY <1>1, <1>2, <1>4, WindowKeeps
<1> QED
  BY ONLY <1>2, <1>4, <1>5

\* The same where the start moves first.
LEMMA FramesMovedSynced ==
    ASSUME FramesInv, NEW start \in Nat, startFrame <= start, start = startFrame \/ start < cbm.wid,
           NEW c, c = AdjustStart(cbm, start) \/ (c = cbm /\ start = startFrame),
           NEW gaveBack, NEW d, d = Synced(c, gaveBack)
    PROVE  SoundCis(d, resets) /\ Window(d, start) /\ d.wid = writeFrame /\ start <= writeFrame
<1>1. PendingIsNext(cbm) /\ resets \in Nat /\ SoundCis(cbm, resets) /\ Window(cbm, startFrame)
      /\ startFrame \in Nat /\ cbm.wid \in Nat /\ writeFrame \in Nat /\ cbm.wid <= writeFrame
      /\ startFrame <= writeFrame /\ Manager(cbm) /\ cbm.locked = FALSE /\ AtMostOne(compressOp)
  <2>1. Manager(cbm) /\ cbm.locked = FALSE /\ AtMostOne(compressOp)
    BY DEF FramesInv, CountsInv
  <2>2. PendingIsNext(cbm)
    BY DEF FramesInv, PendingIsNext
  <2>3. /\ resets \in Nat /\ SoundCis(cbm, resets) /\ Window(cbm, startFrame)
        /\ startFrame \in Nat /\ cbm.wid \in Nat /\ writeFrame \in Nat /\ cbm.wid <= writeFrame
        /\ startFrame <= readFrame /\ readFrame <= writeFrame /\ readFrame \in Nat
    BY FramesThere
  <2> QED
    BY ONLY <2>1, <2>2, <2>3
<1>2. SoundCis(c, resets) /\ Window(c, start) /\ c.wid = cbm.wid
  <2>1. CASE c = cbm /\ start = startFrame
    BY ONLY <1>1, <2>1
  <2>2. CASE c = AdjustStart(cbm, start)
    BY ONLY <1>1, <2>2, start \in Nat, startFrame <= start, start = startFrame \/ start < cbm.wid,
            WindowMoves
  <2> QED
    BY ONLY <2>1, <2>2, c = AdjustStart(cbm, start) \/ (c = cbm /\ start = startFrame)
<1>3. PendingIsNext(c)
  BY ONLY <1>1, <1>2 DEF PendingIsNext
<1>4. SoundCis(d, resets) /\ FirstFrame(d) = FirstFrame(c)
  BY ONLY <1>1, <1>2, <1>3, d = Synced(c, gaveBack), SyncedSound
<1>5. KeptType(cbm, c)
  <2>1. start \in Int
    OBVIOUS
  <2>2. KeptType(cbm, AdjustStart(cbm, start))
    BY ONLY <1>1, <2>1, AdjustStartType
  <2> QED
    BY ONLY <1>1, <2>2, c = AdjustStart(cbm, start) \/ (c = cbm /\ start = startFrame) DEF KeptType, SameCounts
<1>6. CountsMore(c, d, Len(compressOp), FALSE)
  BY ONLY <1>1, <1>5, d = Synced(c, gaveBack), SyncedType DEF KeptType, SameCounts
<1>7. d.wid = writeFrame
  BY ONLY <1>2, <1>6, FramesInv DEF FramesInv, CountsInv, CountsAgree, CountsMore
<1>8. Window(d, start)
  BY ONLY <1>1, <1>2, <1>4, <1>7, start \in Nat, WindowKeeps
<1>9. start <= writeFrame
  BY ONLY <1>1, start \in Nat, start = startFrame \/ start < cbm.wid
<1> QED
  BY ONLY <1>4, <1>7, <1>8, <1>9

-----------------------------------------------------------------------------
\* One lemma for each call.
LEMMA FramesCompress ==
    ASSUME FramesInv, CountsInv', CarefulCaller, NEW gaveBack \in BOOLEAN, Compress(gaveBack)
    PROVE  FramesInv'
<1>1. PICK start, c : /\ start = IF MaxReached THEN writeFrame + 1 - maxFrames ELSE startFrame
                      /\ c = IF MaxReached THEN AdjustStart(cbm, start) ELSE cbm
  OBVIOUS
<1>3. /\ writeFrame' = writeFrame + 1 /\ startFrame' = start
      /\ readFrame' = (IF readFrame < start THEN start ELSE readFrame)
      /\ cbm' = Synced(c, gaveBack) /\ compressOp' = <<Frame(writeFrame)>>
      /\ decompressOps' = decompressOps /\ resets' = resets /\ got' = got
      /\ Waited(start)
  BY <1>1 DEF Compress, FlushPriorDecompressOps
<1>4. /\ resets \in Nat
      /\ startFrame \in Nat /\ readFrame \in Nat /\ writeFrame \in Nat /\ cbm.wid \in Nat
      /\ startFrame <= readFrame /\ readFrame <= writeFrame /\ maxFrames \in Int
      /\ \A f \in decompressOps :
            /\ f[1] = resets /\ f[2] \in Nat
            /\ startFrame <= f[2] /\ f[2] < writeFrame
  BY FramesThere
<1>5. (start = startFrame \/ start < cbm.wid) /\ \A f \in decompressOps : f[2] >= start
  BY ONLY <1>3, CarefulCaller DEF Waited, CarefulCaller
<1>6. start \in Nat /\ startFrame <= start
      /\ (c = AdjustStart(cbm, start) \/ (c = cbm /\ start = startFrame))
  <2>1. CASE MaxReached
    BY ONLY <1>1, <1>4, <2>1 DEF MaxReached
  <2>2. CASE ~MaxReached
    BY ONLY <1>1, <1>4, <2>2
  <2> QED
    BY ONLY <2>1, <2>2
<1>7. SoundCis(cbm', resets) /\ Window(cbm', start) /\ cbm'.wid = writeFrame /\ start <= writeFrame
  BY ONLY <1>3, <1>5, <1>6, FramesInv, FramesMovedSynced
<1>8. startFrame' <= readFrame' /\ readFrame' <= writeFrame'
  BY ONLY <1>3, <1>4, <1>6, <1>7
<1>9. compressOp'[1] = <<resets', cbm'.wid>>
  BY ONLY <1>3, <1>7 DEF Frame
<1>10. ASSUME NEW f \in decompressOps'
       PROVE  f[1] = resets' /\ startFrame' <= f[2] /\ f[2] < writeFrame'
  <2>1. f \in decompressOps
    BY ONLY <1>3
  <2>2. f[1] = resets /\ f[2] \in Nat /\ f[2] < writeFrame /\ f[2] >= start
    BY ONLY <1>4, <1>5, <2>1
  <2> QED
    BY ONLY <1>3, <1>4, <1>6, <2>2
<1>11. FrameDelivered'
  BY ONLY <1>3, FramesInv DEF FramesInv, FrameDelivered
<1> QED
  BY ONLY <1>3, <1>7, <1>8, <1>9, <1>10, <1>11, CountsInv' DEF FramesInv

LEMMA FramesSync ==
    ASSUME FramesInv, CountsInv', NEW gaveBack \in BOOLEAN, Sync(gaveBack)
    PROVE  FramesInv'
<1>1. /\ cbm' = Synced(cbm, gaveBack) /\ compressOp' = <<>>
      /\ startFrame' = startFrame /\ readFrame' = readFrame /\ writeFrame' = writeFrame
      /\ decompressOps' = decompressOps /\ resets' = resets /\ got' = got
  BY DEF Sync
<1>2. SoundCis(cbm', resets) /\ Window(cbm', startFrame)
  BY ONLY <1>1, FramesInv, FramesSynced
<1> QED
  BY ONLY <1>1, <1>2, FramesInv, CountsInv' DEF FramesInv, FrameDelivered

LEMMA FramesFlush ==
    ASSUME FramesInv, CountsInv', NEW gaveBack \in BOOLEAN, NEW f \in decompressOps,
           FlushDecompress(f, gaveBack)
    PROVE  FramesInv'
<1>1. PICK c, d : c = Synced(cbm, gaveBack) /\ d = DeviceSeek(c, f[2])
  OBVIOUS
<1>2. /\ Deliver(f, d)
      /\ startFrame' = startFrame /\ readFrame' = readFrame /\ writeFrame' = writeFrame
      /\ decompressOps' = decompressOps \ {f} /\ resets' = resets /\ compressOp' = <<>>
  BY <1>1 DEF FlushDecompress
<1>3. /\ startFrame \in Nat /\ f = <<resets, f[2]>> /\ f[1] = resets /\ f[2] \in Nat
      /\ startFrame <= f[2] /\ f[2] < writeFrame /\ writeFrame \in Nat
  BY FramesThere
<1>4. SoundCis(c, resets) /\ Window(c, startFrame) /\ c.wid = writeFrame
  BY ONLY <1>1, FramesInv, FramesSynced
<1>5. /\ SoundManager(d, resets) /\ RFrameId(R(d)) = f[2] /\ HasFrame(d)
      /\ NextFrame(d) = <<resets, f[2]>> /\ d.wid = writeFrame /\ Window(d, startFrame)
  <2>1. f[2] <= c.wid /\ f[2] < c.wid
    BY ONLY <1>3, <1>4
  <2> QED
    BY ONLY <1>1, <1>3, <1>4, <2>1, WindowSeek
<1>6. cbm' = DecompressedFrame(d)
      /\ got' = [resets |-> f[1], asked |-> f[2], frames |-> <<NextFrame(d)>>]
  BY ONLY <1>2, <1>5 DEF Deliver
<1>7. FrameRead(d, resets, cbm')
  BY ONLY <1>3, <1>5, <1>6, DecompressedFrameReads
<1>8. SoundCis(cbm', resets) /\ Window(cbm', startFrame)
  <2>1. /\ SoundManager(cbm', resets) /\ cbm'.bufs[1].start = d.bufs[1].start
        /\ cbm'.wid = d.wid
    BY ONLY <1>7 DEF FrameRead
  <2>2. FirstFrame(cbm') = FirstFrame(d)
    BY ONLY <1>5, <2>1, SoundFirst
  <2> QED
    BY ONLY <1>5, <2>1, <2>2 DEF Window, SoundCis
<1>9. FrameDelivered'
  <2>1. PICK g : g = <<NextFrame(d)>>
    OBVIOUS
  <2>2. DOMAIN g = {1} /\ g[1] = f
    BY ONLY <1>3, <1>5, <2>1
  <2>3. got'.frames = g /\ got'.resets = f[1] /\ got'.asked = f[2]
    BY ONLY <1>6, <2>1
  <2>4. f[2] + 1 - 1 = f[2]
    BY ONLY <1>3
  <2>5. ASSUME NEW i \in DOMAIN got'.frames
        PROVE  got'.frames[i] = <<got'.resets, got'.asked + i - 1>>
    <3>1. i = 1
      BY ONLY <2>2, <2>3
    <3> QED
      BY ONLY <1>3, <2>2, <2>3, <2>4, <3>1
  <2> QED
    BY ONLY <2>5 DEF FrameDelivered
<1> QED
  BY ONLY <1>2, <1>8, <1>9, FramesInv, CountsInv' DEF FramesInv

LEMMA FramesPut ==
    ASSUME FramesInv, CountsInv', CarefulCaller, NEW n \in PutSizes,
           NEW frames, frames = Frames(writeFrame, n),
           Put(n, PutBits(cbm, frames)) \/ Put(n, PutBitsPtr(cbm, frames))
    PROVE  FramesInv'
<1>1. /\ cbm' = PutBits(cbm, frames) \/ cbm' = PutBitsPtr(cbm, frames)
      /\ startFrame' = startFrame /\ readFrame' = readFrame /\ writeFrame' = writeFrame + n
      /\ decompressOps' = decompressOps /\ resets' = resets /\ compressOp' = compressOp
      /\ got' = got /\ NothingPending
  BY DEF Put
<1>2. compressOp = <<>>
  BY ONLY <1>1, CarefulCaller DEF NothingPending, CarefulCaller
<1>3. /\ SoundCis(cbm, resets) /\ Window(cbm, startFrame) /\ resets \in Nat
      /\ startFrame \in Nat /\ readFrame \in Nat /\ writeFrame \in Nat
      /\ startFrame <= readFrame /\ readFrame <= writeFrame /\ cbm.wid = writeFrame
      /\ \A f \in decompressOps : f[2] \in Nat /\ f[2] < writeFrame
  BY <1>2, FramesThere
<1>4. n \in Nat /\ n > 0
  <2>1. n \in 1 .. MaxFrame
    BY CisAssumption
  <2> QED
    BY <2>1, CisAssumption
<1>5. Following(resets, cbm.wid, frames)
  <2>1. ASSUME NEW i \in 1 .. n
        PROVE  /\ frames[i] = <<resets, writeFrame + (i - 1)>> /\ frames[i] \in FrameIds
    <3>1. frames[i] = <<resets, writeFrame + i - 1>>
      BY ONLY frames = Frames(writeFrame, n), i \in 1 .. n DEF Frames, Frame
    <3>2. writeFrame + i - 1 = writeFrame + (i - 1) /\ writeFrame + i - 1 \in Nat
      BY ONLY <1>3, <1>4, i \in 1 .. n
    <3> QED
      BY ONLY <1>3, <3>1, <3>2 DEF FrameIds
  <2>2. frames \in [1 .. n -> FrameIds]
    BY ONLY <2>1, frames = Frames(writeFrame, n) DEF Frames
  <2>3. frames \in Seq(FrameIds) /\ Len(frames) = n
    BY ONLY <1>4, <2>2
  <2> QED
    BY ONLY <1>3, <1>4, <2>1, <2>3 DEF Following
<1>6. Grown(cbm, resets, cbm')
  BY ONLY <1>1, <1>3, <1>5, PutBitsGrows, PutBitsPtrGrows
<1>7. cbm'.wid = writeFrame'
  <2>1. cbm'.wid + Len(compressOp') = writeFrame' /\ Manager(cbm')
    BY DEF CountsInv, CountsAgree
  <2>2. Len(compressOp') = 0 /\ cbm'.wid \in Nat
    BY <1>1, <1>2, <2>1, ManagerFields
  <2> QED
    BY ONLY <2>1, <2>2
<1>8. SoundCis(cbm', resets) /\ Window(cbm', startFrame)
  <2>1. FirstFrame(cbm') = FirstFrame(cbm) /\ SoundManager(cbm', resets)
    BY ONLY <1>6 DEF Grown
  <2>2. cbm'.wid \in Nat /\ cbm.wid \in Nat /\ cbm.wid <= cbm'.wid
    BY ONLY <1>1, <1>3, <1>4, <1>7
  <2>3. Window(cbm', startFrame)
    BY ONLY <1>3, <2>1, <2>2, WindowKeeps
  <2> QED
    BY ONLY <2>1, <2>3 DEF SoundCis
<1>9. readFrame' <= writeFrame' /\ \A f \in decompressOps : f[2] < writeFrame'
  BY ONLY <1>1, <1>3, <1>4
<1> QED
  BY ONLY <1>1, <1>2, <1>8, <1>9, FramesInv, CountsInv' DEF FramesInv, FrameDelivered

-----------------------------------------------------------------------------
\* Reading on, or seeking, moves the start.
LEMMA FramesReadTo ==
    ASSUME FramesInv, CarefulCaller, NEW c, SoundCis(c, resets), Window(c, startFrame),
           c.wid = cbm.wid, NEW read \in Nat, startFrame <= read, ReadFrameTo(c, read),
           Waited(StartFor(read))
    PROVE  /\ SoundCis(cbm', resets) /\ Window(cbm', startFrame') /\ readFrame' = read
           /\ startFrame' \in Nat /\ startFrame' <= read
           /\ startFrame < read => startFrame' < read
           /\ \A f \in decompressOps : f[2] >= startFrame'
<1>1. PICK start : start = StartFor(read)
  OBVIOUS
<1>2. startFrame \in Nat /\ keepFrames \in Int /\ cbm.wid \in Nat
  BY FramesThere
<1>3. /\ start \in Nat /\ startFrame <= start /\ start <= read
      /\ (startFrame < read => start < read)
      /\ ~KeepReached(read) => start = startFrame
  <2>1. CASE KeepReached(read)
    BY ONLY <1>1, <1>2, <2>1, read \in Nat DEF StartFor, KeepReached
  <2>2. CASE ~KeepReached(read)
    BY ONLY <1>1, <1>2, <2>2, read \in Nat, startFrame <= read DEF StartFor
  <2> QED
    BY ONLY <2>1, <2>2
<1>4. (start = startFrame \/ start < cbm.wid) /\ \A f \in decompressOps : f[2] >= start
  BY ONLY <1>1, CarefulCaller, Waited(StartFor(read)) DEF Waited, CarefulCaller
<1>5. /\ readFrame' = read /\ startFrame' = start
      /\ cbm' = IF KeepReached(read) THEN AdjustStart(c, start) ELSE c
  BY ONLY <1>1, ReadFrameTo(c, read) DEF ReadFrameTo
<1>6. SoundCis(cbm', resets) /\ Window(cbm', start)
  <2>1. CASE KeepReached(read)
    BY ONLY <1>2, <1>3, <1>4, <1>5, <2>1, SoundCis(c, resets), Window(c, startFrame),
            c.wid = cbm.wid, WindowMoves
  <2>2. CASE ~KeepReached(read)
    BY ONLY <1>3, <1>5, <2>2, SoundCis(c, resets), Window(c, startFrame)
  <2> QED
    BY ONLY <2>1, <2>2
<1> QED
  BY ONLY <1>3, <1>4, <1>5, <1>6

LEMMA FramesDecompress ==
    ASSUME FramesInv, CountsInv', CarefulCaller, Decompress
    PROVE  FramesInv'
<1>1. PICK c, read : c = DeviceSeek(cbm, readFrame) /\ read = readFrame + 1
  OBVIOUS
<1>2. /\ ReadFrameTo(c, read) /\ Waited(StartFor(read)) /\ readFrame < writeFrame
      /\ writeFrame' = writeFrame /\ resets' = resets /\ compressOp' = compressOp /\ got' = got
      /\ decompressOps' = decompressOps \cup {<<resets, readFrame>>}
  <2>1. FrameIsThere
    BY DEF Decompress
  <2>2. readFrame < writeFrame
    BY ONLY <2>1, CarefulCaller DEF FrameIsThere, CarefulCaller
  <2> QED
    BY <1>1, <2>2 DEF Decompress, Frame
<1>3. /\ SoundCis(cbm, resets) /\ Window(cbm, startFrame) /\ resets \in Nat
      /\ startFrame \in Nat /\ readFrame \in Nat /\ writeFrame \in Nat /\ cbm.wid \in Nat
      /\ startFrame <= readFrame /\ readFrame <= writeFrame
      /\ cbm.wid <= writeFrame /\ writeFrame <= cbm.wid + 1
      /\ \A f \in decompressOps : f[1] = resets /\ f[2] < writeFrame
  BY FramesThere
<1>4. /\ readFrame <= cbm.wid /\ read \in Nat /\ startFrame <= read /\ startFrame < read
      /\ read <= writeFrame
  BY ONLY <1>1, <1>2, <1>3
<1>5. SoundCis(c, resets) /\ Window(c, startFrame) /\ c.wid = cbm.wid
  BY ONLY <1>1, <1>3, <1>4, WindowSeek
<1>6. /\ SoundCis(cbm', resets) /\ Window(cbm', startFrame') /\ readFrame' = read
      /\ startFrame' \in Nat /\ startFrame' <= read /\ startFrame' < read
      /\ \A f \in decompressOps : f[2] >= startFrame'
  BY ONLY <1>2, <1>4, <1>5, FramesInv, CarefulCaller, FramesReadTo
<1>7. ASSUME NEW f \in decompressOps'
      PROVE  f[1] = resets' /\ startFrame' <= f[2] /\ f[2] < writeFrame'
  <2>1. CASE f \in decompressOps
    <3>1. f[2] \in Nat
      BY <2>1, FramesThere
    <3> QED
      BY ONLY <1>2, <1>3, <1>6, <2>1, <3>1
  <2>2. CASE f = <<resets, readFrame>>
    <3>1. f[1] = resets /\ f[2] = readFrame
      BY ONLY <2>2
    <3>2. startFrame' <= readFrame
      BY ONLY <1>1, <1>3, <1>6
    <3> QED
      BY ONLY <1>2, <3>1, <3>2
  <2> QED
    BY ONLY <1>2, <2>1, <2>2
<1>8. cbm'.wid = cbm.wid
  <2>1. /\ cbm.wid + Len(compressOp) = writeFrame /\ cbm'.wid + Len(compressOp') = writeFrame'
        /\ Manager(cbm') /\ AtMostOne(compressOp)
    BY DEF FramesInv, CountsInv, CountsAgree
  <2>2. cbm'.wid \in Nat /\ Len(compressOp) \in Nat
    BY ONLY <2>1, ManagerFields DEF AtMostOne
  <2> QED
    BY ONLY <1>2, <1>3, <2>1, <2>2
<1> QED
  BY ONLY <1>2, <1>4, <1>6, <1>7, <1>8, FramesInv, CountsInv' DEF FramesInv, FrameDelivered

LEMMA FramesCisSeek ==
    ASSUME FramesInv, CountsInv', CarefulCaller, NEW goal \in 0 .. MaxFrame, CisSeek(goal)
    PROVE  FramesInv'
<1>1. /\ ReadFrameTo(cbm, goal) /\ Waited(StartFor(goal)) /\ goal \in startFrame .. writeFrame
      /\ writeFrame' = writeFrame /\ resets' = resets /\ compressOp' = compressOp /\ got' = got
      /\ decompressOps' = decompressOps
  BY DEF CisSeek, FlushPriorDecompressOps
<1>2. /\ SoundCis(cbm, resets) /\ Window(cbm, startFrame) /\ resets \in Nat
      /\ startFrame \in Nat /\ writeFrame \in Nat /\ cbm.wid \in Nat
      /\ \A f \in decompressOps : f[1] = resets /\ f[2] \in Nat /\ f[2] < writeFrame
  BY FramesThere
<1>3. goal \in Nat /\ startFrame <= goal /\ goal <= writeFrame
  BY ONLY <1>1, <1>2
<1>4. /\ SoundCis(cbm', resets) /\ Window(cbm', startFrame') /\ readFrame' = goal
      /\ startFrame' \in Nat /\ startFrame' <= goal
      /\ \A f \in decompressOps : f[2] >= startFrame'
  BY ONLY <1>1, <1>2, <1>3, FramesInv, CarefulCaller, FramesReadTo
<1>5. \A f \in decompressOps' : f[1] = resets' /\ startFrame' <= f[2] /\ f[2] < writeFrame'
  BY ONLY <1>1, <1>2, <1>4
<1>6. cbm'.wid = cbm.wid
  <2>1. /\ cbm.wid + Len(compressOp) = writeFrame /\ cbm'.wid + Len(compressOp') = writeFrame'
        /\ Manager(cbm') /\ AtMostOne(compressOp)
    BY DEF FramesInv, CountsInv, CountsAgree
  <2>2. cbm'.wid \in Nat /\ Len(compressOp) \in Nat
    BY ONLY <2>1, ManagerFields DEF AtMostOne
  <2> QED
    BY ONLY <1>1, <1>2, <2>1, <2>2
<1> QED
  BY ONLY <1>1, <1>3, <1>4, <1>5, <1>6, FramesInv, CountsInv' DEF FramesInv, FrameDelivered

LEMMA FramesGetBits ==
    ASSUME FramesInv, CountsInv', CarefulCaller, GetBits
    PROVE  FramesInv'
<1>1. PICK d : d = DeviceSeek(cbm, readFrame)
  OBVIOUS
<1>2. /\ HandOut(d) /\ NothingPending
      /\ startFrame' = startFrame /\ writeFrame' = writeFrame /\ resets' = resets
      /\ compressOp' = compressOp /\ decompressOps' = decompressOps
  BY <1>1 DEF GetBits
<1>3. compressOp = <<>>
  BY ONLY <1>2, CarefulCaller DEF NothingPending, CarefulCaller
<1>4. /\ SoundCis(cbm, resets) /\ Window(cbm, startFrame) /\ resets \in Nat
      /\ startFrame \in Nat /\ readFrame \in Nat /\ writeFrame \in Nat /\ cbm.wid \in Nat
      /\ startFrame <= readFrame /\ readFrame <= writeFrame /\ cbm.wid = writeFrame
  BY <1>3, FramesThere
<1>5. PICK frames : frames = AvailFrames(d)
  OBVIOUS
<1>6. /\ cbm' = GetBitsPtr(d) /\ readFrame' = readFrame + Len(frames)
      /\ got' = [resets |-> resets, asked |-> readFrame, frames |-> frames]
  BY ONLY <1>2, <1>5 DEF HandOut
<1>7. /\ SoundCis(d, resets) /\ Window(d, startFrame) /\ d.wid = cbm.wid
      /\ SoundManager(cbm, resets) => SoundManager(d, resets) /\ RFrameId(R(d)) = readFrame
      /\ ~SoundManager(cbm, resets) => d = cbm /\ Empty(cbm)
  BY ONLY <1>1, <1>4, WindowSeek
<1>8. /\ SoundCis(cbm', resets) /\ Window(cbm', startFrame) /\ Len(frames) \in Nat
      /\ readFrame + Len(frames) <= writeFrame
      /\ \A k \in DOMAIN frames : frames[k] = <<resets, readFrame + k - 1>>
  <2>1. CASE SoundManager(cbm, resets)
    <3>1. SoundManager(d, resets) /\ RFrameId(R(d)) = readFrame
      BY ONLY <1>7, <2>1
    <3>2. /\ SoundManager(cbm', resets) /\ cbm'.bufs[1].start = d.bufs[1].start
          /\ cbm'.wid = d.wid
          /\ Len(frames) \in Nat /\ readFrame + Len(frames) <= d.wid
          /\ \A k \in DOMAIN frames : frames[k] = <<resets, readFrame + k - 1>>
      BY ONLY <1>5, <1>6, <3>1, GetBitsPtrReads
    <3>3. FirstFrame(cbm') = FirstFrame(d)
      BY ONLY <3>1, <3>2, SoundFirst
    <3> QED
      BY ONLY <1>4, <1>7, <3>2, <3>3 DEF Window, SoundCis
  <2>2. CASE ~SoundManager(cbm, resets)
    <3>1. d = cbm /\ Empty(d)
      BY ONLY <1>7, <2>2
    <3>2. GetBitsPtr(d) = d /\ AvailFrames(d) = <<>>
      BY ONLY <3>1, EmptySeek
    <3>3. cbm' = cbm /\ frames = <<>>
      BY ONLY <1>5, <1>6, <3>1, <3>2
    <3>4. Len(frames) = 0 /\ DOMAIN frames = {}
      BY ONLY <3>3
    <3> QED
      BY ONLY <1>4, <3>3, <3>4
  <2> QED
    BY ONLY <2>1, <2>2
<1>9. FrameDelivered'
  BY ONLY <1>6, <1>8 DEF FrameDelivered
<1>10. startFrame' <= readFrame' /\ readFrame' <= writeFrame'
  BY ONLY <1>2, <1>4, <1>6, <1>8
<1> QED
  BY ONLY <1>2, <1>3, <1>8, <1>9, <1>10, FramesInv, CountsInv' DEF FramesInv

LEMMA FramesQuery ==
    ASSUME FramesInv, CountsInv', NEW gaveBack \in BOOLEAN, Query(gaveBack)
    PROVE  FramesInv'
<1>1. PICK c, d : c = Synced(cbm, gaveBack) /\ d = DeviceSeek(c, readFrame)
  OBVIOUS
<1>2. /\ cbm' = d \/ cbm' = NumberOfFrames(d)
      /\ startFrame' = startFrame /\ readFrame' = readFrame /\ writeFrame' = writeFrame
      /\ decompressOps' = decompressOps /\ resets' = resets /\ compressOp' = <<>> /\ got' = got
  BY <1>1 DEF Query
<1>3. /\ startFrame \in Nat /\ readFrame \in Nat /\ writeFrame \in Nat
      /\ startFrame <= readFrame /\ readFrame <= writeFrame
  BY FramesThere
<1>4. SoundCis(c, resets) /\ Window(c, startFrame) /\ c.wid = writeFrame
  BY ONLY <1>1, FramesInv, FramesSynced
<1>5. SoundCis(d, resets) /\ Window(d, startFrame) /\ d.wid = c.wid
  BY ONLY <1>1, <1>3, <1>4, WindowSeek
<1>6. SoundCis(cbm', resets) /\ Window(cbm', startFrame)
  <2>1. CASE cbm' = d
    BY ONLY <1>5, <2>1
  <2>2. CASE cbm' = NumberOfFrames(d) /\ Empty(d)
    BY ONLY <1>5, <2>2, EmptySeek
  <2>3. CASE cbm' = NumberOfFrames(d) /\ SoundManager(d, resets)
    <3>1. /\ SoundManager(cbm', resets) /\ cbm'.bufs[1].start = d.bufs[1].start
          /\ cbm'.wid = d.wid
      BY ONLY <2>3, NumberOfFramesReads
    <3>2. FirstFrame(cbm') = FirstFrame(d)
      BY ONLY <2>3, <3>1, SoundFirst
    <3> QED
      BY ONLY <1>5, <3>1, <3>2 DEF Window, SoundCis
  <2> QED
    BY ONLY <1>2, <1>5, <2>1, <2>2, <2>3 DEF SoundCis
<1> QED
  BY ONLY <1>2, <1>6, FramesInv, CountsInv' DEF FramesInv, FrameDelivered

LEMMA FramesReset ==
    ASSUME FramesInv, CountsInv', CarefulCaller, Reset
    PROVE  FramesInv'
<1>1. /\ cbm' = InitValues /\ startFrame' = 0 /\ readFrame' = 0 /\ writeFrame' = 0
      /\ compressOp' = <<>> /\ decompressOps' = decompressOps /\ got' = got
      /\ "images" \in WaitsFor => decompressOps = {}
  BY DEF Reset
<1>2. decompressOps' = {}
  BY ONLY <1>1, CarefulCaller DEF CarefulCaller
<1>3. SoundCis(cbm', resets') /\ Window(cbm', startFrame')
  BY <1>1, InitEmpty, EmptyWindow DEF SoundCis
<1> QED
  BY ONLY <1>1, <1>2, <1>3, FramesInv, CountsInv' DEF FramesInv, FrameDelivered

LEMMA FramesStep ==
    ASSUME CarefulCaller
    PROVE  FramesInv /\ [Next]_vars => FramesInv'
<1> SUFFICES ASSUME FramesInv, [Next]_vars PROVE FramesInv'
  OBVIOUS
<1>1. CountsInv'
  BY CountsStep DEF FramesInv
<1>2. ASSUME UNCHANGED <<cbm, readFrame, writeFrame, startFrame, compressOp, decompressOps,
                         resets, got>>
      PROVE  FramesInv'
  BY ONLY <1>1, <1>2, FramesInv DEF FramesInv, FrameDelivered
<1>3. ASSUME NEW k \in KeepValues, SetKeepFrames(k) PROVE FramesInv'
  BY <1>2, <1>3 DEF SetKeepFrames
<1>4. ASSUME NEW m \in MaxValues, SetMaxFrames(m) PROVE FramesInv'
  BY <1>2, <1>4 DEF SetMaxFrames
<1>5. CASE UNCHANGED vars
  BY <1>2, <1>5 DEF vars
<1> QED
  BY <1>1, <1>3, <1>4, <1>5, FramesCompress, FramesSync, FramesFlush, FramesPut,
     FramesDecompress, FramesCisSeek, FramesGetBits, FramesQuery, FramesReset DEF Next

\* The invariant holds in every state.
LEMMA FramesInvariant ==
    ASSUME CarefulCaller
    PROVE  Spec => []FramesInv
<1>1. Init => FramesInv
  BY FramesInit
<1>2. FramesInv /\ [Next]_vars => FramesInv'
  BY FramesStep
<1> QED
  BY <1>1, <1>2, PTL DEF Spec

-----------------------------------------------------------------------------
\* An image gets the frame it was asked to get, as it was written, and getBitsPtr()
\* the frames from the read frame on, whatever was dropped, put or sought in between.
THEOREM FramesDelivered ==
    ASSUME CarefulCaller
    PROVE  Spec => []FrameDelivered
<1>1. FramesInv => FrameDelivered
  BY DEF FramesInv
<1> QED
  BY <1>1, FramesInvariant, PTL

\* The buffers of the manager, and the infos of a buffer, continue each other without
\* gap or overlap up to write_frame_id, however the infos were split and dropped.
THEOREM BuffersLieEndToEnd ==
    ASSUME CarefulCaller
    PROVE  Spec => []BuffersContiguous
<1>1. FramesInv => BuffersContiguous
  <2> SUFFICES ASSUME FramesInv PROVE BuffersContiguous
    OBVIOUS
  <2>1. CASE Empty(cbm)
    <3>1. DOMAIN cbm.bufs = {}
      BY <2>1 DEF Empty
    <3> QED
      BY ONLY <3>1 DEF BuffersContiguous
  <2>2. CASE SoundManager(cbm, resets)
    <3>1. Chain(cbm, resets) /\ Len(cbm.bufs) \in Nat /\ DOMAIN cbm.bufs = 1 .. Len(cbm.bufs)
      BY <2>2, ManagerFields, LenProperties DEF SoundManager, Chain
    <3>2. ASSUME NEW i \in DOMAIN cbm.bufs
          PROVE  cbm.bufs[i].start + cbm.bufs[i].num
                   = IF i < Len(cbm.bufs) THEN cbm.bufs[i + 1].start ELSE cbm.wid
      <4>1. CASE i < Len(cbm.bufs)
        <5>1. i \in 1 .. Len(cbm.bufs) - 1
          BY <3>1, <4>1
        <5> QED
          BY <3>1, <4>1, <5>1 DEF Chain, EndOf
      <4>2. CASE ~(i < Len(cbm.bufs))
        <5>1. i = Len(cbm.bufs)
          BY <3>1, <4>2
        <5> QED
          BY <3>1, <4>2, <5>1 DEF Chain, EndOf
      <4> QED
        BY <4>1, <4>2
    <3>3. ASSUME NEW i \in DOMAIN cbm.bufs, NEW j \in DOMAIN cbm.bufs[i].infos
          PROVE  LET here == cbm.bufs[i].infos[j] IN
                 /\ here.id + here.num = IF j < End(cbm.bufs[i]) THEN cbm.bufs[i].infos[j + 1].id
                                         ELSE cbm.bufs[i].start + cbm.bufs[i].num
                 /\ here.at + here.num = IF j < End(cbm.bufs[i]) THEN cbm.bufs[i].infos[j + 1].at
                                         ELSE Len(cbm.bufs[i].mem)
      <4>1. PICK b, N, p, s : b = cbm.bufs[i] /\ N = Len(b.infos) /\ p = j - 1 /\ s = b.start
        OBVIOUS
      <4>2. Sound(b, resets)
        BY <3>1, <4>1 DEF Chain
      <4>3. N \in Nat /\ b.infos \in Seq(Infos) /\ s \in Nat /\ b.base \in Nat /\ b.num \in Nat
            /\ Len(b.mem) = b.base + b.num /\ Border(b, N) = b.start + b.num
        BY <4>1, <4>2, SoundFields
      <4>4. p \in 0 .. N - 1 /\ p + 1 = j /\ j \in 1 .. N
        <5>1. j \in 1 .. N
          BY <4>1, <4>3, LenProperties
        <5> QED
          BY ONLY <4>1, <4>3, <5>1
      <4>5. /\ b.infos[j].id = Border(b, p) /\ b.infos[j].num = Border(b, j) - Border(b, p)
            /\ b.infos[j].at = Border(b, p) + b.base - s
            /\ Border(b, p) \in Int /\ Border(b, j) \in Int
        <5>1. /\ Retrieve(b, p).id = Border(b, p)
              /\ Retrieve(b, p).num = Border(b, p + 1) - Border(b, p)
              /\ Retrieve(b, p).at = Border(b, p) + b.base - b.start
              /\ Border(b, p) \in Int /\ Border(b, p + 1) \in Int
          BY ONLY <4>1, <4>2, <4>4, SoundFields
        <5> QED
          BY ONLY <4>1, <4>4, <5>1 DEF Retrieve
      <4>6. /\ b.infos[j].id + b.infos[j].num = Border(b, j)
            /\ b.infos[j].at + b.infos[j].num = Border(b, j) + b.base - s
        BY ONLY <4>3, <4>5
      <4>7. CASE j < N
        <5>1. j \in 0 .. N - 1
          BY ONLY <4>3, <4>4, <4>7
        <5>2. Retrieve(b, j).id = Border(b, j) /\ Retrieve(b, j).at = Border(b, j) + b.base - b.start
          BY ONLY <4>1, <4>2, <5>1, SoundFields
        <5> QED
          BY ONLY <4>1, <4>6, <4>7, <5>2 DEF Retrieve, End
      <4>8. CASE ~(j < N)
        <5>1. j = N
          BY ONLY <4>3, <4>4, <4>8
        <5>2. Border(b, j) = b.start + b.num /\ Border(b, j) + b.base - s = Len(b.mem)
          BY ONLY <4>1, <4>3, <5>1
        <5> QED
          BY ONLY <4>1, <4>6, <4>8, <5>2 DEF End
      <4> QED
        BY ONLY <4>7, <4>8
    <3> QED
      BY ONLY <3>2, <3>3 DEF BuffersContiguous
  <2> QED
    BY <2>1, <2>2 DEF FramesInv, SoundCis
<1> QED
  BY <1>1, FramesInvariant, PTL

\* The read pointer of the read buffer is where its position in the list of infos says,
\* and no call asks for an info where there is none.
THEOREM ReadPositionsCorrect ==
    ASSUME CarefulCaller
    PROVE  Spec => []ReadPositionsAgree
<1>1. FramesInv => ReadPositionsAgree
  <2> SUFFICES ASSUME FramesInv PROVE ReadPositionsAgree
    OBVIOUS
  <2>1. CASE Empty(cbm)
    BY ONLY <2>1 DEF Empty, ReadPositionsAgree
  <2>2. CASE SoundManager(cbm, resets)
    <3>1. PICK b : b = R(cbm)
      OBVIOUS
    <3>2. Sound(b, resets) /\ cbm.null = FALSE
      BY <2>2, <3>1, Edges DEF SoundManager, Chain
    <3>3. /\ b.pos \in 0 .. Len(b.infos) /\ Len(b.infos) \in Nat
          /\ b.ptr = b.base + (RFrameId(b) - b.start)
          /\ RFrameId(b) = Border(b, b.pos) /\ Len(b.mem) = b.base + b.num
          /\ Border(b, Len(b.infos)) = b.start + b.num
          /\ b.start \in Nat /\ b.num \in Nat /\ b.base \in Nat
          /\ (Valid(b, b.pos) <=> b.pos < Len(b.infos))
          /\ RFrameId(b) \in Int
      BY ONLY <3>2, SoundFields
    <3>4. b.ptr = IF Valid(b, b.pos) THEN Retrieve(b, b.pos).at ELSE Len(b.mem)
      <4>1. CASE b.pos < Len(b.infos)
        <5>1. b.pos \in 0 .. Len(b.infos) - 1
          BY ONLY <3>3, <4>1
        <5>2. Retrieve(b, b.pos).at = Border(b, b.pos) + b.base - b.start
          BY ONLY <3>2, <5>1, SoundFields
        <5> QED
          BY ONLY <3>3, <4>1, <5>2
      <4>2. CASE ~(b.pos < Len(b.infos))
        <5>1. b.pos = Len(b.infos)
          BY ONLY <3>3, <4>2
        <5> QED
          BY ONLY <3>3, <4>2, <5>1
      <4> QED
        BY ONLY <4>1, <4>2
    <3> QED
      BY ONLY <3>1, <3>2, <3>4 DEF ReadPositionsAgree
  <2> QED
    BY <2>1, <2>2 DEF FramesInv, SoundCis
<1> QED
  BY <1>1, FramesInvariant, PTL

\* Every frame from start_frame on that was compressed can be found: a seek of the
\* compressor ends at it.
THEOREM WindowReached ==
    ASSUME CarefulCaller
    PROVE  Spec => []WindowKept
<1>1. FramesInv => WindowKept
  <2> SUFFICES ASSUME FramesInv, NEW f \in startFrame .. cbm.wid - 1
               PROVE  HasFrame(DeviceSeek(cbm, f)) /\ NextFrame(DeviceSeek(cbm, f)) = Frame(f)
    BY DEF WindowKept
  <2>1. /\ SoundCis(cbm, resets) /\ Window(cbm, startFrame) /\ startFrame \in Nat
        /\ cbm.wid \in Nat
    BY FramesThere
  <2>2. f \in Nat /\ startFrame <= f /\ f <= cbm.wid /\ f < cbm.wid
    BY ONLY <2>1, f \in startFrame .. cbm.wid - 1
  <2>3. PICK d : d = DeviceSeek(cbm, f)
    OBVIOUS
  <2>4. HasFrame(d) /\ NextFrame(d) = <<resets, f>>
    BY ONLY <2>1, <2>2, <2>3, WindowSeek
  <2> QED
    BY ONLY <2>3, <2>4 DEF Frame
<1> QED
  BY <1>1, FramesInvariant, PTL
=============================================================================
