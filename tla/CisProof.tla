------------------------------- MODULE CisProof -------------------------------
(***************************************************************************)
(* Theorems about Cis that hold in every order of calls, whatever the      *)
(* caller waits for: the buffers a manager points to exist, and the two    *)
(* views of the sequence count the same frames.                            *)
(*                                                                         *)
(* Nearly every lemma says what one method returns, from the methods of a  *)
(* buffer up to those of the manager and of the compressor.  A manager     *)
(* that reads, seeks or drops frames keeps write_frame_id and the lock of  *)
(* the write buffer (KeptType); one that gets frames counts them           *)
(* (CountsMore).                                                           *)
(***************************************************************************)
EXTENDS Cis, FiniteSetTheorems, SequenceTheorems, WellFoundedInduction, TLAPS

\* A set of natural numbers has a least one; the pairs of a smaller and a larger
\* number are what the theorem of the library is about.
Smaller == {p \in Nat \X Nat : p[1] < p[2]}

LEMMA LeastNat ==
    ASSUME NEW T, T \subseteq Nat, T # {}
    PROVE  \E n \in T : \A m \in T : n <= m
<1>1. Smaller = OpToRel(<, Nat)
  BY Zenon DEF OpToRel, Smaller
<1>2. IsWellFoundedOn(Smaller, Nat)
  BY ONLY <1>1, NatLessThanWellFounded, Zenon
<1>3. \E x \in T : \A y \in T : ~ (<<y, x>> \in Smaller)
  BY ONLY <1>2, WFMin, T \subseteq Nat, T # {}
<1>4. PICK x \in T : \A y \in T : <<y, x>> \notin Smaller
  BY <1>3
<1>5. ASSUME NEW y \in T PROVE x <= y
  <2>1. x \in Nat /\ y \in Nat
    OBVIOUS
  <2>2. ~ (y < x)
    BY <1>4, <2>1 DEF Smaller
  <2> QED
    BY <2>1, <2>2
<1> QED
  BY <1>5

LEMMA MinOfNats ==
    ASSUME NEW T, T \subseteq Nat, T # {}
    PROVE  Min(T) \in T /\ \A m \in T : Min(T) <= m
  BY LeastNat, Zenon DEF Min

LEMMA MaxOfNats ==
    ASSUME NEW b \in Nat, NEW T, T \subseteq 0 .. b, T # {}
    PROVE  Max(T) \in T /\ \A m \in T : Max(T) >= m
<1> DEFINE U == {b - m : m \in T}
<1>1. U \subseteq Nat /\ U # {}
  <2>1. ASSUME NEW m \in T PROVE b - m \in Nat
    <3>1. m \in 0 .. b
      OBVIOUS
    <3> QED
      BY <3>1
  <2> QED
    BY <2>1
<1>2. PICK u \in U : \A v \in U : u <= v
  BY <1>1, LeastNat
<1>3. PICK n \in T : u = b - n
  BY <1>2
<1>4. ASSUME NEW m \in T PROVE n >= m
  <2>1. u <= b - m
    BY <1>2
  <2> QED
    BY <1>3, <2>1
<1> QED
  BY <1>4, Zenon DEF Max

-----------------------------------------------------------------------------
\* What a decompression of every frame of n makes of the manager: a recursion over
\* the frames is defined for each number of them, ...
Decompressing(c, n, g) ==
    /\ g[0] = c
    /\ \A k \in 1 .. n : g[k] = DecompressedFrame(g[k - 1])

Burning(c, n, g) == g = [k \in 0 .. n |-> IF k = 0 THEN c ELSE DecompressedFrame(g[k - 1])]

LEMMA BurningExists ==
    ASSUME NEW c, NEW n \in Nat
    PROVE  \E g : Burning(c, n, g)
<1> DEFINE T == {m \in Nat : ~ \E g : Burning(c, m, g)}
<1>1. 0 \notin T
  <2>1. Burning(c, 0, [k \in 0 .. 0 |-> c])
    BY DEF Burning
  <2> QED
    BY <2>1
<1>2. ASSUME NEW m \in Nat, m \notin T PROVE m + 1 \notin T
  <2>1. PICK g : Burning(c, m, g)
    BY <1>2
  <2> DEFINE h == [k \in 0 .. m + 1 |-> IF k = 0 THEN c ELSE DecompressedFrame(g[k - 1])]
  <2>2. ASSUME NEW k \in 0 .. m + 1, k # 0 PROVE h[k - 1] = g[k - 1]
    <3>1. k - 1 \in 0 .. m /\ k - 1 \in 0 .. m + 1
      BY <2>2
    <3>2. h[k - 1] = IF k - 1 = 0 THEN c ELSE DecompressedFrame(g[k - 1 - 1])
      BY <3>1, Zenon
    <3>3. g[k - 1] = IF k - 1 = 0 THEN c ELSE DecompressedFrame(g[k - 1 - 1])
      BY <2>1, <3>1, Zenon DEF Burning
    <3> QED
      BY <3>2, <3>3, Zenon
  <2>3. h = [k \in 0 .. m + 1 |-> IF k = 0 THEN c ELSE DecompressedFrame(h[k - 1])]
    BY <2>2, Zenon
  <2> QED
    BY <2>3, Zenon DEF Burning
<1>3. T = {}
  <2>1. SUFFICES ASSUME T # {} PROVE FALSE
    OBVIOUS
  <2>2. PICK x \in T : \A y \in T : x <= y
    BY <2>1, LeastNat
  <2>3. x \in Nat /\ x # 0
    BY <1>1
  <2>4. x - 1 \in Nat /\ x - 1 \notin T
    BY <2>2, <2>3
  <2>5. x - 1 + 1 \notin T
    BY <2>4, <1>2
  <2> QED
    BY <2>3, <2>5
<1> QED
  BY <1>3

LEMMA BurnSteps ==
    ASSUME NEW c, NEW n \in Nat
    PROVE  \E g : Decompressing(c, n, g) /\ Burn(c, n) = g[n]
<1> DEFINE burnt == CHOOSE g : Burning(c, n, g)
<1>1. Burning(c, n, burnt)
  BY BurningExists, Zenon
<1>2. Burn(c, n) = burnt[n]
  BY Zenon DEF Burn, Burning
<1>3. Decompressing(c, n, burnt)
  <2> HIDE DEF burnt
  <2>1. burnt[0] = c
    BY <1>1 DEF Burning
  <2>2. ASSUME NEW k \in 1 .. n PROVE burnt[k] = DecompressedFrame(burnt[k - 1])
    <3>1. k \in 0 .. n /\ k # 0
      OBVIOUS
    <3> QED
      BY <1>1, <3>1, Zenon DEF Burning
  <2> QED
    BY <2>1, <2>2 DEF Decompressing
<1> QED
  BY <1>2, <1>3


-----------------------------------------------------------------------------
\* What the records are whatever the caller does: the read position of a buffer is
\* in its list of infos, and the three buffers of the manager are in its list.
FrameIds == Nat \X Nat
Infos == [at : Int, num : Int, id : Int]
BufferRecords ==
    [mem : Seq(FrameIds), base : Int, size : Int, start : Int, num : Int,
     infos : Seq(Infos), pos : Int, ptr : Int]
Buffers == {b \in BufferRecords : b.pos \in -1 .. Len(b.infos)}

Managers ==
    [bufs : Seq(Buffers), s : Nat, r : Nat, w : Nat, wid : Nat, off : Int, next : Int,
     locked : BOOLEAN, null : BOOLEAN]

Pointers(c) ==
    \/ c.bufs = <<>> /\ c.s = NoBuffer /\ c.r = NoBuffer /\ c.w = NoBuffer
    \/ c.bufs # <<>> /\ c.s = 1 /\ c.r \in 1 .. Len(c.bufs) /\ c.w = Len(c.bufs)

Manager(c) == c \in Managers /\ Pointers(c)

LEMMA BufferFields ==
    ASSUME NEW b \in Buffers
    PROVE  /\ b \in BufferRecords
           /\ b.mem \in Seq(FrameIds) /\ b.base \in Int /\ b.size \in Int
           /\ b.start \in Int /\ b.num \in Int /\ b.infos \in Seq(Infos)
           /\ b.pos \in -1 .. Len(b.infos) /\ b.ptr \in Int
           /\ Len(b.infos) \in Nat /\ Len(b.mem) \in Nat
           /\ \A p \in 0 .. Len(b.infos) - 1 :
                 /\ Retrieve(b, p) = b.infos[p + 1] /\ Retrieve(b, p) \in Infos
                 /\ Retrieve(b, p).at \in Int /\ Retrieve(b, p).num \in Int
                 /\ Retrieve(b, p).id \in Int
<1>1. b \in BufferRecords /\ b.pos \in -1 .. Len(b.infos)
  BY DEF Buffers
<1>2. /\ b.mem \in Seq(FrameIds) /\ b.base \in Int /\ b.size \in Int
      /\ b.start \in Int /\ b.num \in Int /\ b.infos \in Seq(Infos) /\ b.ptr \in Int
  BY <1>1 DEF BufferRecords
<1>3. Len(b.infos) \in Nat /\ Len(b.mem) \in Nat
  BY <1>2, LenProperties
<1>4. ASSUME NEW p \in 0 .. Len(b.infos) - 1
      PROVE  b.infos[p + 1] \in Infos
  BY <1>2, <1>3, ElementOfSeq
<1>5. ASSUME NEW p \in 0 .. Len(b.infos) - 1
      PROVE  Retrieve(b, p).at \in Int /\ Retrieve(b, p).num \in Int /\ Retrieve(b, p).id \in Int
  BY <1>4 DEF Retrieve, Infos
<1> QED
  BY <1>1, <1>2, <1>3, <1>4, <1>5 DEF Retrieve

\* A buffer with another read position.
Placed(b, pos, ptr) == [b EXCEPT !.pos = pos, !.ptr = ptr]

LEMMA PlacedBuffer ==
    ASSUME NEW b \in Buffers, NEW pos \in -1 .. Len(b.infos), NEW ptr \in Int
    PROVE  /\ Placed(b, pos, ptr) \in Buffers
           /\ Placed(b, pos, ptr).pos = pos /\ Placed(b, pos, ptr).ptr = ptr
           /\ Placed(b, pos, ptr).mem = b.mem /\ Placed(b, pos, ptr).base = b.base
           /\ Placed(b, pos, ptr).start = b.start /\ Placed(b, pos, ptr).num = b.num
           /\ Placed(b, pos, ptr).infos = b.infos /\ Placed(b, pos, ptr).size = b.size
<1>1. b \in BufferRecords
  BY DEF Buffers
<1>2. Len(b.infos) \in Nat
  BY BufferFields
<1>3. pos \in Int
  BY <1>2
<1> QED
  BY <1>1, <1>3 DEF Placed, Buffers, BufferRecords

LEMMA ReadPositions ==
    ASSUME NEW b \in Buffers
    PROVE  /\ ReRead(b) = Placed(b, 0, b.base) /\ UnRead(b) = Placed(b, End(b), Len(b.mem))
           /\ ReRead(b) \in Buffers /\ UnRead(b) \in Buffers /\ RFrameId(b) \in Int
<1>1. ReRead(b) = Placed(b, 0, b.base) /\ UnRead(b) = Placed(b, End(b), Len(b.mem))
  BY DEF ReRead, UnRead, Placed, Buffers, BufferRecords
<1>2. ReRead(b) \in Buffers /\ UnRead(b) \in Buffers
  <2>1. b.base \in Int /\ Len(b.mem) \in Int /\ 0 \in -1 .. Len(b.infos)
        /\ Len(b.infos) \in -1 .. Len(b.infos)
    BY BufferFields
  <2>2. Placed(b, 0, b.base) \in Buffers /\ Placed(b, Len(b.infos), Len(b.mem)) \in Buffers
    BY <2>1, PlacedBuffer
  <2> QED
    BY <1>1, <2>2 DEF End
<1>3. RFrameId(b) \in Int
  BY BufferFields DEF RFrameId, Valid, End, UnknownId
<1> QED
  BY <1>1, <1>2, <1>3

SoughtType(x) == x.buf \in Buffers /\ x.burn \in Int

LEMMA SeekToType ==
    ASSUME NEW b \in Buffers, NEW f \in Int
    PROVE  SoughtType(SeekTo(b, f))
<1>1. ASSUME NEW c \in Buffers, NEW n \in Int PROVE SoughtType(Sought(c, n))
  BY <1>1 DEF SoughtType, Sought
<1>2. ASSUME NEW c \in Buffers, NEW p \in 0 .. Len(c.infos) - 1, NEW n \in Int
      PROVE  SoughtType(AtInfo(c, p, n))
  <2>1. /\ p \in -1 .. Len(c.infos) /\ Retrieve(c, p).at \in Int
        /\ Placed(c, p, Retrieve(c, p).at) \in Buffers
    <3>1. p \in -1 .. Len(c.infos) /\ Retrieve(c, p).at \in Int
      BY BufferFields
    <3> QED
      BY <3>1, PlacedBuffer
  <2> QED
    BY <1>1, <2>1 DEF AtInfo, Placed
<1>3. ASSUME NEW c \in Buffers PROVE f - (c.start + c.num) \in Int /\ UnRead(c) \in Buffers
  <2>1. c.start \in Int /\ c.num \in Int
    BY BufferFields
  <2> QED
    BY <2>1, ReadPositions
<1>4. ASSUME NEW c \in Buffers, NEW p \in 0 .. Len(c.infos) - 1 PROVE ToBurn(c, p, f) \in Int
  BY BufferFields DEF ToBurn
<1>5. ASSUME NEW c \in Buffers, c.pos # NoPosition PROVE SoughtType(SeekForwardTo(c, f))
  <2> DEFINE here == {p \in c.pos .. End(c) - 1 : f < Retrieve(c, p).id + Retrieve(c, p).num}
  <2>1. c.pos \in Nat /\ Len(c.infos) \in Nat
    BY <1>5, BufferFields DEF NoPosition
  <2>2. ASSUME here # {} PROVE Min(here) \in 0 .. Len(c.infos) - 1
    <3>1. here \subseteq Nat
      BY <2>1 DEF End
    <3>2. Min(here) \in here
      BY <2>2, <3>1, MinOfNats
    <3> QED
      BY <2>1, <3>2 DEF End
  <2>3. here # {} => SoughtType(AtInfo(c, Min(here), ToBurn(c, Min(here), f)))
    BY <2>2, <1>2, <1>4
  <2>4. SoughtType(Sought(c, f - (c.start + c.num))) /\ SoughtType(Sought(UnRead(c), f - (c.start + c.num)))
    BY <1>1, <1>3
  <2> QED
    BY <2>3, <2>4, Zenon DEF SeekForwardTo
<1>6. ASSUME NEW c \in Buffers PROVE SoughtType(SeekBackwardTo(c, f))
  <2> DEFINE last == IF c.pos = End(c) THEN c.pos - 1 ELSE c.pos
             T == {q \in 0 .. last : q = 0 \/ f >= Retrieve(c, q).id}
             n == IF f >= Retrieve(c, Max(T)).id THEN ToBurn(c, Max(T), f) ELSE -1
  <2>1. last \in Int /\ last < Len(c.infos)
    BY <1>6, BufferFields DEF End
  <2>2. ASSUME ~(last < 0) PROVE SoughtType(AtInfo(c, Max(T), n))
    <3>1. T \subseteq 0 .. last /\ T # {} /\ last \in Nat
      BY <2>1, <2>2
    <3>2. Max(T) \in 0 .. last
      <4> HIDE DEF T, last
      <4> QED
        BY <3>1, MaxOfNats
    <3>3. Max(T) \in 0 .. Len(c.infos) - 1
      BY <2>1, <3>1, <3>2, BufferFields
    <3>4. n \in Int
      BY <3>3, <1>4
    <3> QED
      BY <3>3, <3>4, <1>2
  <2>3. SoughtType(Sought(c, -1))
    BY <1>1
  <2> QED
    BY <2>2, <2>3, Zenon DEF SeekBackwardTo
<1>7. /\ RFrameId(b) \in Int /\ ReRead(b) \in Buffers /\ UnRead(b) \in Buffers
      /\ ReRead(b).pos # NoPosition /\ b.start \in Int
  <2>1. ReRead(b).pos = 0
    <3>1. 0 \in -1 .. Len(b.infos) /\ b.base \in Int
      BY BufferFields
    <3>2. Placed(b, 0, b.base).pos = 0
      BY <3>1, PlacedBuffer
    <3> QED
      BY <3>2, ReadPositions
  <2> QED
    BY <2>1, BufferFields, ReadPositions DEF NoPosition
<1>8. RFrameId(b) # UnknownId => b.pos # NoPosition
  BY DEF RFrameId
<1> DEFINE id == RFrameId(b)
<1>9. \/ f = id
      \/ f # id /\ f = b.start
      \/ f # id /\ (f < b.start \/ (f > b.start /\ id = UnknownId))
      \/ f > b.start /\ id # UnknownId /\ f > id
      \/ f > b.start /\ f < id
  <2>1. ASSUME NEW i \in Int, NEW start \in Int, NEW unknown \in Int
        PROVE  \/ f = i
               \/ f # i /\ f = start
               \/ f # i /\ (f < start \/ (f > start /\ i = unknown))
               \/ f > start /\ i # unknown /\ f > i
               \/ f > start /\ f < i
    OBVIOUS
  <2> QED
    BY <1>7, <2>1 DEF UnknownId
<1>10. SoughtType(SeekFromId(b, id, f))
  <2> HIDE DEF id
  <2>1. SoughtType(Sought(b, 0)) /\ SoughtType(Sought(ReRead(b), 0)) /\ SoughtType(Sought(b, -1))
    BY <1>1, <1>7
  <2>2. id # UnknownId => SoughtType(SeekForwardTo(b, f))
    BY <1>5, <1>8 DEF id
  <2>3. /\ SoughtType(SeekForwardTo(ReRead(b), f)) /\ SoughtType(SeekBackwardTo(b, f))
        /\ SoughtType(SeekBackwardTo(UnRead(b), f))
    BY <1>5, <1>6, <1>7
  <2> QED
    BY <1>9, <2>1, <2>2, <2>3, Zenon DEF SeekFromId
<1> QED
  BY <1>10 DEF SeekTo

-----------------------------------------------------------------------------
\* A sequence with two elements in the place of one, and one without a prefix.
LEMMA Part ==
    ASSUME NEW T, NEW s \in Seq(T), NEW m \in 1 .. Len(s) + 1, NEW n \in 0 .. Len(s),
           m <= n + 1
    PROVE  /\ SubSeq(s, m, n) \in Seq(T) /\ Len(SubSeq(s, m, n)) = n - m + 1
           /\ \A i \in 1 .. n - m + 1 : SubSeq(s, m, n)[i] = s[m - 1 + i]
<1>1. Len(s) \in Nat /\ m \in Int /\ n \in Int /\ \A i \in m .. n : s[i] \in T
  BY LenProperties, ElementOfSeq
<1>2. /\ SubSeq(s, m, n) \in Seq(T) /\ Len(SubSeq(s, m, n)) = IF m <= n THEN n - m + 1 ELSE 0
      /\ \A i \in 1 .. n - m + 1 : SubSeq(s, m, n)[i] = s[m + i - 1]
  BY ONLY <1>1, SubSeqProperties
<1>3. ASSUME NEW i \in 1 .. n - m + 1 PROVE m + i - 1 = m - 1 + i
  BY <1>1
<1>4. (IF m <= n THEN n - m + 1 ELSE 0) = n - m + 1
  BY <1>1
<1> QED
  BY ONLY <1>2, <1>3, <1>4

WithTwo(s, p, x, y) == SubSeq(s, 1, p) \o <<x, y>> \o SubSeq(s, p + 2, Len(s))

\* What that sequence is: x and y are where s has its element p + 1.
Doubled(t, T, s, p, x, y) ==
    /\ t \in Seq(T) /\ Len(t) = Len(s) + 1
    /\ \A k \in 1 .. Len(s) + 1 :
          t[k] = IF k <= p THEN s[k] ELSE IF k = p + 1 THEN x
                 ELSE IF k = p + 2 THEN y ELSE s[k - 1]

LEMMA Replaced ==
    ASSUME NEW T, NEW s \in Seq(T), NEW p \in 0 .. Len(s) - 1, NEW x \in T, NEW y \in T
    PROVE  Doubled(WithTwo(s, p, x, y), T, s, p, x, y)
<1> DEFINE left == SubSeq(s, 1, p)
           right == SubSeq(s, p + 2, Len(s))
           two == <<x, y>>
           lt == left \o two
           t == lt \o right
           n == Len(s)
<1>1. n \in Nat /\ p \in 0 .. n - 1
  BY LenProperties
<1>2. left \in Seq(T) /\ Len(left) = p /\ \A i \in 1 .. p : left[i] = s[i]
  <2>1. /\ left \in Seq(T) /\ Len(left) = p - 1 + 1
        /\ \A i \in 1 .. p - 1 + 1 : left[i] = s[1 - 1 + i]
    BY <1>1, Part
  <2> HIDE DEF left
  <2> QED
    BY <1>1, <2>1
<1>3. /\ right \in Seq(T) /\ Len(right) = n - p - 1
      /\ \A i \in 1 .. n - p - 1 : right[i] = s[p + 1 + i]
  <2>1. /\ right \in Seq(T) /\ Len(right) = n - (p + 2) + 1
        /\ \A i \in 1 .. n - (p + 2) + 1 : right[i] = s[p + 2 - 1 + i]
    BY <1>1, Part
  <2> HIDE DEF right
  <2> QED
    BY <1>1, <2>1
<1>4. two \in Seq(T) /\ Len(two) = 2 /\ two[1] = x /\ two[2] = y
  OBVIOUS
<1> HIDE DEF left, right, two
<1>5. /\ lt \in Seq(T) /\ Len(lt) = p + 2
      /\ \A i \in 1 .. p + 2 : lt[i] = IF i <= p THEN left[i] ELSE two[i - p]
  <2>1. /\ lt \in Seq(T) /\ Len(lt) = Len(left) + Len(two)
        /\ \A i \in 1 .. Len(left) + Len(two) :
              lt[i] = IF i <= Len(left) THEN left[i] ELSE two[i - Len(left)]
    BY ONLY <1>2, <1>4, ConcatProperties
  <2> HIDE DEF lt
  <2> QED
    BY ONLY <2>1, <1>2, <1>4
<1> HIDE DEF lt
<1>6. /\ t \in Seq(T) /\ Len(t) = (p + 2) + (n - p - 1)
      /\ \A i \in 1 .. (p + 2) + (n - p - 1) :
            t[i] = IF i <= p + 2 THEN lt[i] ELSE right[i - (p + 2)]
  <2>1. /\ t \in Seq(T) /\ Len(t) = Len(lt) + Len(right)
        /\ \A i \in 1 .. Len(lt) + Len(right) :
              t[i] = IF i <= Len(lt) THEN lt[i] ELSE right[i - Len(lt)]
    BY ONLY <1>3, <1>5, ConcatProperties
  <2> HIDE DEF t
  <2> QED
    BY ONLY <2>1, <1>3, <1>5
<1> HIDE DEF t, n
<1>7. (p + 2) + (n - p - 1) = n + 1
  BY <1>1
<1>8. ASSUME NEW k \in 1 .. n + 1
      PROVE  t[k] = IF k <= p THEN s[k] ELSE IF k = p + 1 THEN x
                    ELSE IF k = p + 2 THEN y ELSE s[k - 1]
  <2>1. t[k] = IF k <= p + 2 THEN lt[k] ELSE right[k - (p + 2)]
    BY ONLY <1>6, <1>7, k \in 1 .. n + 1
  <2>2. CASE k <= p
    BY ONLY <1>1, <1>2, <1>5, <2>1, <2>2, k \in 1 .. n + 1
  <2>3. CASE k = p + 1
    <3>1. lt[k] = two[1]
      <4>1. k \in 1 .. p + 2 /\ ~(k <= p) /\ k - p = 1
        BY ONLY <1>1, <2>3
      <4> QED
        BY ONLY <1>5, <4>1
    <3> QED
      BY ONLY <1>1, <1>4, <2>1, <2>3, <3>1
  <2>4. CASE k = p + 2
    <3>1. lt[k] = two[2]
      <4>1. k \in 1 .. p + 2 /\ ~(k <= p) /\ k - p = 2
        BY ONLY <1>1, <2>4
      <4> QED
        BY ONLY <1>5, <4>1
    <3> QED
      BY ONLY <1>1, <1>4, <2>1, <2>4, <3>1
  <2>5. CASE k > p + 2
    <3>1. k - (p + 2) \in 1 .. n - p - 1 /\ p + 1 + (k - (p + 2)) = k - 1
      BY ONLY <1>1, <2>5, k \in 1 .. n + 1
    <3>2. right[k - (p + 2)] = s[k - 1]
      BY ONLY <1>3, <3>1
    <3> QED
      BY ONLY <1>1, <2>1, <2>5, <3>2, k \in 1 .. n + 1
  <2>6. k \in Int /\ p \in Int
    BY <1>1
  <2>7. k <= p \/ k = p + 1 \/ k = p + 2 \/ k > p + 2
    BY <2>6
  <2> QED
    BY ONLY <2>2, <2>3, <2>4, <2>5, <2>7
<1>9. t \in Seq(T) /\ Len(t) = n + 1
  BY ONLY <1>6, <1>7
<1>10. Doubled(t, T, s, p, x, y)
  BY ONLY <1>8, <1>9 DEF Doubled, n
<1>11. t = WithTwo(s, p, x, y)
  BY ONLY TRUE DEF t, lt, left, right, two, WithTwo
<1> QED
  BY ONLY <1>10, <1>11

LEMMA Dropped ==
    ASSUME NEW T, NEW s \in Seq(T), NEW p \in 0 .. Len(s)
    PROVE  LET t == SubSeq(s, p + 1, Len(s)) IN
           /\ t \in Seq(T) /\ Len(t) = Len(s) - p
           /\ \A k \in 1 .. Len(s) - p : t[k] = s[k + p]
<1> DEFINE t == SubSeq(s, p + 1, Len(s))
<1>1. Len(s) \in Nat
  BY LenProperties
<1>2. /\ t \in Seq(T) /\ Len(t) = Len(s) - (p + 1) + 1
      /\ \A i \in 1 .. Len(s) - (p + 1) + 1 : t[i] = s[p + 1 - 1 + i]
  BY <1>1, Part
<1> HIDE DEF t
<1>3. t \in Seq(T) /\ Len(t) = Len(s) - p /\ \A k \in 1 .. Len(s) - p : t[k] = s[k + p]
  BY <1>1, <1>2
<1> QED
  BY <1>3 DEF t

LEMMA SplitType ==
    ASSUME NEW b \in Buffers, Valid(b, b.pos)
    PROVE  LET i == Retrieve(b, b.pos)
               t == Split(b).infos
           IN /\ Split(b) \in Buffers
              /\ Split(b).mem = b.mem /\ Split(b).base = b.base /\ Split(b).size = b.size
              /\ Split(b).start = b.start /\ Split(b).num = b.num
              /\ Split(b).pos = b.pos + 1 /\ Split(b).ptr = i.at + 1
              /\ Len(t) = Len(b.infos) + 1
              /\ \A k \in 1 .. Len(b.infos) + 1 :
                    t[k] = IF k <= b.pos THEN b.infos[k]
                           ELSE IF k = b.pos + 1 THEN Info(i.at, 1, i.id)
                           ELSE IF k = b.pos + 2 THEN Info(i.at + 1, i.num - 1, i.id + 1)
                           ELSE b.infos[k - 1]
<1> DEFINE i == Retrieve(b, b.pos)
<1>1. /\ b.pos \in 0 .. Len(b.infos) - 1 /\ b.infos \in Seq(Infos) /\ Len(b.infos) \in Nat
      /\ i.at \in Int /\ i.num \in Int /\ i.id \in Int /\ b \in BufferRecords
  BY BufferFields DEF Valid, End
<1>2. PICK x, y : x = Info(i.at, 1, i.id) /\ y = Info(i.at + 1, i.num - 1, i.id + 1)
  OBVIOUS
<1>3. PICK p, infos, at : p = b.pos /\ infos = b.infos /\ at = i.at + 1
  OBVIOUS
<1> DEFINE t == WithTwo(infos, p, x, y)
<1>4. x \in Infos /\ y \in Infos /\ at \in Int
  <2>1. PICK f, n, d : f = i.at /\ n = i.num /\ d = i.id
    OBVIOUS
  <2>2. f \in Int /\ n \in Int /\ d \in Int
    BY ONLY <1>1, <2>1
  <2>3. x = Info(f, 1, d) /\ y = Info(f + 1, n - 1, d + 1) /\ at = f + 1
    BY ONLY <1>2, <1>3, <2>1
  <2> QED
    BY ONLY <2>2, <2>3 DEF Info, Infos
<1>5. infos \in Seq(Infos) /\ p \in 0 .. Len(infos) - 1
  BY <1>1, <1>3
<1>6. /\ t \in Seq(Infos) /\ Len(t) = Len(infos) + 1
      /\ \A k \in 1 .. Len(infos) + 1 :
            t[k] = IF k <= p THEN infos[k] ELSE IF k = p + 1 THEN x
                   ELSE IF k = p + 2 THEN y ELSE infos[k - 1]
  <2>1. Doubled(WithTwo(infos, p, x, y), Infos, infos, p, x, y)
    BY ONLY <1>4, <1>5, Replaced, Zenon
  <2> QED
    BY ONLY <2>1 DEF Doubled
<1>7. Split(b) = [b EXCEPT !.infos = t, !.pos = p + 1, !.ptr = at]
  BY ONLY <1>1, <1>2, <1>3, Zenon DEF Split, BufferRecords, WithTwo
<1> HIDE DEF t, i
<1>8. p + 1 \in Int
  BY <1>1, <1>3
<1>9. /\ Split(b) \in BufferRecords
      /\ Split(b).mem = b.mem /\ Split(b).base = b.base /\ Split(b).size = b.size
      /\ Split(b).start = b.start /\ Split(b).num = b.num
      /\ Split(b).infos = t /\ Split(b).pos = p + 1 /\ Split(b).ptr = at
  BY ONLY <1>1, <1>4, <1>6, <1>7, <1>8 DEF BufferRecords
<1>10. Split(b) \in Buffers
  BY <1>1, <1>3, <1>6, <1>9 DEF Buffers
<1> QED
  BY ONLY <1>2, <1>3, <1>6, <1>9, <1>10 DEF i

LEMMA AdvanceType ==
    ASSUME NEW b \in Buffers, Valid(b, b.pos)
    PROVE  LET d == Advance(b) IN
           /\ d \in Buffers
           /\ d.mem = b.mem /\ d.base = b.base /\ d.size = b.size /\ d.start = b.start
           /\ d.infos = b.infos /\ d.pos = b.pos + 1
           /\ d.num = IF Valid(b, b.pos + 1) THEN b.num
                      ELSE Retrieve(b, b.pos).id - b.start + 1
           /\ d.ptr = IF Valid(b, b.pos + 1) THEN Retrieve(b, b.pos + 1).at ELSE Len(b.mem)
<1>1. /\ b.pos \in 0 .. Len(b.infos) - 1 /\ Len(b.infos) \in Nat /\ b \in BufferRecords
      /\ Retrieve(b, b.pos).id \in Int /\ b.start \in Int /\ Len(b.mem) \in Int
      /\ b.num \in Int
  BY BufferFields DEF Valid, End
<1>2. PICK num, at, p :
        /\ num = IF Valid(b, b.pos + 1) THEN b.num ELSE Retrieve(b, b.pos).id - b.start + 1
        /\ at = IF Valid(b, b.pos + 1) THEN Retrieve(b, b.pos + 1).at ELSE Len(b.mem)
        /\ p = b.pos + 1
  OBVIOUS
<1>3. num \in Int /\ at \in Int /\ p \in Int /\ p \in -1 .. Len(b.infos)
  <2>1. Valid(b, b.pos + 1) => Retrieve(b, b.pos + 1).at \in Int
    BY <1>1, BufferFields DEF Valid, End
  <2> QED
    BY <1>1, <1>2, <2>1
<1>4. Advance(b) = [b EXCEPT !.pos = p, !.ptr = at, !.num = num]
  <2>1. CASE Valid(b, b.pos + 1)
    <3>1. Advance(b) = [b EXCEPT !.pos = p, !.ptr = at]
      BY <1>2, <2>1 DEF Advance
    <3>2. num = b.num
      BY <1>2, <2>1
    <3> QED
      BY ONLY <1>1, <3>1, <3>2 DEF BufferRecords
  <2>2. CASE ~Valid(b, b.pos + 1)
    BY ONLY <1>1, <1>2, <2>2, Zenon DEF Advance
  <2> QED
    BY <2>1, <2>2
<1>5. /\ Advance(b) \in BufferRecords
      /\ Advance(b).mem = b.mem /\ Advance(b).base = b.base /\ Advance(b).size = b.size
      /\ Advance(b).start = b.start /\ Advance(b).infos = b.infos
      /\ Advance(b).num = num /\ Advance(b).pos = p /\ Advance(b).ptr = at
  BY ONLY <1>1, <1>3, <1>4 DEF BufferRecords
<1>6. Advance(b) \in Buffers
  BY ONLY <1>3, <1>5 DEF Buffers
<1> QED
  BY ONLY <1>2, <1>5, <1>6

LEMMA DecompressedType ==
    ASSUME NEW b \in Buffers, Valid(b, b.pos)
    PROVE  Decompressed(b) \in Buffers
  BY SplitType, AdvanceType DEF Decompressed

LEMMA AddFramesType ==
    ASSUME NEW b \in Buffers, NEW frames \in Seq(FrameIds), NEW id \in Int
    PROVE  LET d == AddFrames(b, frames, id)
               n == Len(b.infos)
           IN /\ d \in Buffers
              /\ d.base = b.base /\ d.size = b.size /\ d.ptr = b.ptr
              /\ d.mem = b.mem \o frames
              /\ d.num = b.num + Len(frames)
              /\ d.start = IF b.pos = NoPosition THEN id ELSE b.start
              /\ d.pos = IF b.pos = NoPosition THEN 0 ELSE b.pos
              /\ Len(d.infos) = n + 1
              /\ \A k \in 1 .. n : d.infos[k] = b.infos[k]
              /\ d.infos[n + 1] = Info(Len(b.mem), Len(frames), id)
<1>1. /\ b \in BufferRecords /\ b.mem \in Seq(FrameIds) /\ b.infos \in Seq(Infos)
      /\ Len(b.infos) \in Nat /\ Len(b.mem) \in Nat /\ b.num \in Int /\ b.start \in Int
      /\ b.pos \in -1 .. Len(b.infos) /\ Len(frames) \in Nat
  BY BufferFields, LenProperties
<1>2. PICK mem, info, num, start, p :
        /\ mem = b.mem \o frames
        /\ info = Info(Len(b.mem), Len(frames), id)
        /\ num = b.num + Len(frames)
        /\ start = IF b.pos = NoPosition THEN id ELSE b.start
        /\ p = IF b.pos = NoPosition THEN 0 ELSE b.pos
  OBVIOUS
<1>3. PICK infos : infos = Append(b.infos, info)
  OBVIOUS
<1>4. mem \in Seq(FrameIds)
  BY ONLY <1>1, <1>2, ConcatProperties, frames \in Seq(FrameIds)
<1>5. info \in Infos /\ num \in Int /\ start \in Int /\ p \in -1 .. Len(b.infos) /\ p # -1
  BY <1>1, <1>2 DEF Info, Infos, NoPosition
<1>6. /\ infos \in Seq(Infos) /\ Len(infos) = Len(b.infos) + 1
      /\ \A k \in 1 .. Len(b.infos) : infos[k] = b.infos[k]
      /\ infos[Len(b.infos) + 1] = info
  BY ONLY <1>1, <1>3, <1>5, AppendProperties
<1>7. AddFrames(b, frames, id) =
        [b EXCEPT !.mem = mem, !.infos = infos, !.num = num, !.start = start, !.pos = p]
  BY ONLY <1>1, <1>2, <1>3 DEF AddFrames, BufferRecords
<1>8. LET d == AddFrames(b, frames, id) IN
      /\ d \in BufferRecords /\ d.base = b.base /\ d.size = b.size /\ d.ptr = b.ptr
      /\ d.mem = mem /\ d.num = num /\ d.start = start /\ d.pos = p /\ d.infos = infos
  <2>1. p \in Int
    BY <1>1, <1>5
  <2> QED
    BY ONLY <1>1, <1>4, <1>5, <1>6, <1>7, <2>1 DEF BufferRecords
<1>9. AddFrames(b, frames, id) \in Buffers
  <2>1. p \in -1 .. Len(infos)
    BY <1>1, <1>5, <1>6
  <2> QED
    BY ONLY <1>8, <2>1 DEF Buffers
<1> QED
  BY ONLY <1>2, <1>6, <1>8, <1>9

LEMMA NewBufferType ==
    ASSUME NEW size \in Int
    PROVE  NewBuffer(size) \in Buffers /\ NewBuffer(size).pos = NoPosition
  BY DEF NewBuffer, Buffers, BufferRecords, UnknownId, NoPosition

LEMMA UserBufferType ==
    ASSUME NEW frames \in Seq(FrameIds), NEW id \in Int
    PROVE  LET d == UserBuffer(frames, id) IN
           /\ d \in Buffers
           /\ d.mem = frames /\ d.base = 0 /\ d.start = id /\ d.num = Len(frames)
           /\ d.infos = <<Info(0, Len(frames), id)>> /\ d.pos = 0 /\ d.ptr = 0
<1>1. Len(frames) \in Nat
  BY LenProperties
<1>2. PICK info : info = Info(0, Len(frames), id)
  OBVIOUS
<1>3. info \in Infos
  BY <1>1, <1>2 DEF Info, Infos
<1>4. PICK infos : infos = <<info>>
  OBVIOUS
<1>5. infos \in Seq(Infos) /\ Len(infos) = 1
  BY ONLY <1>3, <1>4
<1>6. UserBuffer(frames, id) =
        [mem |-> frames, base |-> 0, size |-> Len(frames), start |-> id,
         num |-> Len(frames), infos |-> infos, pos |-> 0, ptr |-> 0]
  BY <1>2, <1>4 DEF UserBuffer
<1>7. UserBuffer(frames, id) \in BufferRecords
  BY ONLY <1>1, <1>5, <1>6, frames \in Seq(FrameIds), id \in Int DEF BufferRecords
<1>8. UserBuffer(frames, id) \in Buffers
  BY ONLY <1>5, <1>6, <1>7 DEF Buffers
<1> QED
  BY ONLY <1>2, <1>4, <1>6, <1>8

LEMMA StartAtInfoType ==
    ASSUME NEW b \in Buffers, Valid(b, b.pos)
    PROVE  LET d == StartAtInfo(b)
               i == Retrieve(b, b.pos)
           IN /\ d \in Buffers
              /\ d.mem = b.mem /\ d.base = i.at /\ d.start = i.id
              /\ d.num = b.num - (i.id - b.start) /\ d.ptr = b.ptr /\ d.pos = 0
              /\ Len(d.infos) = Len(b.infos) - b.pos
              /\ \A k \in 1 .. Len(b.infos) - b.pos : d.infos[k] = b.infos[k + b.pos]
<1> DEFINE i == Retrieve(b, b.pos)
<1>1. /\ b.pos \in 0 .. Len(b.infos) - 1 /\ b.infos \in Seq(Infos) /\ Len(b.infos) \in Nat
      /\ i.at \in Int /\ i.id \in Int /\ b \in BufferRecords
      /\ b.num \in Int /\ b.start \in Int /\ b.base \in Int /\ b.size \in Int
  BY BufferFields DEF Valid, End
<1>2. PICK at, id, num, size : /\ at = i.at /\ id = i.id /\ num = b.num - (i.id - b.start)
                               /\ size = b.size - (i.at - b.base)
  OBVIOUS
<1>3. at \in Int /\ id \in Int /\ num \in Int /\ size \in Int
  BY <1>1, <1>2
<1>4. PICK infos : infos = SubSeq(b.infos, b.pos + 1, Len(b.infos))
  OBVIOUS
<1>5. /\ infos \in Seq(Infos) /\ Len(infos) = Len(b.infos) - b.pos
      /\ \A k \in 1 .. Len(b.infos) - b.pos : infos[k] = b.infos[k + b.pos]
  <2>1. b.pos \in 0 .. Len(b.infos)
    BY <1>1
  <2> QED
    BY ONLY <1>1, <1>4, <2>1, Dropped
<1>6. StartAtInfo(b) = [b EXCEPT !.infos = infos, !.pos = 0, !.num = num, !.start = id,
                                 !.base = at, !.size = size]
  BY ONLY <1>1, <1>2, <1>4 DEF StartAtInfo, BufferRecords
<1>7. LET d == StartAtInfo(b) IN
      /\ d \in BufferRecords /\ d.mem = b.mem /\ d.base = at /\ d.start = id
      /\ d.num = num /\ d.ptr = b.ptr /\ d.pos = 0 /\ d.infos = infos
  <2>1. StartAtInfo(b) = [mem |-> b.mem, base |-> at, size |-> size, start |-> id,
                          num |-> num, infos |-> infos, pos |-> 0, ptr |-> b.ptr]
    BY ONLY <1>1, <1>6 DEF BufferRecords
  <2>2. b.mem \in Seq(FrameIds) /\ b.ptr \in Int
    BY BufferFields
  <2> QED
    BY ONLY <1>3, <1>5, <2>1, <2>2 DEF BufferRecords
<1>8. StartAtInfo(b) \in Buffers
  <2>1. 0 \in -1 .. Len(infos)
    BY <1>1, <1>5
  <2> QED
    BY ONLY <1>7, <2>1 DEF Buffers
<1> QED
  BY ONLY <1>2, <1>5, <1>7, <1>8 DEF i

LEMMA StartAtEndType ==
    ASSUME NEW b \in Buffers, HasInfo(b)
    PROVE  StartAtEnd(b) \in Buffers
<1>1. /\ b \in BufferRecords /\ Retrieve(b, 0).num \in Int /\ b.num \in Int /\ b.start \in Int
      /\ b.base \in Int /\ b.size \in Int
  BY BufferFields DEF HasInfo, End
<1>2. PICK n : n = Retrieve(b, 0).num
  OBVIOUS
<1>3. StartAtEnd(b) = [b EXCEPT !.infos = <<>>, !.pos = 0, !.num = b.num - n,
                                !.start = b.start + n, !.base = b.base + n,
                                !.size = b.size - n]
  BY ONLY <1>1, <1>2 DEF StartAtEnd, BufferRecords
<1>4. /\ StartAtEnd(b) \in BufferRecords /\ StartAtEnd(b).pos = 0
      /\ StartAtEnd(b).infos = <<>>
  <2>1. /\ b.num - n \in Int /\ b.start + n \in Int /\ b.base + n \in Int
        /\ b.size - n \in Int
    BY <1>1, <1>2
  <2>2. b.mem \in Seq(FrameIds) /\ b.ptr \in Int
    BY BufferFields
  <2>3. StartAtEnd(b) = [mem |-> b.mem, base |-> b.base + n, size |-> b.size - n,
                         start |-> b.start + n, num |-> b.num - n, infos |-> <<>>,
                         pos |-> 0, ptr |-> b.ptr]
    BY ONLY <1>1, <1>3 DEF BufferRecords
  <2>4. <<>> \in Seq(Infos)
    OBVIOUS
  <2> QED
    BY ONLY <2>1, <2>2, <2>3, <2>4 DEF BufferRecords
<1> QED
  BY ONLY <1>4 DEF Buffers

LEMMA AdjustStartToRFrameType ==
    ASSUME NEW b \in Buffers, HasInfo(b)
    PROVE  AdjustStartToRFrame(b) \in Buffers
  BY StartAtInfoType, StartAtEndType DEF AdjustStartToRFrame
-----------------------------------------------------------------------------
\* The manager: one of its buffers and the read position change.
LEMMA ManagerFields ==
    ASSUME NEW c, Manager(c)
    PROVE  /\ c \in Managers /\ c.bufs \in Seq(Buffers) /\ Len(c.bufs) \in Nat
           /\ c.s \in Nat /\ c.r \in Nat /\ c.w \in Nat /\ c.wid \in Nat /\ c.off \in Int
           /\ c.next \in Int /\ c.locked \in BOOLEAN /\ c.null \in BOOLEAN
           /\ \A i \in 1 .. Len(c.bufs) : c.bufs[i] \in Buffers
           /\ c.r # NoBuffer =>
                 /\ c.bufs # <<>> /\ Len(c.bufs) > 0 /\ c.s = 1 /\ c.r \in 1 .. Len(c.bufs)
                 /\ c.w = Len(c.bufs) /\ S(c) \in Buffers /\ R(c) \in Buffers
                 /\ W(c) \in Buffers
           /\ c.bufs # <<>> => c.r # NoBuffer
<1>1. c \in Managers /\ Pointers(c)
  BY DEF Manager
<1>2. /\ c.bufs \in Seq(Buffers) /\ c.s \in Nat /\ c.r \in Nat /\ c.w \in Nat
      /\ c.wid \in Nat /\ c.off \in Int /\ c.next \in Int /\ c.locked \in BOOLEAN
      /\ c.null \in BOOLEAN
  BY <1>1 DEF Managers
<1>3. Len(c.bufs) \in Nat /\ \A i \in 1 .. Len(c.bufs) : c.bufs[i] \in Buffers
  BY <1>2, LenProperties, ElementOfSeq
<1>4. c.bufs # <<>> => Len(c.bufs) > 0
  BY <1>2, EmptySeq
<1>5. c.r # NoBuffer =>
        c.bufs # <<>> /\ c.s = 1 /\ c.r \in 1 .. Len(c.bufs) /\ c.w = Len(c.bufs)
  BY <1>1 DEF Pointers
<1>6. c.bufs # <<>> => c.r # NoBuffer
  BY <1>1, <1>3 DEF Pointers, NoBuffer
<1>7. c.r # NoBuffer => S(c) \in Buffers /\ R(c) \in Buffers /\ W(c) \in Buffers
  BY <1>3, <1>4, <1>5 DEF S, R, W
<1> QED
  BY <1>1, <1>2, <1>3, <1>4, <1>5, <1>6, <1>7

\* The manager d is c but for the buffers and their number, the read position, and
\* what only seeks use.
SameCounts(c, d) == d.wid = c.wid /\ d.locked = c.locked

ReadAt(c, r, i, b) == [c EXCEPT !.r = r, !.bufs[i] = b]

LEMMA ReadBuffer ==
    ASSUME NEW c, Manager(c), NEW i \in 1 .. Len(c.bufs), NEW b \in Buffers, NEW d,
           NEW r \in 1 .. Len(c.bufs), d = ReadAt(c, r, i, b)
    PROVE  /\ Manager(d) /\ SameCounts(c, d)
           /\ d.s = c.s /\ d.w = c.w /\ d.r = r /\ d.off = c.off /\ d.next = c.next
           /\ d.null = c.null /\ Len(d.bufs) = Len(c.bufs)
           /\ \A j \in 1 .. Len(c.bufs) : d.bufs[j] = IF j = i THEN b ELSE c.bufs[j]
<1>1. PICK bufs : bufs = [c.bufs EXCEPT ![i] = b]
  OBVIOUS
<1>2. c \in Managers /\ c.bufs \in Seq(Buffers) /\ Len(c.bufs) \in Nat /\ Pointers(c)
  BY ManagerFields DEF Manager
<1>3. /\ bufs \in Seq(Buffers) /\ Len(bufs) = Len(c.bufs)
      /\ \A j \in 1 .. Len(c.bufs) : bufs[j] = IF j = i THEN b ELSE c.bufs[j]
  BY ONLY <1>1, <1>2, ExceptSeq, i \in 1 .. Len(c.bufs), b \in Buffers
<1>4. d = [c EXCEPT !.r = r, !.bufs = bufs]
  BY <1>1, <1>2 DEF Managers, ReadAt
<1>5. r \in Nat
  BY <1>2
<1>6. /\ d \in Managers /\ d.bufs = bufs /\ d.s = c.s /\ d.w = c.w /\ d.r = r
      /\ d.off = c.off /\ d.next = c.next /\ d.null = c.null /\ d.wid = c.wid
      /\ d.locked = c.locked
  BY ONLY <1>2, <1>3, <1>4, <1>5 DEF Managers
<1>7. c.bufs # <<>> /\ bufs # <<>>
  BY <1>2, <1>3, EmptySeq
<1>8. Pointers(d)
  BY ONLY <1>2, <1>3, <1>6, <1>7, r \in 1 .. Len(c.bufs) DEF Pointers
<1> QED
  BY ONLY <1>3, <1>6, <1>8 DEF Manager, SameCounts

LEMMA ReadAnother ==
    ASSUME NEW c, Manager(c), NEW r \in 1 .. Len(c.bufs), NEW d, d = [c EXCEPT !.r = r]
    PROVE  /\ Manager(d) /\ SameCounts(c, d)
           /\ d.s = c.s /\ d.w = c.w /\ d.r = r /\ d.off = c.off /\ d.next = c.next
           /\ d.null = c.null /\ d.bufs = c.bufs
<1>1. c \in Managers /\ Len(c.bufs) \in Nat /\ Pointers(c)
  BY ManagerFields DEF Manager
<1>2. /\ d \in Managers /\ d.bufs = c.bufs /\ d.s = c.s /\ d.w = c.w /\ d.r = r
      /\ d.off = c.off /\ d.next = c.next /\ d.null = c.null /\ d.wid = c.wid
      /\ d.locked = c.locked
  <2>1. r \in Nat
    BY <1>1
  <2> QED
    BY ONLY <1>1, <2>1, d = [c EXCEPT !.r = r] DEF Managers
<1>3. Pointers(d)
  <2>1. c.bufs # <<>>
    BY <1>1, EmptySeq
  <2> QED
    BY ONLY <1>1, <1>2, <2>1, r \in 1 .. Len(c.bufs) DEF Pointers, NoBuffer
<1> QED
  BY ONLY <1>2, <1>3 DEF Manager, SameCounts

LEMMA OneBuffer ==
    ASSUME NEW c, Manager(c), NEW i \in 1 .. Len(c.bufs), NEW b \in Buffers, NEW d,
           d = [c EXCEPT !.bufs[i] = b]
    PROVE  /\ Manager(d) /\ SameCounts(c, d)
           /\ d.s = c.s /\ d.w = c.w /\ d.r = c.r /\ d.off = c.off /\ d.next = c.next
           /\ d.null = c.null /\ Len(d.bufs) = Len(c.bufs)
           /\ \A j \in 1 .. Len(c.bufs) : d.bufs[j] = IF j = i THEN b ELSE c.bufs[j]
<1>1. c \in Managers /\ c.r \in 1 .. Len(c.bufs)
  BY ManagerFields DEF Manager, Pointers
<1>2. PICK r : r = c.r
  OBVIOUS
<1>3. d = ReadAt(c, r, i, b)
  BY ONLY <1>1, <1>2, d = [c EXCEPT !.bufs[i] = b] DEF Managers, ReadAt
<1>4. r \in 1 .. Len(c.bufs)
  BY <1>1, <1>2
<1>5. /\ Manager(d) /\ SameCounts(c, d)
      /\ d.s = c.s /\ d.w = c.w /\ d.r = r /\ d.off = c.off /\ d.next = c.next
      /\ d.null = c.null /\ Len(d.bufs) = Len(c.bufs)
      /\ \A j \in 1 .. Len(c.bufs) : d.bufs[j] = IF j = i THEN b ELSE c.bufs[j]
  BY ONLY <1>3, <1>4, Manager(c), i \in 1 .. Len(c.bufs), b \in Buffers, ReadBuffer
<1> QED
  BY ONLY <1>2, <1>5

\* Another value of a field the buffers do not depend on.
LEMMA OtherFields ==
    ASSUME NEW c, Manager(c), NEW n \in Int, NEW l \in BOOLEAN
    PROVE  /\ Manager([c EXCEPT !.next = n]) /\ SameCounts(c, [c EXCEPT !.next = n])
           /\ Manager([c EXCEPT !.null = TRUE]) /\ SameCounts(c, [c EXCEPT !.null = TRUE])
           /\ Manager([c EXCEPT !.locked = l])
           /\ [c EXCEPT !.locked = l].wid = c.wid /\ [c EXCEPT !.locked = l].locked = l
           /\ [c EXCEPT !.next = n].bufs = c.bufs /\ [c EXCEPT !.next = n].r = c.r
           /\ [c EXCEPT !.next = n].s = c.s /\ [c EXCEPT !.next = n].w = c.w
           /\ [c EXCEPT !.next = n].next = n /\ [c EXCEPT !.next = n].null = c.null
           /\ [c EXCEPT !.next = n].off = c.off
           /\ [c EXCEPT !.locked = l].bufs = c.bufs /\ [c EXCEPT !.locked = l].r = c.r
           /\ [c EXCEPT !.locked = l].s = c.s /\ [c EXCEPT !.locked = l].w = c.w
           /\ [c EXCEPT !.locked = l].next = c.next /\ [c EXCEPT !.locked = l].null = c.null
           /\ [c EXCEPT !.locked = l].off = c.off
<1>1. c \in Managers /\ Pointers(c)
  BY DEF Manager
<1> QED
  BY ONLY <1>1, n \in Int, l \in BOOLEAN DEF Manager, Managers, Pointers, SameCounts

MovedType(c, x) ==
    /\ Manager(x.cbm) /\ SameCounts(c, x.cbm) /\ x.burn \in Int
    /\ c.r # NoBuffer => x.cbm.r # NoBuffer

LEMMA SeekInBufferType ==
    ASSUME NEW c, Manager(c), NEW i \in 1 .. Len(c.bufs), NEW f \in Int
    PROVE  MovedType(c, SeekInBuffer(c, i, f))
<1>1. SoughtType(SeekTo(c.bufs[i], f))
  BY SeekToType, ManagerFields
<1>2. PICK x : x = SeekTo(c.bufs[i], f)
  OBVIOUS
<1>3. PICK d : d = ReadAt(c, i, i, x.buf)
  OBVIOUS
<1>4. Manager(d) /\ SameCounts(c, d) /\ d.r = i
  <2>1. x.buf \in Buffers
    BY <1>1, <1>2 DEF SoughtType
  <2> QED
    BY ONLY <1>3, <2>1, ReadBuffer, Manager(c), i \in 1 .. Len(c.bufs)
<1>5. SeekInBuffer(c, i, f) = Moved(d, x.burn)
  BY ONLY <1>2, <1>3 DEF SeekInBuffer, InBuffer, ReadAt
<1> QED
  <2>1. i # NoBuffer
    BY ManagerFields DEF NoBuffer
  <2> QED
    BY <2>1, <1>1, <1>2, <1>4, <1>5 DEF MovedType, Moved, SoughtType

LEMMA SeeksType ==
    ASSUME NEW c, Manager(c), c.r # NoBuffer, NEW f \in Int
    PROVE  MovedType(c, SeekForward(c, f)) /\ MovedType(c, SeekBackward(c, f))
<1>1. /\ Len(c.bufs) \in Nat /\ c.s = 1 /\ c.r \in 1 .. Len(c.bufs) /\ c.w = Len(c.bufs)
  BY ManagerFields
<1>2. ASSUME NEW i \in 1 .. Len(c.bufs) PROVE MovedType(c, SeekForwardIn(c, i, f))
  <2>1. PICK d : d = [c EXCEPT !.r = i]
    OBVIOUS
  <2>2. Manager(d) /\ SameCounts(c, d) /\ d.r # NoBuffer
    BY <1>1, <2>1, ReadAnother DEF NoBuffer
  <2>3. MovedType(c, Moved(d, -1))
    BY <2>2 DEF MovedType, Moved
  <2> QED
    BY <2>1, <2>3, SeekInBufferType DEF SeekForwardIn
<1>3. MovedType(c, SeekBackward(c, f))
  <2> DEFINE T == {i \in c.s .. c.r : i = c.s \/ f >= c.bufs[i].start}
  <2>1. T \subseteq 0 .. c.r /\ T # {} /\ c.r \in Nat /\ T \subseteq 1 .. Len(c.bufs)
    BY <1>1
  <2>2. Max(T) \in 1 .. Len(c.bufs)
    <3> HIDE DEF T
    <3> QED
      BY <2>1, MaxOfNats
  <2> QED
    BY <2>2, SeekInBufferType DEF SeekBackward
<1>4. MovedType(c, SeekForward(c, f))
  <2> DEFINE T == {i \in c.r .. c.w : i = c.w \/ f <= LastId(c.bufs[i])}
  <2>1. T \subseteq Nat /\ T # {} /\ T \subseteq 1 .. Len(c.bufs)
    BY <1>1
  <2>2. Min(T) \in 1 .. Len(c.bufs)
    <3> HIDE DEF T
    <3> QED
      BY <2>1, MinOfNats
  <2> QED
    BY <2>2, <1>2 DEF SeekForward
<1> QED
  BY <1>3, <1>4

LEMMA SeekType ==
    ASSUME NEW c, Manager(c), NEW f \in Int
    PROVE  MovedType(c, Seek(c, f))
<1>1. ASSUME NEW n \in Int, NEW d, Manager(d), SameCounts(c, d), c.r # NoBuffer => d.r # NoBuffer
      PROVE  MovedType(c, Moved(d, n))
  BY <1>1 DEF Moved, MovedType
<1>2. SameCounts(c, c)
  BY DEF SameCounts
<1>3. CASE c.r = NoBuffer
  BY <1>1, <1>2, <1>3 DEF Seek
<1>4. CASE c.r # NoBuffer
  <2>1. ASSUME NEW d, Manager(d), SameCounts(c, d), d.r # NoBuffer, NEW g \in Int
        PROVE  MovedType(c, SeekForward(d, g)) /\ MovedType(c, SeekBackward(d, g))
    BY <2>1, SeeksType DEF MovedType, SameCounts
  <2>2. /\ c.next \in Int /\ RFrameId(R(c)) \in Int /\ c.wid \in Int
        /\ R(c) \in Buffers
    BY <1>4, ManagerFields, ReadPositions
  <2>3. ASSUME NEW id PROVE MovedType(c, ToNextDecompress(c, id))
    <3>1. MovedType(c, Moved(c, 0))
      BY <1>1, <1>2
    <3>2. MovedType(c, SeekBackward(c, c.next)) /\ MovedType(c, SeekForward(c, c.next))
      BY <1>2, <1>4, <2>1, <2>2
    <3> QED
      BY <3>1, <3>2, Zenon DEF ToNextDecompress
  <2>4. ASSUME NEW d, Manager(d), SameCounts(c, d), d.r # NoBuffer
        PROVE  Manager(ReadFirst(d)) /\ SameCounts(c, ReadFirst(d)) /\ ReadFirst(d).r # NoBuffer
    <3>1. /\ ReRead(d.bufs[1]) \in Buffers /\ 1 \in 1 .. Len(d.bufs)
      BY <2>4, ManagerFields, ReadPositions
    <3>2. PICK b, e : b = ReRead(d.bufs[1]) /\ e = ReadAt(d, 1, 1, b)
      OBVIOUS
    <3>3. ReadFirst(d) = e
      BY ONLY <3>2 DEF ReadFirst, ReadAt
    <3>4. Manager(e) /\ SameCounts(d, e) /\ e.r = 1
      BY ONLY <2>4, <3>1, <3>2, ReadBuffer
    <3> QED
      BY <2>4, <3>3, <3>4 DEF SameCounts, NoBuffer
  <2>5. ASSUME NEW there, MovedType(c, there), NEW id PROVE MovedType(c, SeekFrom(there, id, f))
    <3>1. PICK d : d = there.cbm
      OBVIOUS
    <3>2. Manager(d) /\ SameCounts(c, d) /\ d.r # NoBuffer
      BY <1>4, <2>5, <3>1 DEF MovedType
    <3>3. /\ MovedType(c, Moved(d, -1)) /\ MovedType(c, Moved(ReadFirst(d), 0))
          /\ MovedType(c, SeekForward(d, f)) /\ MovedType(c, SeekBackward(d, f))
          /\ MovedType(c, SeekForward(ReadFirst(d), f))
      BY <1>1, <2>1, <2>4, <3>2
    <3> QED
      BY <3>1, <3>3, Zenon DEF SeekFrom
  <2>6. MovedType(c, Moved(ToWriteFrame(c), 0))
    <3>1. /\ UnRead(c.bufs[Len(c.bufs)]) \in Buffers /\ Len(c.bufs) \in 1 .. Len(c.bufs)
          /\ c.bufs # <<>>
      BY <1>4, ManagerFields, ReadPositions
    <3>2. PICK b, e, n : n = Len(c.bufs) /\ b = UnRead(c.bufs[n]) /\ e = ReadAt(c, n, n, b)
      OBVIOUS
    <3>3. ToWriteFrame(c) = e
      BY ONLY <3>1, <3>2 DEF ToWriteFrame, ReadAt
    <3>4. Manager(e) /\ SameCounts(c, e) /\ e.r = n
      BY ONLY Manager(c), <3>1, <3>2, ReadBuffer
    <3>5. e.r # NoBuffer
      BY <3>1, <3>2, <3>4, ManagerFields DEF NoBuffer
    <3> QED
      BY <1>1, <3>3, <3>4, <3>5
  <2>7. ASSUME NEW id PROVE MovedType(c, SeekFromRead(c, id, f))
    <3>1. MovedType(c, Moved(c, 0)) /\ MovedType(c, Moved(c, -1))
      BY <1>1, <1>2
    <3>2. MovedType(c, SeekFrom(ToNextDecompress(c, id),
                                IF c.next = c.wid THEN id ELSE c.next, f))
      BY <2>3, <2>5
    <3> QED
      BY <2>6, <3>1, <3>2, Zenon DEF SeekFromRead
  <2> QED
    BY <1>4, <2>7 DEF Seek
<1> QED
  BY <1>3, <1>4

KeptType(c, d) == Manager(d) /\ SameCounts(c, d)

LEMMA ToNextBufferType ==
    ASSUME NEW c, Manager(c), c.r # NoBuffer
    PROVE  KeptType(c, ToNextBuffer(c)) /\ ToNextBuffer(c).r # NoBuffer
<1>1. c.r \in 1 .. Len(c.bufs) /\ Len(c.bufs) \in Nat /\ c \in Managers
  BY ManagerFields
<1>2. CASE c.r < Len(c.bufs)
  <2>1. c.r + 1 \in 1 .. Len(c.bufs) /\ ReRead(c.bufs[c.r + 1]) \in Buffers
    BY <1>1, <1>2, ManagerFields, ReadPositions
  <2>2. PICK n, b, e : n = c.r + 1 /\ b = ReRead(c.bufs[n]) /\ e = ReadAt(c, n, n, b)
    OBVIOUS
  <2>3. ToNextBuffer(c) = e
    BY ONLY <1>1, <1>2, <2>2 DEF ToNextBuffer, ReadAt, Managers
  <2>4. Manager(e) /\ SameCounts(c, e) /\ e.r = n
    BY ONLY Manager(c), <2>1, <2>2, ReadBuffer
  <2> QED
    BY <1>1, <2>2, <2>3, <2>4 DEF KeptType, NoBuffer
<1>3. CASE ~(c.r < Len(c.bufs))
  BY <1>3 DEF ToNextBuffer, KeptType, SameCounts
<1> QED
  BY <1>2, <1>3

LEMMA DecompressedFrameType ==
    ASSUME NEW c, Manager(c)
    PROVE  KeptType(c, DecompressedFrame(c))
<1>1. CASE c.r = NoBuffer \/ ~Valid(R(c), R(c).pos)
  <2>1. PICK e : e = [c EXCEPT !.null = TRUE]
    OBVIOUS
  <2>2. Manager(e) /\ SameCounts(c, e)
    BY <2>1, OtherFields, 0 \in Int, TRUE \in BOOLEAN
  <2> QED
    BY <1>1, <2>1, <2>2 DEF DecompressedFrame, NullUsed, KeptType
<1>2. CASE c.r # NoBuffer /\ Valid(R(c), R(c).pos)
  <2>1. /\ c.r \in 1 .. Len(c.bufs) /\ R(c) \in Buffers /\ Decompressed(R(c)) \in Buffers
        /\ c.r # NoBuffer
    BY <1>2, ManagerFields, DecompressedType
  <2>2. PICK b : b = Decompressed(R(c))
    OBVIOUS
  <2>3. PICK d : d = [c EXCEPT !.bufs[c.r] = b]
    OBVIOUS
  <2>4. Manager(d) /\ SameCounts(c, d) /\ d.r = c.r
    BY <2>1, <2>2, <2>3, OneBuffer
  <2>5. KeptType(d, ReadOn(d)) /\ ReadOn(d).r # NoBuffer
    BY <2>1, <2>4, ToNextBufferType DEF ReadOn, KeptType, SameCounts
  <2>6. PICK e : e = ReadOn(d)
    OBVIOUS
  <2>7. Manager(e) /\ SameCounts(d, e) /\ RFrameId(R(e)) \in Int
    BY <2>5, <2>6, ManagerFields, ReadPositions DEF KeptType
  <2>8. Manager(NextIsRFrame(e)) /\ SameCounts(e, NextIsRFrame(e))
    BY <2>7, OtherFields DEF NextIsRFrame
  <2>9. DecompressedFrame(c) = NextIsRFrame(e)
    <3>1. [c EXCEPT !.bufs[c.r] = Decompressed(@)] = d
      BY <2>2, <2>3 DEF R
    <3> QED
      BY ONLY <1>2, <3>1, <2>6 DEF DecompressedFrame
  <2> QED
    BY <2>4, <2>7, <2>8, <2>9 DEF KeptType, SameCounts
<1> QED
  BY <1>1, <1>2

LEMMA DeviceSeekType ==
    ASSUME NEW c, Manager(c), NEW f \in Int
    PROVE  KeptType(c, DeviceSeek(c, f))
<1>1. ASSUME NEW d, Manager(d), NEW n \in Nat PROVE KeptType(d, Burn(d, n))
  <2>1. PICK g : Decompressing(d, n, g) /\ Burn(d, n) = g[n]
    BY BurnSteps
  <2> DEFINE T == {k \in 0 .. n : ~ KeptType(d, g[k])}
  <2>2. T = {}
    <3>1. SUFFICES ASSUME T # {} PROVE FALSE
      OBVIOUS
    <3>2. T \subseteq Nat
      OBVIOUS
    <3>3. PICK k \in T : \A m \in T : k <= m
      <4> HIDE DEF T
      <4> QED
        BY <3>1, <3>2, LeastNat
    <3>4. k # 0
      BY <1>1, <2>1 DEF Decompressing, KeptType, SameCounts
    <3>5. k \in 1 .. n /\ k - 1 \in 0 .. n /\ k - 1 \notin T
      BY <3>3, <3>4
    <3>6. KeptType(d, g[k - 1]) /\ g[k] = DecompressedFrame(g[k - 1])
      BY <2>1, <3>5 DEF Decompressing
    <3> QED
      BY <3>6, <3>3, DecompressedFrameType DEF KeptType, SameCounts
  <2> QED
    BY <2>1, <2>2
<1>2. MovedType(c, Seek(c, f))
  BY SeekType
<1>3. PICK x : x = Seek(c, f)
  OBVIOUS
<1>4. KeptType(c, BurnFrames(x))
  <2>1. Manager(x.cbm) /\ SameCounts(c, x.cbm) /\ x.burn \in Int
    BY <1>2, <1>3 DEF MovedType
  <2>2. x.burn > 0 => x.burn \in Nat
    BY <2>1
  <2> QED
    BY <1>1, <2>1, <2>2 DEF BurnFrames, KeptType, SameCounts
<1> QED
  BY <1>3, <1>4 DEF DeviceSeek

-----------------------------------------------------------------------------
\* A buffer is put behind the others.
LEMMA AppendType ==
    ASSUME NEW c, Manager(c), NEW b \in Buffers
    PROVE  /\ LET d == AppendAndRead(c, b) IN
              /\ Manager(StartIfNone(d)) /\ SameCounts(c, StartIfNone(d))
              /\ StartIfNone(d).bufs = Append(c.bufs, b)
              /\ StartIfNone(d).r = Len(c.bufs) + 1 /\ StartIfNone(d).w = Len(c.bufs) + 1
              /\ StartIfNone(d).next = c.next /\ StartIfNone(d).null = c.null
              /\ StartIfNone(d).off = c.off
              /\ c.r # NoBuffer => StartIfNone(d) = d
           /\ c.r # NoBuffer =>
              LET d == AppendBuffer(c, b) IN
              /\ Manager(d) /\ SameCounts(c, d) /\ d.bufs = Append(c.bufs, b)
              /\ d.r = c.r /\ d.w = Len(c.bufs) + 1 /\ d.next = c.next
              /\ d.null = c.null /\ d.off = c.off /\ StartIfNone(d) = d
<1>1. /\ c \in Managers /\ Len(c.bufs) \in Nat /\ Pointers(c) /\ c.bufs \in Seq(Buffers)
      /\ c.r # NoBuffer => c.r \in 1 .. Len(c.bufs) /\ c.s = 1
      /\ c.s \in Nat /\ c.r \in Nat
  BY ManagerFields DEF Manager
<1>2. PICK bufs, n : bufs = Append(c.bufs, b) /\ n = Len(c.bufs) + 1
  OBVIOUS
<1>3. /\ bufs \in Seq(Buffers) /\ Len(bufs) = n /\ n \in Nat /\ n \in 1 .. n
      /\ c.r # NoBuffer => c.r \in 1 .. n
      /\ bufs # <<>> /\ n # NoBuffer
  <2>1. bufs \in Seq(Buffers) /\ Len(bufs) = n
    BY ONLY <1>1, <1>2, AppendProperties, b \in Buffers
  <2>2. Len(<<>>) = 0
    OBVIOUS
  <2> QED
    BY <1>1, <1>2, <2>1, <2>2 DEF NoBuffer
<1>4. PICK d, e : d = AppendBuffer(c, b) /\ e = AppendAndRead(c, b)
  OBVIOUS
<1>5. d = [c EXCEPT !.bufs = bufs, !.w = n] /\ e = [c EXCEPT !.bufs = bufs, !.w = n, !.r = n]
  BY ONLY <1>1, <1>2, <1>4 DEF AppendBuffer, AppendAndRead, Managers
<1>6. /\ d \in Managers /\ d.bufs = bufs /\ d.r = c.r /\ d.w = n /\ d.s = c.s
      /\ d.next = c.next /\ d.null = c.null /\ d.off = c.off /\ d.wid = c.wid
      /\ d.locked = c.locked
  BY ONLY <1>1, <1>3, <1>5 DEF Managers
<1>7. /\ e \in Managers /\ e.bufs = bufs /\ e.r = n /\ e.w = n /\ e.s = c.s
      /\ e.next = c.next /\ e.null = c.null /\ e.off = c.off /\ e.wid = c.wid
      /\ e.locked = c.locked
  BY ONLY <1>1, <1>3, <1>5 DEF Managers
<1>8. PICK g : g = StartIfNone(e)
  OBVIOUS
<1>9. g = IF c.s = NoBuffer THEN [e EXCEPT !.s = n] ELSE e
  BY <1>7, <1>8 DEF StartIfNone
<1>10. /\ g \in Managers /\ g.bufs = bufs /\ g.r = n /\ g.w = n
       /\ g.s = (IF c.s = NoBuffer THEN n ELSE c.s)
       /\ g.next = c.next /\ g.null = c.null /\ g.off = c.off /\ g.wid = c.wid
       /\ g.locked = c.locked
  BY ONLY <1>3, <1>7, <1>9 DEF Managers
<1>11. g.s = 1
  BY <1>1, <1>2, <1>10 DEF Pointers, NoBuffer
<1>12. Pointers(g)
  BY ONLY <1>3, <1>10, <1>11 DEF Pointers
<1>13. c.r # NoBuffer => Pointers(d) /\ StartIfNone(d) = d /\ g = e
  BY <1>1, <1>3, <1>6, <1>9 DEF Pointers, StartIfNone, NoBuffer
<1> QED
  BY ONLY <1>2, <1>4, <1>6, <1>8, <1>10, <1>12, <1>13 DEF Manager, SameCounts

LEMMA NextBufferType ==
    ASSUME NEW c, Manager(c)
    PROVE  KeptType(c, NextBuffer(c, Capacity)) /\ NextBuffer(c, Capacity).r # NoBuffer
<1>1. PICK b : b = NewBuffer(Capacity)
  OBVIOUS
<1>2. b \in Buffers
  BY <1>1, NewBufferType, CisAssumption
<1>3. /\ c \in Managers /\ Len(c.bufs) \in Nat /\ c.bufs \in Seq(Buffers)
      /\ c.w = NoBuffer => c.bufs = <<>>
      /\ c.w # NoBuffer =>
            /\ c.r # NoBuffer /\ c.r \in 1 .. Len(c.bufs) /\ c.s = 1 /\ c.w = Len(c.bufs)
            /\ c.bufs # <<>>
  BY ManagerFields DEF Manager, Pointers, NoBuffer
<1>4. ASSUME NEW bufs, NEW n, bufs \in Seq(Buffers), n = 1, Len(bufs) = 1, NEW d,
             d = [c EXCEPT !.bufs = bufs, !.s = n, !.r = n, !.w = n]
      PROVE  KeptType(c, d) /\ d.r # NoBuffer
  <2>1. /\ d \in Managers /\ d.bufs = bufs /\ d.s = 1 /\ d.r = 1 /\ d.w = 1 /\ d.wid = c.wid
        /\ d.locked = c.locked
    BY ONLY <1>3, <1>4 DEF Managers
  <2>2. bufs # <<>>
    BY ONLY bufs \in Seq(Buffers), Len(bufs) = 1, EmptySeq
  <2> QED
    BY ONLY <1>4, <2>1, <2>2 DEF KeptType, Manager, SameCounts, Pointers, NoBuffer
<1>5. CASE c.w = NoBuffer
  <2>1. PICK bufs : bufs = Append(c.bufs, b)
    OBVIOUS
  <2>2. bufs \in Seq(Buffers) /\ Len(bufs) = 1
    BY <1>2, <1>3, <1>5, <2>1
  <2>3. PICK d, n : n = 1 /\ d = [c EXCEPT !.bufs = bufs, !.s = n, !.r = n, !.w = n]
    OBVIOUS
  <2>4. NextBuffer(c, Capacity) = d
    BY ONLY <1>1, <1>3, <1>5, <2>1, <2>3 DEF NextBuffer, Managers
  <2>5. KeptType(c, d) /\ d.r # NoBuffer
    BY ONLY <1>4, <2>2, <2>3
  <2> QED
    BY ONLY <2>4, <2>5
<1>6. CASE c.w # NoBuffer /\ c.s = c.r /\ ReadIsAtWrite(c)
  <2>1. Len(c.bufs) = 1
    BY <1>3, <1>6 DEF ReadIsAtWrite
  <2>2. PICK bufs, n : bufs = Append(Tail(c.bufs), b) /\ n = Len(c.bufs)
    OBVIOUS
  <2>3. bufs \in Seq(Buffers) /\ Len(bufs) = 1
    <3>1. Tail(c.bufs) \in Seq(Buffers) /\ Len(Tail(c.bufs)) = 0
      BY <1>3, <1>6, <2>1, HeadTailProperties
    <3> QED
      BY <1>2, <2>2, <3>1, AppendProperties
  <2>4. PICK d : d = [c EXCEPT !.bufs = bufs, !.s = n, !.r = n, !.w = n]
    OBVIOUS
  <2>5. KeptType(c, d) /\ d.r # NoBuffer
    BY <1>4, <2>1, <2>2, <2>3, <2>4
  <2>6. KeptType(c, AppendAndRead(c, b)) /\ AppendAndRead(c, b).r # NoBuffer
    <3>1. AppendAndRead(c, b) = StartIfNone(AppendAndRead(c, b))
      BY <1>2, <1>3, <1>6, AppendType
    <3>2. Manager(StartIfNone(AppendAndRead(c, b))) /\ SameCounts(c, StartIfNone(AppendAndRead(c, b)))
          /\ StartIfNone(AppendAndRead(c, b)).r = Len(c.bufs) + 1
      BY <1>2, AppendType
    <3>3. Len(c.bufs) + 1 # NoBuffer
      BY <1>3 DEF NoBuffer
    <3> QED
      BY <3>1, <3>2, <3>3 DEF KeptType
  <2>7. NextBuffer(c, Capacity) \in {c, d, AppendAndRead(c, b)}
    BY ONLY <1>1, <1>3, <1>6, <2>2, <2>4 DEF NextBuffer, Managers
  <2> QED
    BY <1>3, <1>6, <2>5, <2>6, <2>7 DEF KeptType, SameCounts
<1>7. CASE c.w # NoBuffer /\ ~(c.s = c.r /\ ReadIsAtWrite(c))
  <2>1. KeptType(c, AppendAndRead(c, b)) /\ AppendAndRead(c, b).r # NoBuffer
    <3>1. AppendAndRead(c, b) = StartIfNone(AppendAndRead(c, b))
      BY <1>2, <1>3, <1>7, AppendType
    <3>2. Manager(StartIfNone(AppendAndRead(c, b))) /\ SameCounts(c, StartIfNone(AppendAndRead(c, b)))
          /\ StartIfNone(AppendAndRead(c, b)).r = Len(c.bufs) + 1
      BY <1>2, AppendType
    <3>3. Len(c.bufs) + 1 # NoBuffer
      BY <1>3 DEF NoBuffer
    <3> QED
      BY <3>1, <3>2, <3>3 DEF KeptType
  <2>2. KeptType(c, AppendBuffer(c, b)) /\ AppendBuffer(c, b).r # NoBuffer
    BY <1>2, <1>3, <1>7, AppendType DEF KeptType
  <2>3. NextBuffer(c, Capacity) \in {c, AppendBuffer(c, b), AppendAndRead(c, b)}
    BY ONLY <1>1, <1>7 DEF NextBuffer
  <2> QED
    BY <1>3, <1>7, <2>1, <2>2, <2>3 DEF KeptType, SameCounts
<1> QED
  BY <1>5, <1>6, <1>7


\* The write buffer gets frames, and write_frame_id passes them.
Written(c, b, n) == [c EXCEPT !.bufs[c.w] = b, !.wid = n]

LEMMA WrittenType ==
    ASSUME NEW c, Manager(c), c.r # NoBuffer, NEW b \in Buffers, NEW n \in Nat, NEW d,
           d = Written(c, b, n)
    PROVE  /\ Manager(d) /\ d.wid = n /\ d.locked = c.locked /\ d.r = c.r
           /\ d.s = c.s /\ d.w = c.w /\ d.off = c.off /\ d.next = c.next
           /\ d.null = c.null /\ Len(d.bufs) = Len(c.bufs)
           /\ \A j \in 1 .. Len(c.bufs) : d.bufs[j] = IF j = c.w THEN b ELSE c.bufs[j]
<1>1. c \in Managers /\ c.w \in 1 .. Len(c.bufs)
  BY ManagerFields
<1>2. PICK i, e : i = c.w /\ e = [c EXCEPT !.bufs[i] = b]
  OBVIOUS
<1>3. /\ Manager(e) /\ SameCounts(c, e)
      /\ e.s = c.s /\ e.w = c.w /\ e.r = c.r /\ e.off = c.off /\ e.next = c.next
      /\ e.null = c.null /\ Len(e.bufs) = Len(c.bufs)
      /\ \A j \in 1 .. Len(c.bufs) : e.bufs[j] = IF j = i THEN b ELSE c.bufs[j]
  BY ONLY <1>1, <1>2, Manager(c), b \in Buffers, OneBuffer
<1>4. d = [e EXCEPT !.wid = n]
  BY ONLY <1>1, <1>2, d = Written(c, b, n) DEF Written, Managers
<1>5. /\ d \in Managers /\ d.bufs = e.bufs /\ d.s = e.s /\ d.w = e.w /\ d.r = e.r
      /\ d.off = e.off /\ d.next = e.next /\ d.null = e.null /\ d.wid = n
      /\ d.locked = e.locked
  BY ONLY <1>3, <1>4, n \in Nat DEF Managers, Manager
<1>6. Pointers(d)
  BY ONLY <1>3, <1>5 DEF Manager, Pointers
<1> QED
  BY ONLY <1>2, <1>3, <1>5, <1>6 DEF Manager, SameCounts

\* The manager d counts n frames more than c, and its write buffer is locked if l says so.
CountsMore(c, d, n, l) == Manager(d) /\ d.wid = c.wid + n /\ d.locked = l

LEMMA CompressedFrameType ==
    ASSUME NEW c, Manager(c), c.r # NoBuffer, NEW frame \in FrameIds
    PROVE  /\ CountsMore(c, CompressedFrame(c, frame), 1, c.locked)
           /\ CountsMore(c, DoneBufferSpace(c, frame), 1, FALSE)
<1>1. c \in Managers /\ c.w \in 1 .. Len(c.bufs) /\ W(c) \in Buffers /\ c.wid \in Nat
  BY ManagerFields
<1>2. PICK b, n : b = AddFrames(W(c), <<frame>>, c.wid) /\ n = c.wid + 1
  OBVIOUS
<1>3. b \in Buffers /\ n \in Nat
  <2>1. <<frame>> \in Seq(FrameIds) /\ c.wid \in Int
    BY <1>1
  <2>2. AddFrames(W(c), <<frame>>, c.wid) \in Buffers
    BY ONLY <1>1, <2>1, AddFramesType
  <2> QED
    BY <1>1, <1>2, <2>2
<1>4. PICK d : d = Written(c, b, n)
  OBVIOUS
<1>5. Manager(d) /\ d.wid = n /\ d.locked = c.locked
  BY ONLY <1>3, <1>4, WrittenType, Manager(c), c.r # NoBuffer
<1>6. CompressedFrame(c, frame) = d
  BY ONLY <1>1, <1>2, <1>4 DEF CompressedFrame, Written, W, Managers
<1>7. Manager([d EXCEPT !.locked = FALSE]) /\ [d EXCEPT !.locked = FALSE].wid = d.wid
      /\ [d EXCEPT !.locked = FALSE].locked = FALSE
  BY <1>5, OtherFields, 0 \in Int, FALSE \in BOOLEAN
<1>8. DoneBufferSpace(c, frame) = [d EXCEPT !.locked = FALSE]
  BY ONLY <1>6 DEF DoneBufferSpace
<1> QED
  BY ONLY <1>2, <1>5, <1>6, <1>7, <1>8 DEF CountsMore

LEMMA NextBufferSpaceType ==
    ASSUME NEW c, Manager(c)
    PROVE  /\ CountsMore(c, NextBufferSpace(c, Capacity), 0, TRUE)
           /\ NextBufferSpace(c, Capacity).r # NoBuffer
<1>1. PICK d : d = NextBuffer(c, Capacity)
  OBVIOUS
<1>2. KeptType(c, d) /\ d.r # NoBuffer
  BY <1>1, NextBufferType
<1>3. /\ Manager([d EXCEPT !.locked = TRUE]) /\ [d EXCEPT !.locked = TRUE].wid = d.wid
      /\ [d EXCEPT !.locked = TRUE].locked = TRUE /\ [d EXCEPT !.locked = TRUE].r = d.r
  BY <1>2, OtherFields, 0 \in Int, TRUE \in BOOLEAN DEF KeptType
<1>4. NextBufferSpace(c, Capacity) = [d EXCEPT !.locked = TRUE]
  BY <1>1 DEF NextBufferSpace
<1>5. c.wid \in Nat
  BY ManagerFields
<1> QED
  BY <1>2, <1>3, <1>4, <1>5 DEF CountsMore, KeptType, SameCounts

LEMMA ShorterSeq ==
    ASSUME NEW s \in Seq(Buffers), NEW n \in 1 .. Len(s)
    PROVE  /\ SubSeq(s, 1, n) \in Seq(Buffers) /\ Len(SubSeq(s, 1, n)) = n
           /\ \A j \in 1 .. n : SubSeq(s, 1, n)[j] = s[j]
<1>1. Len(s) \in Nat
  BY LenProperties
<1>2. n \in Nat /\ n \in 0 .. Len(s)
  BY <1>1
<1> QED
  BY <1>1, <1>2, SubSeqProperties

LEMMA RemoveType ==
    ASSUME NEW c, Manager(c), c.r # NoBuffer
    PROVE  /\ KeptType(c, RemoveOnly(c))
           /\ c.w # c.s => KeptType(c, RemoveLast(c)) /\ RemoveLast(c).r # NoBuffer
<1>1. /\ c \in Managers /\ c.s = 1 /\ c.w = Len(c.bufs) /\ c.r \in 1 .. Len(c.bufs)
      /\ c.bufs \in Seq(Buffers) /\ Len(c.bufs) \in Nat
  BY ManagerFields
<1>2. KeptType(c, RemoveOnly(c))
  <2>1. PICK d : d = RemoveOnly(c)
    OBVIOUS
  <2>2. /\ d \in Managers /\ d.bufs = <<>> /\ d.s = NoBuffer /\ d.r = NoBuffer
        /\ d.w = NoBuffer /\ d.wid = c.wid /\ d.locked = c.locked
    <3>1. <<>> \in Seq(Buffers) /\ NoBuffer \in Nat
      BY DEF NoBuffer
    <3> QED
      BY ONLY <1>1, <2>1, <3>1 DEF RemoveOnly, Managers
  <2> QED
    BY ONLY <2>1, <2>2 DEF KeptType, Manager, Pointers, SameCounts
<1>3. ASSUME c.w # c.s PROVE KeptType(c, RemoveLast(c)) /\ RemoveLast(c).r # NoBuffer
  <2>0. PICK n : n = c.w - 1
    OBVIOUS
  <2>1. PICK less, last : less = SubSeq(c.bufs, 1, n) /\ last = UnRead(less[n])
    OBVIOUS
  <2>2. n \in 1 .. Len(c.bufs) /\ n \in Nat
    <3>1. PICK w : w = c.w
      OBVIOUS
    <3>2. w \in Nat /\ w >= 1 /\ w # 1
      BY <1>1, <1>3, <3>1
    <3>3. w - 1 \in 1 .. w /\ w - 1 \in Nat
      BY ONLY <3>2
    <3> QED
      BY <1>1, <2>0, <3>1, <3>3
  <2>3. less \in Seq(Buffers) /\ Len(less) = n /\ less[n] \in Buffers /\ n \in 1 .. n
    <3>1. less \in Seq(Buffers) /\ Len(less) = n
      BY <1>1, <2>1, <2>2, ShorterSeq
    <3> QED
      BY <2>2, <3>1, ElementOfSeq
  <2>4. PICK left : left = [less EXCEPT ![n] = last]
    OBVIOUS
  <2>5. last \in Buffers
    BY <2>1, <2>3, ReadPositions
  <2>6. left \in Seq(Buffers) /\ Len(left) = n
    BY <2>3, <2>4, <2>5, ExceptSeq
  <2>7. PICK bufs, r : /\ bufs = IF c.r = c.w THEN left ELSE less
                       /\ r = IF c.r = c.w THEN c.r - 1 ELSE c.r
    OBVIOUS
  <2>11. PICK d : d = [c EXCEPT !.bufs = bufs, !.r = r, !.w = n]
    OBVIOUS
  <2>8. bufs \in Seq(Buffers) /\ Len(bufs) = n /\ r \in 1 .. n /\ r \in Nat /\ bufs # <<>>
    <3>1. bufs \in Seq(Buffers) /\ Len(bufs) = n
      BY <2>3, <2>6, <2>7
    <3>2. r \in 1 .. n /\ r \in Nat
      BY ONLY <1>1, c.w # c.s, <2>0, <2>2, <2>7
    <3> QED
      BY <2>2, <3>1, <3>2, EmptySeq
  <2>9. RemoveLast(c) = d
    BY ONLY <1>1, <2>0, <2>1, <2>4, <2>7, <2>11 DEF RemoveLast, Managers
  <2>10. /\ d \in Managers /\ d.bufs = bufs /\ d.s = c.s /\ d.r = r
         /\ d.w = n /\ d.wid = c.wid /\ d.locked = c.locked
    BY ONLY <1>1, <2>2, <2>11, <2>8 DEF Managers
  <2>12. Pointers(d) /\ d.r # NoBuffer
    BY <1>1, <2>8, <2>10 DEF Pointers, NoBuffer
  <2> QED
    BY ONLY <2>9, <2>10, <2>12 DEF KeptType, Manager, SameCounts
<1> QED
  BY <1>2, <1>3

LEMMA CancelBufferSpaceType ==
    ASSUME NEW c, Manager(c), c.r # NoBuffer
    PROVE  CountsMore(c, CancelBufferSpace(c), 0, FALSE)
<1>1. KeptType(c, c) /\ KeptType(c, RemoveOnly(c)) /\ c.w # c.s => KeptType(c, RemoveLast(c))
  BY RemoveType DEF KeptType, SameCounts
<1>2. PICK d : d = IF W(c).num # 0 THEN c ELSE IF c.w = c.s THEN RemoveOnly(c) ELSE RemoveLast(c)
  OBVIOUS
<1>3. KeptType(c, d)
  BY <1>1, <1>2, RemoveType DEF KeptType, SameCounts
<1>4. Manager([d EXCEPT !.locked = FALSE]) /\ [d EXCEPT !.locked = FALSE].wid = d.wid
      /\ [d EXCEPT !.locked = FALSE].locked = FALSE
  BY <1>3, OtherFields, 0 \in Int, FALSE \in BOOLEAN DEF KeptType
<1>5. CancelBufferSpace(c) = [d EXCEPT !.locked = FALSE]
  BY ONLY <1>2 DEF CancelBufferSpace
<1>6. c.wid \in Nat
  BY ManagerFields
<1> QED
  BY <1>3, <1>4, <1>5, <1>6 DEF CountsMore, KeptType, SameCounts

LEMMA AttachType ==
    ASSUME NEW c, Manager(c), NEW b \in Buffers
    PROVE  /\ KeptType(c, Attach(c, b)) /\ Attach(c, b).r # NoBuffer
           /\ Attach(c, b).bufs = Append(c.bufs, b) /\ Attach(c, b).w = Len(c.bufs) + 1
           /\ Attach(c, b).next = c.next /\ Attach(c, b).null = c.null
           /\ Attach(c, b).off = c.off
           /\ Attach(c, b).r = IF c.r # NoBuffer /\ ~ReadIsAtWrite(c) THEN c.r
                               ELSE Len(c.bufs) + 1
<1>1. Len(c.bufs) + 1 # NoBuffer
  BY ManagerFields DEF NoBuffer
<1>2. CASE c.r # NoBuffer /\ ~ReadIsAtWrite(c)
  <2>1. Attach(c, b) = StartIfNone(AppendBuffer(c, b))
    BY <1>2 DEF Attach
  <2>2. PICK d : d = AppendBuffer(c, b)
    OBVIOUS
  <2>3. /\ Manager(d) /\ SameCounts(c, d) /\ d.bufs = Append(c.bufs, b)
        /\ d.r = c.r /\ d.w = Len(c.bufs) + 1 /\ d.next = c.next
        /\ d.null = c.null /\ d.off = c.off /\ StartIfNone(d) = d
    BY <1>2, <2>2, AppendType
  <2>4. Attach(c, b) = d
    BY <2>1, <2>2, <2>3
  <2> QED
    BY <1>2, <2>3, <2>4 DEF KeptType
<1>3. CASE ~(c.r # NoBuffer /\ ~ReadIsAtWrite(c))
  <2>1. PICK d : d = Attach(c, b)
    OBVIOUS
  <2>2. d = StartIfNone(AppendAndRead(c, b))
    BY <1>3, <2>1 DEF Attach
  <2>3. /\ Manager(d) /\ SameCounts(c, d) /\ d.bufs = Append(c.bufs, b)
        /\ d.r = Len(c.bufs) + 1 /\ d.w = Len(c.bufs) + 1 /\ d.next = c.next
        /\ d.null = c.null /\ d.off = c.off
    BY <2>2, AppendType
  <2> QED
    BY <1>1, <1>3, <2>1, <2>3 DEF KeptType
<1> QED
  BY <1>2, <1>3

LEMMA PutBitsType ==
    ASSUME NEW c, Manager(c), NEW frames \in Seq(FrameIds)
    PROVE  /\ CountsMore(c, PutBits(c, frames), Len(frames), c.locked)
           /\ CountsMore(c, PutBitsPtr(c, frames), Len(frames), c.locked)
<1>1. Len(frames) \in Nat /\ c.wid \in Nat
  BY ManagerFields, LenProperties
<1>2. CountsMore(c, PutBits(c, frames), Len(frames), c.locked)
  <2>1. PICK d : d = IF c.w = NoBuffer \/ Room(W(c)) < Len(frames)
                     THEN Attach(c, NewBuffer(Len(frames))) ELSE c
    OBVIOUS
  <2>2. Manager(d) /\ SameCounts(c, d) /\ d.r # NoBuffer
    <3>1. c.w # NoBuffer => c.r # NoBuffer
      BY DEF Manager, Pointers, NoBuffer
    <3>2. NewBuffer(Len(frames)) \in Buffers
      BY <1>1, NewBufferType
    <3> QED
      BY <2>1, <3>1, <3>2, AttachType DEF KeptType, SameCounts
  <2>3. d \in Managers /\ d.w \in 1 .. Len(d.bufs) /\ W(d) \in Buffers
    BY <2>2, ManagerFields
  <2>4. PICK b, n : b = AddFrames(W(d), frames, c.wid) /\ n = c.wid + Len(frames)
    OBVIOUS
  <2>5. b \in Buffers /\ n \in Nat
    <3>1. AddFrames(W(d), frames, c.wid) \in Buffers
      BY <1>1, <2>3, AddFramesType
    <3> QED
      BY <1>1, <2>4, <3>1
  <2>6. PICK e : e = Written(d, b, n)
    OBVIOUS
  <2>7. Manager(e) /\ e.wid = n /\ e.locked = d.locked
    BY ONLY <2>2, <2>5, <2>6, WrittenType
  <2>8. PutBits(c, frames) = [d EXCEPT !.bufs[d.w] = AddFrames(@, frames, c.wid),
                                       !.wid = @ + Len(frames)]
    BY ONLY <2>1 DEF PutBits
  <2>9. PutBits(c, frames) = e
    BY ONLY <2>2, <2>3, <2>4, <2>6, <2>8 DEF Written, W, Managers, SameCounts
  <2> QED
    BY <2>2, <2>4, <2>7, <2>9 DEF CountsMore, SameCounts
<1>3. CountsMore(c, PutBitsPtr(c, frames), Len(frames), c.locked)
  <2>1. UserBuffer(frames, c.wid) \in Buffers
    BY <1>1, UserBufferType
  <2>2. PICK d : d = Attach(c, UserBuffer(frames, c.wid))
    OBVIOUS
  <2>3. Manager(d) /\ SameCounts(c, d)
    BY <2>1, <2>2, AttachType DEF KeptType
  <2>4. PICK n, e : n = c.wid + Len(frames) /\ e = [d EXCEPT !.wid = n]
    OBVIOUS
  <2>5. Manager(e) /\ e.wid = n /\ e.locked = d.locked
    <3>1. n \in Nat
      BY <1>1, <2>4
    <3>2. e = [d EXCEPT !.wid = n]
      BY <2>4
    <3> QED
      BY ONLY <2>3, <3>1, <3>2 DEF Manager, Managers, Pointers
  <2>6. PutBitsPtr(c, frames) = e
    <3>1. PutBitsPtr(c, frames) = [d EXCEPT !.wid = d.wid + Len(frames)]
      BY <2>2 DEF PutBitsPtr
    <3> QED
      BY <2>3, <2>4, <3>1 DEF SameCounts
  <2> QED
    BY <2>3, <2>4, <2>5, <2>6 DEF CountsMore, SameCounts
<1> QED
  BY <1>2, <1>3

\* What getBitsPtr() hands out: the sum over the infos exists, and is a number.
Summed(b, n, g) ==
    g = [k \in 0 .. n |-> IF k = 0 THEN 0 ELSE g[k - 1] + Retrieve(b, b.pos + k - 1).num]

Summing(b, n, g) ==
    /\ g[0] = 0
    /\ \A k \in 1 .. n : g[k] = g[k - 1] + Retrieve(b, b.pos + k - 1).num

LEMMA SumExists ==
    ASSUME NEW b, NEW n \in Nat
    PROVE  \E g : Summed(b, n, g)
<1> DEFINE T == {m \in Nat : ~ \E g : Summed(b, m, g)}
<1>1. 0 \notin T
  <2>1. Summed(b, 0, [k \in 0 .. 0 |-> 0])
    BY DEF Summed
  <2> QED
    BY <2>1
<1>2. ASSUME NEW m \in Nat, m \notin T PROVE m + 1 \notin T
  <2>1. PICK g : Summed(b, m, g)
    BY <1>2
  <2> DEFINE h == [k \in 0 .. m + 1 |->
                      IF k = 0 THEN 0 ELSE g[k - 1] + Retrieve(b, b.pos + k - 1).num]
  <2>2. ASSUME NEW k \in 0 .. m + 1, k # 0 PROVE h[k - 1] = g[k - 1]
    <3>1. k - 1 \in 0 .. m /\ k - 1 \in 0 .. m + 1
      BY <2>2
    <3>2. h[k - 1] = IF k - 1 = 0 THEN 0
                     ELSE g[k - 1 - 1] + Retrieve(b, b.pos + (k - 1) - 1).num
      BY <3>1, Zenon
    <3>3. g[k - 1] = IF k - 1 = 0 THEN 0
                     ELSE g[k - 1 - 1] + Retrieve(b, b.pos + (k - 1) - 1).num
      BY <2>1, <3>1, Zenon DEF Summed
    <3> QED
      BY <3>2, <3>3, Zenon
  <2>3. h = [k \in 0 .. m + 1 |->
                IF k = 0 THEN 0 ELSE h[k - 1] + Retrieve(b, b.pos + k - 1).num]
    BY <2>2, Zenon
  <2> QED
    BY <2>3, Zenon DEF Summed
<1>3. T = {}
  <2>1. SUFFICES ASSUME T # {} PROVE FALSE
    OBVIOUS
  <2>2. PICK x \in T : \A y \in T : x <= y
    BY <2>1, LeastNat
  <2>3. x \in Nat /\ x # 0
    BY <1>1
  <2>4. x - 1 \in Nat /\ x - 1 \notin T
    BY <2>2, <2>3
  <2>5. x - 1 + 1 \notin T
    BY <2>4, <1>2
  <2> QED
    BY <2>3, <2>5
<1> QED
  BY <1>3

LEMMA SumSteps ==
    ASSUME NEW b, NEW n \in Nat
    PROVE  \E g : Summing(b, n, g) /\ NumAvail(b, n) = g[n]
<1> DEFINE num == CHOOSE g : Summed(b, n, g)
<1>1. Summed(b, n, num)
  BY SumExists, Zenon
<1>2. NumAvail(b, n) = num[n]
  BY Zenon DEF NumAvail, Summed
<1>3. Summing(b, n, num)
  <2> HIDE DEF num
  <2>1. num[0] = 0
    BY <1>1 DEF Summed
  <2>2. ASSUME NEW k \in 1 .. n
        PROVE  num[k] = num[k - 1] + Retrieve(b, b.pos + k - 1).num
    <3>1. k \in 0 .. n /\ k # 0
      OBVIOUS
    <3> QED
      BY <1>1, <3>1, Zenon DEF Summed
  <2> QED
    BY <2>1, <2>2 DEF Summing
<1> QED
  BY <1>2, <1>3

LEMMA AvailType ==
    ASSUME NEW b \in Buffers
    PROVE  Len(Avail(b)) \in Nat
<1>1. CASE b.pos # NoPosition /\ Valid(b, b.pos)
  <2>1. /\ b.pos \in 0 .. Len(b.infos) - 1 /\ Len(b.infos) \in Nat /\ b.mem \in Seq(FrameIds)
        /\ Retrieve(b, b.pos).at \in Int
        /\ \A p \in 0 .. Len(b.infos) - 1 : Retrieve(b, p).num \in Int
    BY <1>1, BufferFields DEF Valid, End
  <2>2. PICK n : n = Len(b.infos) - b.pos
    OBVIOUS
  <2>3. n \in Nat /\ n + b.pos = Len(b.infos)
    BY <2>1, <2>2
  <2>4. PICK g : Summing(b, n, g) /\ NumAvail(b, n) = g[n]
    BY <2>3, SumSteps
  <2> DEFINE T == {k \in 0 .. n : g[k] \notin Int}
  <2>5. T = {}
    <3>1. SUFFICES ASSUME T # {} PROVE FALSE
      OBVIOUS
    <3>2. PICK k \in T : \A m \in T : k <= m
      <4>1. T \subseteq Nat
        OBVIOUS
      <4> HIDE DEF T
      <4> QED
        BY <3>1, <4>1, LeastNat
    <3>3. k # 0
      BY <2>4 DEF Summing
    <3>4. k \in 1 .. n /\ k - 1 \in 0 .. n /\ k - 1 \notin T /\ b.pos + k - 1 \in 0 .. Len(b.infos) - 1
      BY <2>1, <2>3, <3>2, <3>3
    <3>5. g[k] = g[k - 1] + Retrieve(b, b.pos + k - 1).num
      BY <2>4, <3>4 DEF Summing
    <3>6. g[k - 1] \in Int /\ Retrieve(b, b.pos + k - 1).num \in Int
      BY <2>1, <3>4
    <3> QED
      BY <3>2, <3>5, <3>6
  <2>6. NumAvail(b, n) \in Int
    BY <2>3, <2>4, <2>5
  <2>7. PICK at, total : at = Retrieve(b, b.pos).at /\ total = NumAvail(b, n)
    OBVIOUS
  <2>8. Avail(b) = SubSeq(b.mem, at + 1, at + total)
    BY <1>1, <2>2, <2>7, Zenon DEF Avail, End
  <2>9. at + 1 \in Int /\ at + total \in Int
    BY <2>1, <2>6, <2>7
  <2>10. ASSUME NEW m \in Int, NEW k \in Int PROVE Len(SubSeq(b.mem, m, k)) \in Nat
    BY ONLY <2>1, m \in Int, k \in Int
  <2>11. Len(SubSeq(b.mem, at + 1, at + total)) \in Nat
    BY ONLY <2>9, <2>10
  <2> QED
    BY ONLY <2>8, <2>11
<1>2. CASE ~(b.pos # NoPosition /\ Valid(b, b.pos))
  BY <1>2, Zenon, Len(<<>>) \in Nat DEF Avail
<1> QED
  BY <1>1, <1>2

LEMMA GetBitsPtrType ==
    ASSUME NEW c, Manager(c)
    PROVE  KeptType(c, GetBitsPtr(c)) /\ Len(AvailFrames(c)) \in Nat
<1>1. CASE c.r = NoBuffer
  BY <1>1 DEF GetBitsPtr, AvailFrames, KeptType, SameCounts
<1>2. CASE c.r # NoBuffer
  <2>1. c \in Managers /\ c.r \in 1 .. Len(c.bufs) /\ R(c) \in Buffers
    BY <1>2, ManagerFields
  <2>2. PICK b : b = IF Avail(R(c)) = <<>> THEN R(c) ELSE UnRead(R(c))
    OBVIOUS
  <2>3. b \in Buffers
    BY <2>1, <2>2, ReadPositions
  <2>4. PICK i, d : i = c.r /\ d = [c EXCEPT !.bufs[i] = b]
    OBVIOUS
  <2>5. Manager(d) /\ SameCounts(c, d) /\ d.r = c.r
    BY ONLY Manager(c), <2>1, <2>3, <2>4, OneBuffer
  <2>6. GetBitsPtr(c) = ToNextBuffer(d)
    BY ONLY <1>2, <2>2, <2>4 DEF GetBitsPtr, R
  <2>7. KeptType(d, ToNextBuffer(d))
    BY <1>2, <2>5, ToNextBufferType
  <2>8. Len(AvailFrames(c)) \in Nat
    BY <1>2, <2>1, AvailType DEF AvailFrames
  <2> QED
    BY <2>5, <2>6, <2>7, <2>8 DEF KeptType, SameCounts
<1> QED
  BY <1>1, <1>2

LEMMA ReadLastBufferType ==
    ASSUME NEW c, Manager(c), c.r # NoBuffer
    PROVE  LET d == ReadLastBuffer(c) IN
           /\ KeptType(c, d) /\ d.r = c.w /\ d.s = c.s /\ d.w = c.w /\ d.off = c.off
           /\ d.next = c.next /\ d.null = c.null /\ Len(d.bufs) = Len(c.bufs)
           /\ \A i \in 1 .. Len(c.bufs) :
                 d.bufs[i] = IF i \in c.r + 1 .. c.w THEN ReRead(c.bufs[i]) ELSE c.bufs[i]
<1>1. /\ c \in Managers /\ Len(c.bufs) \in Nat /\ c.bufs \in Seq(Buffers)
      /\ c.s = 1 /\ c.w = Len(c.bufs) /\ c.w \in 1 .. Len(c.bufs) /\ c.w \in Nat
      /\ \A i \in 1 .. Len(c.bufs) : c.bufs[i] \in Buffers
  BY ManagerFields
<1>2. PICK bufs : bufs = [i \in 1 .. Len(c.bufs) |-> IF i \in c.r + 1 .. c.w
                                                     THEN ReRead(c.bufs[i]) ELSE c.bufs[i]]
  OBVIOUS
<1>3. \A i \in 1 .. Len(c.bufs) : bufs[i] \in Buffers
  BY <1>1, <1>2, ReadPositions
<1>4. bufs \in Seq(Buffers) /\ Len(bufs) = Len(c.bufs)
  <2>1. bufs \in [1 .. Len(c.bufs) -> Buffers]
    BY <1>2, <1>3
  <2> QED
    BY <1>1, <2>1, IsASeq, LenProperties
<1>5. PICK d, w : w = c.w /\ d = [c EXCEPT !.r = w, !.bufs = bufs]
  OBVIOUS
<1>6. DOMAIN c.bufs = 1 .. Len(c.bufs)
  BY <1>1, LenProperties
<1>7. ReadLastBuffer(c) = d
  BY ONLY <1>1, <1>2, <1>5, <1>6 DEF ReadLastBuffer, Managers
<1>8. /\ d \in Managers /\ d.bufs = bufs /\ d.s = c.s /\ d.r = c.w
      /\ d.w = c.w /\ d.wid = c.wid /\ d.locked = c.locked /\ d.off = c.off
      /\ d.next = c.next /\ d.null = c.null
  BY ONLY <1>1, <1>4, <1>5 DEF Managers
<1>9. Pointers(d)
  <2>1. bufs # <<>>
    BY <1>1, <1>4, EmptySeq
  <2> QED
    BY ONLY <1>1, <1>4, <1>8, <2>1 DEF Pointers
<1> QED
  BY ONLY <1>2, <1>4, <1>7, <1>8, <1>9 DEF KeptType, Manager, SameCounts

LEMMA NumberOfFramesType ==
    ASSUME NEW c, Manager(c)
    PROVE  KeptType(c, NumberOfFrames(c))
<1>1. CASE c.r = NoBuffer
  BY <1>1 DEF NumberOfFrames, KeptType, SameCounts
<1>2. CASE c.r # NoBuffer
  <2>1. PICK d : d = ReadLastBuffer(c)
    OBVIOUS
  <2>2. KeptType(c, d)
    BY <1>2, <2>1, ReadLastBufferType
  <2>3. RFrameId(R(c)) \in Int
    BY <1>2, ManagerFields, ReadPositions
  <2>4. MovedType(d, Seek(d, RFrameId(R(c))))
    BY <2>2, <2>3, SeekType DEF KeptType
  <2>5. NumberOfFrames(c) = Seek(d, RFrameId(R(c))).cbm
    BY <1>2, <2>1 DEF NumberOfFrames
  <2> QED
    BY <2>2, <2>4, <2>5 DEF KeptType, MovedType, SameCounts
<1> QED
  BY <1>1, <1>2

\* The buffers before the read buffer are dropped.
LEMMA DropBeforeType ==
    ASSUME NEW c, Manager(c), c.r # NoBuffer
    PROVE  LET d == DropBefore(c) IN
           /\ KeptType(c, d) /\ d.r = 1 /\ d.s = 1 /\ d.off = c.off /\ d.next = c.next
           /\ d.null = c.null /\ Len(d.bufs) = Len(c.bufs) - c.r + 1
           /\ \A i \in 1 .. Len(c.bufs) - c.r + 1 : d.bufs[i] = c.bufs[i + c.r - 1]
           /\ d.bufs[1] = R(c)
<1>1. /\ c \in Managers /\ Len(c.bufs) \in Nat /\ c.bufs \in Seq(Buffers)
      /\ c.w = Len(c.bufs) /\ c.r \in 1 .. Len(c.bufs) /\ c.r \in Nat
  BY ManagerFields
<1>2. PICK p, bufs : p = c.r - 1 /\ bufs = SubSeq(c.bufs, p + 1, Len(c.bufs))
  OBVIOUS
<1>3. p \in 0 .. Len(c.bufs) /\ p + 1 = c.r
  BY <1>1, <1>2
<1>4. /\ bufs \in Seq(Buffers) /\ Len(bufs) = Len(c.bufs) - p
      /\ \A k \in 1 .. Len(c.bufs) - p : bufs[k] = c.bufs[k + p]
  BY ONLY <1>1, <1>2, <1>3, Dropped
<1>5. PICK w : w = c.w - c.r + 1
  OBVIOUS
<1>6. w = Len(bufs) /\ w \in Nat /\ 1 \in 1 .. Len(bufs)
  <2>1. PICK n, r : n = Len(c.bufs) /\ r = c.r
    OBVIOUS
  <2>2. n \in Nat /\ r \in 1 .. n /\ w = n - r + 1 /\ Len(bufs) = n - (r - 1)
    BY <1>1, <1>2, <1>4, <1>5, <2>1
  <2>3. w \in Nat /\ w >= 1 /\ w = n - (r - 1)
    BY ONLY <2>2
  <2> QED
    BY <2>2, <2>3
<1>7. PICK d, one : one = 1 /\ d = [c EXCEPT !.bufs = bufs, !.s = one, !.r = one, !.w = w]
  OBVIOUS
<1>8. DropBefore(c) = d
  BY ONLY <1>1, <1>2, <1>3, <1>5, <1>7 DEF DropBefore, Managers
<1>9. /\ d \in Managers /\ d.bufs = bufs /\ d.s = 1 /\ d.r = 1
      /\ d.w = w /\ d.wid = c.wid /\ d.locked = c.locked /\ d.off = c.off
      /\ d.next = c.next /\ d.null = c.null
  BY ONLY <1>1, <1>4, <1>6, <1>7 DEF Managers
<1>10. Pointers(d)
  <2>1. bufs # <<>>
    BY <1>4, <1>6, EmptySeq
  <2> QED
    BY ONLY <1>6, <1>9, <2>1 DEF Pointers
<1>11. /\ Len(bufs) = Len(c.bufs) - c.r + 1
       /\ \A i \in 1 .. Len(c.bufs) - c.r + 1 : bufs[i] = c.bufs[i + c.r - 1]
       /\ bufs[1] = R(c)
  <2>1. Len(c.bufs) - p = Len(c.bufs) - c.r + 1
    BY <1>1, <1>2
  <2>2. \A i \in 1 .. Len(c.bufs) - p : i + p = i + c.r - 1
    BY <1>1, <1>2
  <2>3. bufs[1] = c.bufs[c.r]
    BY <1>1, <1>3, <1>4
  <2> QED
    BY <1>4, <2>1, <2>2, <2>3 DEF R
<1> QED
  BY ONLY <1>8, <1>9, <1>10, <1>11 DEF KeptType, Manager, SameCounts

\* The start of the first buffer, and with it the list's, moves.
LEMMA StartAdjustedType ==
    ASSUME NEW c, Manager(c), c.r # NoBuffer, HasInfo(c.bufs[1]), NEW offset \in Int
    PROVE  LET d == StartAdjusted(c, offset) IN
           /\ KeptType(c, d) /\ d.r = c.r /\ d.s = c.s /\ d.w = c.w
           /\ d.off = offset /\ d.next = c.next /\ d.null = c.null
           /\ Len(d.bufs) = Len(c.bufs)
           /\ \A i \in 1 .. Len(c.bufs) :
                 d.bufs[i] = IF i = 1 THEN AdjustStartToRFrame(c.bufs[1]) ELSE c.bufs[i]
<1>1. c \in Managers /\ 1 \in 1 .. Len(c.bufs) /\ c.bufs[1] \in Buffers
  BY ManagerFields
<1>2. PICK b, i, e : /\ b = AdjustStartToRFrame(c.bufs[1]) /\ i = 1
                     /\ e = [c EXCEPT !.bufs[i] = b]
  OBVIOUS
<1>3. b \in Buffers
  BY <1>1, <1>2, AdjustStartToRFrameType
<1>4. /\ Manager(e) /\ SameCounts(c, e)
      /\ e.s = c.s /\ e.w = c.w /\ e.r = c.r /\ e.off = c.off /\ e.next = c.next
      /\ e.null = c.null /\ Len(e.bufs) = Len(c.bufs)
      /\ \A j \in 1 .. Len(c.bufs) : e.bufs[j] = IF j = i THEN b ELSE c.bufs[j]
  BY ONLY <1>1, <1>2, <1>3, Manager(c), OneBuffer
<1>5. PICK d : d = [e EXCEPT !.off = offset]
  OBVIOUS
<1>6. StartAdjusted(c, offset) = d
  BY ONLY <1>1, <1>2, <1>5 DEF StartAdjusted, Managers
<1>7. /\ d \in Managers /\ d.bufs = e.bufs /\ d.s = e.s /\ d.r = e.r
      /\ d.w = e.w /\ d.wid = e.wid /\ d.locked = e.locked /\ d.off = offset
      /\ d.next = e.next /\ d.null = e.null
  BY ONLY <1>4, <1>5, offset \in Int DEF Manager, Managers
<1>8. Pointers(d)
  BY ONLY <1>4, <1>7 DEF Manager, Pointers
<1> QED
  BY ONLY <1>2, <1>4, <1>6, <1>7, <1>8 DEF KeptType, Manager, SameCounts

LEMMA AdjustStartType ==
    ASSUME NEW c, Manager(c), NEW f \in Int
    PROVE  KeptType(c, AdjustStart(c, f))
<1>1. CASE c.r = NoBuffer
  BY <1>1 DEF AdjustStart, KeptType, SameCounts
<1>2. CASE c.r # NoBuffer
  <2>1. S(c).start \in Int /\ c.next \in Int /\ RFrameId(R(c)) \in Int
    BY <1>2, ManagerFields, ReadPositions, BufferFields
  <2>2. PICK n, b, x : /\ n = S(c).start /\ b = [c EXCEPT !.next = n]
                       /\ x = Seek(b, f)
    OBVIOUS
  <2>3. Manager(b) /\ SameCounts(c, b) /\ b.r # NoBuffer
    <3>1. n \in Int /\ b = [c EXCEPT !.next = n]
      BY <2>1, <2>2
    <3>2. Manager(b) /\ SameCounts(c, b) /\ b.r = c.r
      BY ONLY <3>1, Manager(c), OtherFields, TRUE \in BOOLEAN
    <3> QED
      BY <1>2, <3>2
  <2>4. MovedType(b, x)
    BY <2>2, <2>3, SeekType
  <2>5. Manager(x.cbm) /\ SameCounts(c, x.cbm) /\ x.cbm.r # NoBuffer /\ x.burn \in Int
    BY <2>3, <2>4 DEF MovedType, SameCounts
  <2>6. AdjustStart(c, f) = StartMoved(c, x)
    BY <1>2, <2>2 DEF AdjustStart
  <2>7. CASE x.burn < 0
    BY <2>5, <2>6, <2>7 DEF StartMoved, KeptType
  <2>8. CASE ~(x.burn < 0) /\ ~HasInfo(R(x.cbm))
    <3>1. PICK d : d = x.cbm
      OBVIOUS
    <3>2. Manager([d EXCEPT !.null = TRUE]) /\ SameCounts(d, [d EXCEPT !.null = TRUE])
      BY <2>5, <3>1, OtherFields, 0 \in Int, TRUE \in BOOLEAN
    <3>3. AdjustStart(c, f) = [d EXCEPT !.null = TRUE]
      BY <2>6, <2>8, <3>1 DEF StartMoved, NullUsed
    <3> QED
      BY <2>5, <3>1, <3>2, <3>3 DEF KeptType, SameCounts
  <2>9. CASE ~(x.burn < 0) /\ HasInfo(R(x.cbm))
    <3>1. PICK d : d = DropBefore(x.cbm)
      OBVIOUS
    <3>2. KeptType(x.cbm, d) /\ d.r # NoBuffer /\ HasInfo(d.bufs[1])
      BY <2>5, <2>9, <3>1, DropBeforeType DEF NoBuffer
    <3>3. PICK e : e = StartAdjusted(d, x.burn)
      OBVIOUS
    <3>4. KeptType(d, e) /\ e.r # NoBuffer
      BY <2>5, <3>2, <3>3, StartAdjustedType DEF KeptType
    <3>5. PICK m : m = IF c.next <= S(e).start THEN S(e).start ELSE c.next
      OBVIOUS
    <3>6. S(e).start \in Int
      BY <3>4, ManagerFields, BufferFields DEF KeptType
    <3>7. m \in Int
      BY <2>1, <3>5, <3>6
    <3>8. PICK g : g = [e EXCEPT !.next = m]
      OBVIOUS
    <3>9. Manager(g) /\ SameCounts(e, g) /\ NextKept(e, c.next) = g
      BY <3>4, <3>5, <3>7, <3>8, OtherFields, TRUE \in BOOLEAN DEF NextKept, KeptType
    <3>10. KeptType(g, ReadRestored(g, RFrameId(R(c))))
      <4>1. MovedType(g, Seek(g, RFrameId(R(c))))
        BY <2>1, <3>9, SeekType
      <4> QED
        BY <3>9, <4>1 DEF ReadRestored, KeptType, MovedType, SameCounts
    <3>11. AdjustStart(c, f) = ReadRestored(g, RFrameId(R(c)))
      BY <2>6, <2>9, <3>1, <3>3, <3>9, Zenon DEF StartMoved
    <3> QED
      BY <2>5, <3>2, <3>4, <3>9, <3>10, <3>11 DEF KeptType, SameCounts
  <2> QED
    BY <2>7, <2>8, <2>9
<1> QED
  BY <1>1, <1>2

-----------------------------------------------------------------------------
\* The pending compression is counted when it is flushed, whatever its compressor does.
LEMMA CompressedType ==
    ASSUME NEW c, Manager(c), c.locked = FALSE, NEW frame \in FrameIds, NEW gaveBack
    PROVE  CountsMore(c, Compressed(c, frame, gaveBack), 1, FALSE)
<1>1. CASE compressor = "next buffer"
  <2>1. PICK d : d = DeviceSeek(c, frame[2])
    OBVIOUS
  <2>2. KeptType(c, d)
    <3>1. frame[2] \in Int
      BY DEF FrameIds
    <3> QED
      BY <2>1, <3>1, DeviceSeekType
  <2>3. PICK e : e = NextBuffer(d, Capacity)
    OBVIOUS
  <2>4. KeptType(d, e) /\ e.r # NoBuffer
    BY <2>2, <2>3, NextBufferType DEF KeptType
  <2>5. CountsMore(e, CompressedFrame(e, frame), 1, e.locked)
    BY <2>4, CompressedFrameType DEF KeptType
  <2>6. Compressed(c, frame, gaveBack) = CompressedFrame(e, frame)
    BY <1>1, <2>1, <2>3, Zenon DEF Compressed
  <2> QED
    BY <2>2, <2>4, <2>5, <2>6 DEF CountsMore, KeptType, SameCounts
<1>2. CASE compressor # "next buffer"
  <2>1. PICK d : d = IF gaveBack THEN CancelBufferSpace(NextBufferSpace(c, Capacity)) ELSE c
    OBVIOUS
  <2>2. c.wid \in Nat
    BY ManagerFields
  <2>3. CountsMore(c, d, 0, FALSE)
    <3>1. CASE gaveBack
      <4>1. PICK b : b = NextBufferSpace(c, Capacity)
        OBVIOUS
      <4>2. CountsMore(c, b, 0, TRUE) /\ b.r # NoBuffer
        BY <4>1, NextBufferSpaceType
      <4>3. CountsMore(b, CancelBufferSpace(b), 0, FALSE)
        BY <4>2, CancelBufferSpaceType DEF CountsMore
      <4>4. d = CancelBufferSpace(b)
        BY <2>1, <3>1, <4>1
      <4> QED
        BY <2>2, <4>2, <4>3, <4>4 DEF CountsMore
    <3>2. CASE ~gaveBack
      BY <2>1, <2>2, <3>2 DEF CountsMore
    <3> QED
      BY <3>1, <3>2
  <2>4. PICK e : e = NextBufferSpace(d, Capacity)
    OBVIOUS
  <2>5. CountsMore(d, e, 0, TRUE) /\ e.r # NoBuffer
    BY <2>3, <2>4, NextBufferSpaceType DEF CountsMore
  <2>6. CountsMore(e, DoneBufferSpace(e, frame), 1, FALSE)
    <3>1. Manager(e) /\ e.r # NoBuffer
      BY <2>5 DEF CountsMore
    <3> QED
      BY ONLY <3>1, frame \in FrameIds, CompressedFrameType
  <2>7. Compressed(c, frame, gaveBack) = DoneBufferSpace(e, frame)
    BY <1>2, <2>1, <2>4, Zenon DEF Compressed
  <2> QED
    BY <2>2, <2>3, <2>5, <2>6, <2>7 DEF CountsMore
<1> QED
  BY <1>1, <1>2

AtMostOne(s) == s = <<>> \/ \E frame \in FrameIds : s = <<frame>>

LEMMA SyncedType ==
    ASSUME NEW c, Manager(c), c.locked = FALSE, AtMostOne(compressOp), NEW gaveBack
    PROVE  CountsMore(c, Synced(c, gaveBack), Len(compressOp), FALSE)
<1>1. c.wid \in Nat
  BY ManagerFields
<1>2. CASE compressOp = <<>>
  <2>1. Len(compressOp) = 0
    BY <1>2
  <2> QED
    BY <1>1, <1>2, <2>1 DEF Synced, CountsMore
<1>3. CASE compressOp # <<>>
  <2>1. PICK frame \in FrameIds : compressOp = <<frame>>
    BY <1>3 DEF AtMostOne
  <2>2. Len(compressOp) = 1 /\ compressOp[1] = frame
    BY <2>1
  <2>3. Synced(c, gaveBack) = Compressed(c, frame, gaveBack)
    BY <1>3, <2>2 DEF Synced
  <2> QED
    BY <2>2, <2>3, CompressedType
<1> QED
  BY <1>2, <1>3

-----------------------------------------------------------------------------
(***************************************************************************)
(* The two counts agree whatever the caller waits for.                     *)
(***************************************************************************)
CountsInv ==
    /\ Manager(cbm) /\ cbm.locked = FALSE
    /\ readFrame \in Nat /\ writeFrame \in 0 .. MaxFrame /\ startFrame \in Nat
    /\ keepFrames \in KeepValues \cup MaxValues \cup {NoLimit}
    /\ maxFrames \in MaxValues \cup {NoLimit}
    /\ AtMostOne(compressOp)
    /\ resets \in Nat
    /\ IsFiniteSet(decompressOps) /\ Cardinality(decompressOps) <= MaxDeferred
    /\ decompressOps \subseteq FrameIds
    /\ CountsAgree

LEMMA CountsInit == Init => CountsInv
<1> SUFFICES ASSUME Init PROVE CountsInv
  OBVIOUS
<1>1. cbm = InitValues
  BY DEF Init
<1>2. /\ cbm.bufs = <<>> /\ cbm.s = NoBuffer /\ cbm.r = NoBuffer /\ cbm.w = NoBuffer
      /\ cbm.wid = 0 /\ cbm.locked = FALSE /\ cbm \in Managers
  BY <1>1 DEF InitValues, NoBuffer, Managers
<1>3. Manager(cbm)
  BY <1>2 DEF Manager, Pointers
<1>4. Cardinality({}) = 0 /\ IsFiniteSet({})
  BY FS_EmptySet
<1> QED
  BY <1>2, <1>3, <1>4, CisAssumption DEF Init, CountsInv, CountsAgree, AtMostOne

LEMMA CountsStep == CountsInv /\ [Next]_vars => CountsInv'
<1> SUFFICES ASSUME CountsInv, [Next]_vars PROVE CountsInv'
  OBVIOUS
<1>1. /\ Manager(cbm) /\ cbm.locked = FALSE /\ cbm.wid \in Nat
      /\ readFrame \in Nat /\ writeFrame \in Nat /\ startFrame \in Nat
      /\ AtMostOne(compressOp) /\ Len(compressOp) \in {0, 1}
      /\ maxFrames \in Int /\ keepFrames \in Int
      /\ cbm.wid + Len(compressOp) = writeFrame
  <2>1. Manager(cbm) /\ cbm.locked = FALSE /\ cbm.wid \in Nat
    BY ManagerFields DEF CountsInv
  <2>2. AtMostOne(compressOp) /\ Len(compressOp) \in {0, 1}
    BY DEF CountsInv, AtMostOne
  <2>3. maxFrames \in Int /\ keepFrames \in Int /\ writeFrame \in Nat
    BY CisAssumption DEF CountsInv, NoLimit
  <2> QED
    BY <2>1, <2>2, <2>3 DEF CountsInv, CountsAgree
<1>2. ASSUME NEW gaveBack
      PROVE  CountsMore(cbm, Synced(cbm, gaveBack), Len(compressOp), FALSE)
  BY <1>1, SyncedType
<1>3. ASSUME NEW n \in Nat PROVE Frame(n) \in FrameIds
  BY DEF Frame, FrameIds, CountsInv
<1>4. AtMostOne(<<>>) /\ Len(<<>>) = 0
  BY DEF AtMostOne
<1>5. ASSUME NEW gaveBack \in BOOLEAN, Compress(gaveBack) PROVE CountsInv'
  <2>1. PICK start : start = IF MaxReached THEN writeFrame + 1 - maxFrames ELSE startFrame
    OBVIOUS
  <2>2. start \in Nat
    BY <1>1, <2>1 DEF MaxReached
  <2>3. PICK d : d = IF MaxReached THEN AdjustStart(cbm, start) ELSE cbm
    OBVIOUS
  <2>4. Manager(d) /\ d.locked = FALSE /\ d.wid = cbm.wid
    <3>1. start \in Int
      BY <2>2
    <3>2. KeptType(cbm, AdjustStart(cbm, start))
      BY ONLY <1>1, <3>1, AdjustStartType
    <3> QED
      BY <1>1, <2>3, <3>2 DEF KeptType, SameCounts
  <2>5. /\ writeFrame < MaxFrame /\ writeFrame' = writeFrame + 1 /\ startFrame' = start
        /\ readFrame' = (IF readFrame < start THEN start ELSE readFrame)
        /\ cbm' = Synced(d, gaveBack) /\ compressOp' = <<Frame(writeFrame)>>
        /\ decompressOps' = decompressOps
        /\ keepFrames' = keepFrames /\ maxFrames' = maxFrames /\ resets' = resets
    BY <1>5, <2>1, <2>3 DEF Compress, FlushPriorDecompressOps
  <2>6. CountsMore(d, cbm', Len(compressOp), FALSE)
    BY <1>1, <2>4, <2>5, SyncedType
  <2>7. AtMostOne(compressOp') /\ Len(compressOp') = 1
    BY <1>1, <1>3, <2>5 DEF AtMostOne
  <2>8. writeFrame' \in 0 .. MaxFrame /\ startFrame' \in Nat /\ readFrame' \in Nat
    BY <1>1, <2>2, <2>5, CisAssumption
  <2>9. cbm'.wid + Len(compressOp') = writeFrame'
    BY <1>1, <2>4, <2>5, <2>6, <2>7 DEF CountsMore
  <2> QED
    BY <2>5, <2>6, <2>7, <2>8, <2>9 DEF CountsInv, CountsMore, CountsAgree
<1>6. ASSUME NEW gaveBack \in BOOLEAN, Sync(gaveBack) PROVE CountsInv'
  <2>1. CountsMore(cbm, cbm', Len(compressOp), FALSE) /\ compressOp' = <<>>
    BY <1>2, <1>6 DEF Sync
  <2>2. cbm'.wid + Len(compressOp') = writeFrame'
    BY <1>1, <1>4, <1>6, <2>1 DEF CountsMore, Sync
  <2> QED
    BY <1>4, <1>6, <2>1, <2>2 DEF CountsInv, CountsAgree, CountsMore, Sync
<1>7. ASSUME NEW c, Manager(c), c.wid = cbm.wid + Len(compressOp), c.locked = FALSE,
             compressOp' = <<>>,
             NEW f \in Nat
      PROVE  CountsMore(c, DeviceSeek(c, f), 0, FALSE)
  <2>1. KeptType(c, DeviceSeek(c, f))
    BY <1>7, DeviceSeekType
  <2>2. c.wid \in Nat
    BY <1>7, ManagerFields
  <2> QED
    BY <1>7, <2>1, <2>2 DEF KeptType, SameCounts, CountsMore
<1>8. ASSUME NEW gaveBack \in BOOLEAN, NEW f \in decompressOps, FlushDecompress(f, gaveBack)
      PROVE  CountsInv'
  <2>1. PICK c, d : c = Synced(cbm, gaveBack) /\ d = DeviceSeek(c, f[2])
    OBVIOUS
  <2>2. Manager(d) /\ d.locked = FALSE /\ d.wid = cbm.wid + Len(compressOp)
    <3>1. CountsMore(cbm, c, Len(compressOp), FALSE)
      BY <1>2, <2>1
    <3>2. f[2] \in Int
      BY DEF CountsInv, FrameIds
    <3>3. KeptType(c, d)
      BY <2>1, <3>1, <3>2, DeviceSeekType DEF CountsMore
    <3> QED
      BY <3>1, <3>3 DEF CountsMore, KeptType, SameCounts
  <2>3. Deliver(f, d)
    BY <1>8, <2>1 DEF FlushDecompress
  <2>4. KeptType(d, cbm')
    BY <2>2, <2>3, DecompressedFrameType DEF Deliver, KeptType, SameCounts
  <2>5. IsFiniteSet(decompressOps \ {f}) /\ Cardinality(decompressOps \ {f}) <= MaxDeferred
    <3>1. /\ IsFiniteSet(decompressOps) /\ MaxDeferred \in Nat
          /\ Cardinality(decompressOps) <= MaxDeferred
      BY CisAssumption DEF CountsInv
    <3>2. Cardinality(decompressOps) \in Nat
      BY ONLY <3>1, FS_CardinalityType
    <3>3. /\ IsFiniteSet(decompressOps \ {f})
          /\ Cardinality(decompressOps \ {f}) = Cardinality(decompressOps) - 1
      BY ONLY <3>1, f \in decompressOps, FS_RemoveElement
    <3> QED
      BY <3>1, <3>2, <3>3
  <2>6. decompressOps' = decompressOps \ {f} /\ compressOp' = <<>>
    BY <1>8 DEF FlushDecompress
  <2>7. cbm'.wid + Len(compressOp') = writeFrame'
    BY <1>1, <1>4, <1>8, <2>2, <2>4, <2>6 DEF KeptType, SameCounts, FlushDecompress
  <2> QED
    BY <1>4, <1>8, <2>2, <2>4, <2>5, <2>6, <2>7
       DEF CountsInv, CountsAgree, KeptType, SameCounts, FlushDecompress
<1>9. ASSUME NEW gaveBack \in BOOLEAN, Query(gaveBack) PROVE CountsInv'
  <2>1. PICK c, d : c = Synced(cbm, gaveBack) /\ d = DeviceSeek(c, readFrame)
    OBVIOUS
  <2>2. Manager(d) /\ d.locked = FALSE /\ d.wid = cbm.wid + Len(compressOp)
    <3>1. CountsMore(cbm, c, Len(compressOp), FALSE)
      BY <1>2, <2>1
    <3>2. KeptType(c, d)
      BY <1>1, <2>1, <3>1, DeviceSeekType DEF CountsMore
    <3> QED
      BY <3>1, <3>2 DEF CountsMore, KeptType, SameCounts
  <2>3. cbm' \in {d, NumberOfFrames(d)} /\ compressOp' = <<>>
    BY <1>9, <2>1 DEF Query
  <2>4. KeptType(d, cbm')
    BY <2>2, <2>3, NumberOfFramesType DEF KeptType, SameCounts
  <2>5. cbm'.wid + Len(compressOp') = writeFrame'
    BY <1>1, <1>4, <1>9, <2>2, <2>3, <2>4 DEF KeptType, SameCounts, Query
  <2> QED
    BY <1>4, <1>9, <2>2, <2>3, <2>4, <2>5
       DEF CountsInv, CountsAgree, KeptType, SameCounts, Query
<1>10. ASSUME NEW n \in PutSizes, NEW attached, Put(n, attached),
              CountsMore(cbm, attached, n, FALSE)
       PROVE  CountsInv'
  <2>1. n \in Nat /\ writeFrame' \in 0 .. MaxFrame /\ writeFrame' = writeFrame + n
    BY <1>1, <1>10, CisAssumption DEF Put
  <2>2. cbm'.wid + Len(compressOp') = writeFrame'
    BY <1>1, <1>10, <2>1 DEF Put, CountsMore
  <2> QED
    BY <1>10, <2>1, <2>2 DEF Put, CountsMore, CountsInv, CountsAgree
<1>11. ASSUME NEW n \in PutSizes, \/ Put(n, PutBits(cbm, Frames(writeFrame, n)))
                                  \/ Put(n, PutBitsPtr(cbm, Frames(writeFrame, n)))
       PROVE  CountsInv'
  <2>1. n \in Nat
    BY CisAssumption
  <2>2. PICK frames : frames = Frames(writeFrame, n)
    OBVIOUS
  <2>3. frames \in Seq(FrameIds) /\ Len(frames) = n
    <3>1. \A i \in 1 .. n : Frame(writeFrame + i - 1) \in FrameIds
      BY <1>1, <1>3, <2>1
    <3>2. frames \in [1 .. n -> FrameIds]
      BY <2>2, <3>1 DEF Frames
    <3> QED
      BY <2>1, <3>2
  <2>4. /\ CountsMore(cbm, PutBits(cbm, frames), n, FALSE)
        /\ CountsMore(cbm, PutBitsPtr(cbm, frames), n, FALSE)
    BY <1>1, <2>3, PutBitsType
  <2> QED
    BY <1>10, <1>11, <2>2, <2>4
<1>12. ASSUME NEW c, Manager(c), c.wid = cbm.wid, c.locked = FALSE, NEW read \in Nat,
              ReadFrameTo(c, read)
       PROVE  /\ Manager(cbm') /\ cbm'.locked = FALSE /\ cbm'.wid = cbm.wid
              /\ readFrame' \in Nat /\ startFrame' \in Nat
  <2>1. StartFor(read) \in Nat
    BY <1>1, <1>12 DEF StartFor, KeepReached
  <2>2. KeptType(c, AdjustStart(c, StartFor(read)))
    BY <1>12, <2>1, AdjustStartType
  <2> QED
    BY <1>12, <2>1, <2>2 DEF ReadFrameTo, KeptType, SameCounts
<1>13. CASE Decompress
  <2>1. PICK d : d = DeviceSeek(cbm, readFrame)
    OBVIOUS
  <2>2. Manager(d) /\ d.wid = cbm.wid /\ d.locked = FALSE
    <3>1. readFrame \in Int
      BY <1>1
    <3>2. KeptType(cbm, d)
      BY ONLY <1>1, <2>1, <3>1, DeviceSeekType
    <3> QED
      BY <1>1, <3>2 DEF KeptType, SameCounts
  <2>3. /\ Manager(cbm') /\ cbm'.locked = FALSE /\ cbm'.wid = cbm.wid
        /\ readFrame' \in Nat /\ startFrame' \in Nat
    <3>1. PICK read : read = readFrame + 1
      OBVIOUS
    <3>2. ReadFrameTo(d, read) /\ read \in Nat
      BY <1>1, <1>13, <2>1, <3>1 DEF Decompress
    <3> QED
      BY ONLY <1>12, <2>2, <3>2
  <2>4. /\ IsFiniteSet(decompressOps \cup {Frame(readFrame)})
        /\ Cardinality(decompressOps \cup {Frame(readFrame)}) <= MaxDeferred
    <3>1. /\ IsFiniteSet(decompressOps) /\ MaxDeferred \in Nat
          /\ Cardinality(decompressOps) < MaxDeferred
      BY <1>13, CisAssumption DEF CountsInv, Decompress
    <3>2. Cardinality(decompressOps) \in Nat
      BY ONLY <3>1, FS_CardinalityType
    <3>3. PICK x : x = Frame(readFrame)
      OBVIOUS
    <3>4. /\ IsFiniteSet(decompressOps \cup {x})
          /\ \/ Cardinality(decompressOps \cup {x}) = Cardinality(decompressOps)
             \/ Cardinality(decompressOps \cup {x}) = Cardinality(decompressOps) + 1
      BY ONLY <3>1, FS_AddElement
    <3> QED
      BY <3>1, <3>2, <3>3, <3>4
  <2>5. Frame(readFrame) \in FrameIds
    BY <1>1, <1>3
  <2> QED
    BY <1>13, <2>3, <2>4, <2>5 DEF CountsInv, CountsAgree, Decompress
<1>14. CASE GetBits
  <2>1. PICK d : d = DeviceSeek(cbm, readFrame)
    OBVIOUS
  <2>2. Manager(d) /\ d.wid = cbm.wid /\ d.locked = FALSE
    <3>1. readFrame \in Int
      BY <1>1
    <3>2. KeptType(cbm, d)
      BY ONLY <1>1, <2>1, <3>1, DeviceSeekType
    <3> QED
      BY <1>1, <3>2 DEF KeptType, SameCounts
  <2>3. KeptType(d, cbm') /\ readFrame' = readFrame + Len(AvailFrames(d))
        /\ Len(AvailFrames(d)) \in Nat
    BY <1>14, <2>1, <2>2, GetBitsPtrType DEF GetBits, HandOut
  <2>4. readFrame' \in Nat
    BY <1>1, <2>3
  <2> QED
    BY <1>14, <2>2, <2>3, <2>4 DEF CountsInv, CountsAgree, KeptType, SameCounts, GetBits
<1>15. ASSUME NEW goal \in 0 .. MaxFrame, CisSeek(goal) PROVE CountsInv'
  <2>1. goal \in Nat
    BY CisAssumption
  <2>2. /\ Manager(cbm') /\ cbm'.locked = FALSE /\ cbm'.wid = cbm.wid
        /\ readFrame' \in Nat /\ startFrame' \in Nat
    BY <1>1, <1>12, <1>15, <2>1 DEF CisSeek
  <2> QED
    BY <1>15, <2>2 DEF CountsInv, CountsAgree, CisSeek, FlushPriorDecompressOps
<1>16. ASSUME NEW k \in KeepValues, SetKeepFrames(k) PROVE CountsInv'
  BY <1>16 DEF CountsInv, CountsAgree, SetKeepFrames
<1>17. ASSUME NEW m \in MaxValues, SetMaxFrames(m) PROVE CountsInv'
  BY <1>17 DEF CountsInv, CountsAgree, SetMaxFrames
<1>18. CASE Reset
  <2>1. PICK c : c = InitValues
    OBVIOUS
  <2>2. /\ c.bufs = <<>> /\ c.s = NoBuffer /\ c.r = NoBuffer /\ c.w = NoBuffer
        /\ c.wid = 0 /\ c.locked = FALSE /\ c \in Managers
    BY <2>1 DEF InitValues, NoBuffer, Managers
  <2>3. Manager(c)
    BY <2>2 DEF Manager, Pointers
  <2>4. cbm' = c /\ compressOp' = <<>> /\ resets' = resets + 1 /\ writeFrame' = 0
    BY <1>18, <2>1 DEF Reset
  <2> QED
    BY <1>4, <1>18, <2>2, <2>3, <2>4, CisAssumption DEF CountsInv, CountsAgree, Reset
<1>19. CASE UNCHANGED vars
  BY <1>19 DEF CountsInv, CountsAgree, vars
<1> QED
  BY <1>5, <1>6, <1>8, <1>9, <1>11, <1>13, <1>14, <1>15, <1>16, <1>17, <1>18, <1>19 DEF Next

LEMMA CountsInvariant == Spec => []CountsInv
<1> QED
  BY CountsInit, CountsStep, PTL DEF Spec

\* The three buffers of the manager are in its list, XilCis's numbers are in their
\* ranges, and no write buffer is left locked.
THEOREM CisTypeCorrect == Spec => []TypeOK
<1>1. CountsInv => TypeOK
  <2> SUFFICES ASSUME CountsInv PROVE TypeOK
    OBVIOUS
  <2>1. {cbm.s, cbm.r, cbm.w} \subseteq 0 .. Len(cbm.bufs)
    BY ManagerFields DEF CountsInv, Manager, Pointers, NoBuffer
  <2>2. Len(compressOp) <= 1
    <3>1. CASE compressOp = <<>>
      BY <3>1
    <3>2. ASSUME NEW frame \in FrameIds, compressOp = <<frame>> PROVE Len(compressOp) <= 1
      BY <3>2
    <3> QED
      BY <3>1, <3>2 DEF CountsInv, AtMostOne
  <2> QED
    BY <2>1, <2>2 DEF CountsInv, TypeOK
<1> QED
  BY <1>1, CountsInvariant, PTL

\* XilCis numbers the frames when they are asked for and the buffer manager when they
\* are compressed: they differ by the pending compression and nothing else, in every
\* order of calls and for every compressor, also where the frames themselves are not
\* the right ones.
THEOREM CountsCorrect == Spec => []CountsAgree
<1>1. CountsInv => CountsAgree
  BY DEF CountsInv
<1> QED
  BY <1>1, CountsInvariant, PTL
==============================================================================
