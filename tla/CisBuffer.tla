------------------------------ MODULE CisBuffer ------------------------------
(***************************************************************************)
(* One XilCisBuffer (src/src/libxil/lib/XilCisBuffer.cc): a block of       *)
(* memory that holds compressed frames, the list of frame infos that says  *)
(* which frames lie where, and the read position in both.                  *)
(*                                                                         *)
(* A frame takes one unit of memory, so that a number of frames and of     *)
(* bytes are the same; only complete frames, of known number, are put into *)
(* a buffer, so partial_frame is FALSE and no number of frames unknown.    *)
(* Frames have no type.  A buffer is a record of                           *)
(*    mem    what was written, from the address buffer_alloc on: wptr and  *)
(*           wfptr are Len(mem) whenever no frame is being written         *)
(*    base   the pointer `buffer', from buffer_alloc                       *)
(*    size   buffer_size, counted from base                                *)
(*    start  start_frame_id                                                *)
(*    num    num_frames                                                    *)
(*    infos  frame_list; an info is a segment of consecutive frames: its   *)
(*           start address, its number of frames and the first one's id    *)
(*    pos    rfpos, counted from 0; NoPosition before the first frame      *)
(*    ptr    rfptr, from buffer_alloc                                      *)
(***************************************************************************)
EXTENDS Integers, Sequences, FiniteSetsExt

UnknownId == -1
NoPosition == -1

Info(at, num, id) == [at |-> at, num |-> num, id |-> id]

\* A buffer of the library's own memory, and one around the caller's data.
NewBuffer(size) ==
    [mem |-> <<>>, base |-> 0, size |-> size, start |-> UnknownId, num |-> 0,
     infos |-> <<>>, pos |-> NoPosition, ptr |-> 0]

UserBuffer(frames, id) ==
    [mem |-> frames, base |-> 0, size |-> Len(frames), start |-> id,
     num |-> Len(frames), infos |-> <<Info(0, Len(frames), id)>>, pos |-> 0,
     ptr |-> 0]

-----------------------------------------------------------------------------
\* XiliFrameInfoAList: positions count from 0, end() is one past the last.
End(b) == Len(b.infos)
Valid(b, p) == p \in 0 .. End(b) - 1
Retrieve(b, p) == b.infos[p + 1]

Room(b) == b.size - (Len(b.mem) - b.base)
AtFrame(b) == b.ptr # Len(b.mem)

RFrameId(b) ==
    IF b.pos = NoPosition THEN UnknownId
    ELSE IF Valid(b, b.pos) THEN Retrieve(b, b.pos).id ELSE b.start + b.num

\* To the first frame of the buffer, and behind its last one.
ReRead(b) == [b EXCEPT !.ptr = b.base, !.pos = 0]
UnRead(b) == [b EXCEPT !.ptr = Len(b.mem), !.pos = End(b)]

\* copyFrames(), and incrNumCompressedFrames() for one frame.
AddFrames(b, frames, id) ==
    [b EXCEPT !.mem = @ \o frames,
              !.infos = Append(@, Info(Len(b.mem), Len(frames), id)),
              !.num = @ + Len(frames),
              !.start = IF b.pos = NoPosition THEN id ELSE @,
              !.pos = IF @ = NoPosition THEN 0 ELSE @]

-----------------------------------------------------------------------------
\* A variant of Split: the remaining frames keep the id of the first.
SplitKeepsId(b) ==
    LET i == Retrieve(b, b.pos) IN
    [b EXCEPT !.infos = SubSeq(@, 1, b.pos)
                          \o <<Info(i.at, 1, i.id), Info(i.at + 1, i.num - 1, i.id)>>
                          \o SubSeq(@, b.pos + 2, Len(@)),
              !.pos = @ + 1, !.ptr = i.at + 1]

(***************************************************************************)
(* incrNumDecompressedFrames(): one frame of the info at the read position *)
(* was decompressed.  An info of several frames is split, so that the next *)
(* frame has an info of its own.                                           *)
(***************************************************************************)
Split(b) ==
    LET i == Retrieve(b, b.pos) IN
    [b EXCEPT !.infos = SubSeq(@, 1, b.pos)
                          \o <<Info(i.at, 1, i.id), Info(i.at + 1, i.num - 1, i.id + 1)>>
                          \o SubSeq(@, b.pos + 2, Len(@)),
              !.pos = @ + 1, !.ptr = i.at + 1]

Advance(b) ==
    IF Valid(b, b.pos + 1)
    THEN [b EXCEPT !.pos = @ + 1, !.ptr = Retrieve(b, b.pos + 1).at]
    ELSE [b EXCEPT !.pos = @ + 1, !.ptr = Len(b.mem),
                   !.num = Retrieve(b, b.pos).id - b.start + 1]

Decompressed(b) ==
    IF Retrieve(b, b.pos).at # b.ptr THEN b
    ELSE IF Retrieve(b, b.pos).num > 1 THEN Split(b) ELSE Advance(b)

\* The number of frames in n infos from the read position on.
NumAvail(b, n) ==
    LET num[k \in 0 .. n] == IF k = 0 THEN 0 ELSE num[k - 1] + Retrieve(b, b.pos + k - 1).num
    IN num[n]

\* getAvailData(): every frame from the read position on is handed out.
Avail(b) ==
    IF b.pos # NoPosition /\ Valid(b, b.pos)
    THEN LET i == Retrieve(b, b.pos)
         IN SubSeq(b.mem, i.at + 1, i.at + NumAvail(b, End(b) - b.pos))
    ELSE <<>>

-----------------------------------------------------------------------------
(***************************************************************************)
(* Seeking inside a buffer.  The read position goes to the info that holds *)
(* the frame, and the result says how many frames the caller has to        *)
(* decompress from there (burn) to reach it; -1 is an error.               *)
(***************************************************************************)
\* A variant of ToBurn that counts the frame itself.
ToBurnWithIt(b, p, f) == f - Retrieve(b, p).id + 1

ToBurn(b, p, f) == f - Retrieve(b, p).id

Sought(b, burn) == [buf |-> b, burn |-> burn]

AtInfo(b, p, burn) == Sought([b EXCEPT !.pos = p, !.ptr = Retrieve(b, p).at], burn)

SeekForwardTo(b, f) ==
    LET here == {p \in b.pos .. End(b) - 1 : f < Retrieve(b, p).id + Retrieve(b, p).num}
        First(p) == AtInfo(b, p, ToBurn(b, p, f))
    IN IF b.pos = End(b) THEN Sought(b, f - (b.start + b.num))
       ELSE IF here = {} THEN Sought(UnRead(b), f - (b.start + b.num))
       ELSE First(Min(here))

SeekBackwardTo(b, f) ==
    LET last == IF b.pos = End(b) THEN b.pos - 1 ELSE b.pos
        Last(p) == AtInfo(b, p, IF f >= Retrieve(b, p).id THEN ToBurn(b, p, f) ELSE -1)
    IN IF last < 0 THEN Sought(b, -1)
       ELSE Last(Max({q \in 0 .. last : q = 0 \/ f >= Retrieve(b, q).id}))

\* From the frame id at the read position.
SeekFromId(b, id, f) ==
    CASE f = id -> Sought(b, 0)
      [] f # id /\ f = b.start -> Sought(ReRead(b), 0)
      [] f # id /\ (f < b.start \/ (f > b.start /\ id = UnknownId)) -> Sought(b, -1)
      [] f > b.start /\ id # UnknownId /\ f > id ->
            IF f <= id + (b.start + b.num - id) \div 2 THEN SeekForwardTo(b, f)
            ELSE SeekBackwardTo(UnRead(b), f)
      [] OTHER ->
            IF f >= b.start + (id - b.start) \div 2 THEN SeekBackwardTo(b, f)
            ELSE SeekForwardTo(ReRead(b), f)

SeekTo(b, f) == SeekFromId(b, RFrameId(b), f)

-----------------------------------------------------------------------------
(***************************************************************************)
(* adjustStartToRFrame(): the buffer is to begin at the read position.  At *)
(* the end of the list the code takes the number of frames and of bytes    *)
(* from the first info alone, though every info is dropped; it reads that  *)
(* info without asking whether there is one.                               *)
(***************************************************************************)
HasInfo(b) == End(b) > 0

\* A variant of StartAtInfo: the start moves without taking the dropped frames off the count.
StartKeepsCount(b) ==
    LET i == Retrieve(b, b.pos) IN
    [b EXCEPT !.infos = SubSeq(@, b.pos + 1, Len(@)), !.pos = 0,
              !.start = i.id, !.base = i.at, !.size = @ - (i.at - b.base)]

StartAtInfo(b) ==
    LET i == Retrieve(b, b.pos) IN
    [b EXCEPT !.infos = SubSeq(@, b.pos + 1, Len(@)), !.pos = 0,
              !.num = @ - (i.id - b.start), !.start = i.id,
              !.base = i.at, !.size = @ - (i.at - b.base)]

StartAtEnd(b) ==
    LET n == Retrieve(b, 0).num IN
    [b EXCEPT !.infos = <<>>, !.pos = 0, !.num = @ - n, !.start = @ + n,
              !.base = @ + n, !.size = @ - n]

AdjustStartToRFrame(b) == IF Valid(b, b.pos) THEN StartAtInfo(b) ELSE StartAtEnd(b)
=============================================================================
