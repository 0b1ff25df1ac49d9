--------------------------- MODULE CisBufferManager ---------------------------
(***************************************************************************)
(* XilCisBufferManager (src/src/libxil/lib/XilCisBufferManager.cc): the    *)
(* list of the buffers of one compressed image sequence (CIS), the start,  *)
(* the read and the write buffer, and what moves them.  The manager is a   *)
(* record c of                                                             *)
(*    bufs    buffer_list                                                  *)
(*    s r w   s_buffer_pos, r_buffer_pos, w_buffer_pos: a position in the  *)
(*            list, or NoBuffer; s_buffer, r_buffer and w_buffer are the   *)
(*            buffers there                                                *)
(*    wid     write_frame_id                                               *)
(*    off     s_buffer_frame_offset                                        *)
(*    next    next_decompress_frame                                        *)
(*    locked  w_buffer_locked                                              *)
(*    null    whether a step used a null pointer; the program ends there   *)
(* Every operator is one method and returns the manager after it.  Those   *)
(* that seek return the manager and the frames to burn, -1 for an error.   *)
(* No frame has a type (the seeks' default type XIL_CIS_ANY_FRAME_TYPE     *)
(* matches all of them) and no memory allocation fails.                    *)
(***************************************************************************)
EXTENDS CisBuffer

NoBuffer == 0

InitValues ==
    [bufs |-> <<>>, s |-> NoBuffer, r |-> NoBuffer, w |-> NoBuffer, wid |-> 0,
     off |-> 0, next |-> 0, locked |-> FALSE, null |-> FALSE]

NullUsed(c) == [c EXCEPT !.null = TRUE]

S(c) == c.bufs[c.s]
R(c) == c.bufs[c.r]
W(c) == c.bufs[c.w]

SFrameId(c) == S(c).start + c.off

\* Whether the read position has reached the write position.
ReadIsAtWrite(c) == c.r = c.w /\ ~AtFrame(R(c))

AppendBuffer(c, b) == [c EXCEPT !.bufs = Append(@, b), !.w = Len(c.bufs) + 1]
AppendAndRead(c, b) == [AppendBuffer(c, b) EXCEPT !.r = Len(c.bufs) + 1]

-----------------------------------------------------------------------------
(***************************************************************************)
(* Compressing a frame: nextBuffer() finds room for it, compressedFrame()  *)
(* counts it.  The routines that ask for space instead lock the write      *)
(* buffer in nextBufferSpace() and unlock it in doneBufferSpace(), either  *)
(* with a frame or, with -1 bytes, without one.                            *)
(***************************************************************************)
NextBuffer(c, capacity) ==
    LET b == NewBuffer(capacity) IN
    IF c.w = NoBuffer
    THEN [c EXCEPT !.bufs = Append(@, b), !.s = 1, !.r = 1, !.w = 1]
    ELSE IF Room(W(c)) >= 1 THEN c
    ELSE IF ~ReadIsAtWrite(c) THEN AppendBuffer(c, b)
    ELSE IF c.s = c.r /\ S(c).num = 0
         THEN [c EXCEPT !.bufs = Append(Tail(@), b), !.s = Len(c.bufs),
                        !.r = Len(c.bufs), !.w = Len(c.bufs)]
         ELSE AppendAndRead(c, b)

NextBufferSpace(c, capacity) == [NextBuffer(c, capacity) EXCEPT !.locked = TRUE]

CompressedFrame(c, frame) ==
    [c EXCEPT !.bufs[c.w] = AddFrames(@, <<frame>>, c.wid), !.wid = @ + 1]

\* A variant of DoneBufferSpace that leaves the buffer locked.
DoneStaysLocked(c, frame) == CompressedFrame(c, frame)

DoneBufferSpace(c, frame) == [CompressedFrame(c, frame) EXCEPT !.locked = FALSE]

\* doneBufferSpace(-1): an empty write buffer is given back, and the read
\* position with it.
RemoveOnly(c) ==
    [c EXCEPT !.bufs = <<>>, !.s = NoBuffer, !.r = NoBuffer, !.w = NoBuffer]

RemoveLast(c) ==
    LET left == SubSeq(c.bufs, 1, c.w - 1)
    IN [c EXCEPT !.bufs = IF c.r = c.w THEN [left EXCEPT ![c.w - 1] = UnRead(left[c.w - 1])]
                          ELSE left,
                 !.r = IF @ = c.w THEN @ - 1 ELSE @,
                 !.w = @ - 1]

CancelBufferSpace(c) ==
    [(IF W(c).num # 0 THEN c ELSE IF c.w = c.s THEN RemoveOnly(c) ELSE RemoveLast(c))
        EXCEPT !.locked = FALSE]

-----------------------------------------------------------------------------
(***************************************************************************)
(* Frames the caller has compressed already: putBits() copies them, into a *)
(* new buffer when the write buffer has no room; putBitsPtr() always makes *)
(* a buffer around the caller's data.                                      *)
(***************************************************************************)
StartIfNone(c) == IF c.s = NoBuffer THEN [c EXCEPT !.s = c.w] ELSE c

Attach(c, b) ==
    StartIfNone(IF c.r # NoBuffer /\ ~ReadIsAtWrite(c) THEN AppendBuffer(c, b)
                ELSE AppendAndRead(c, b))

PutBits(c, frames) ==
    LET n == Len(frames)
        d == IF c.w = NoBuffer \/ Room(W(c)) < n THEN Attach(c, NewBuffer(n)) ELSE c
    IN [d EXCEPT !.bufs[d.w] = AddFrames(@, frames, c.wid), !.wid = @ + n]

PutBitsPtr(c, frames) ==
    [Attach(c, UserBuffer(frames, c.wid)) EXCEPT !.wid = @ + Len(frames)]

-----------------------------------------------------------------------------
(***************************************************************************)
(* Decompressing: nextFrame() gives the frame at the read position, which  *)
(* decompressedFrame() then passes.                                        *)
(***************************************************************************)
HasFrame(c) == c.r # NoBuffer /\ AtFrame(R(c))
NextFrame(c) == R(c).mem[R(c).ptr + 1]

ToNextBuffer(c) ==
    IF c.r < Len(c.bufs) THEN [c EXCEPT !.r = @ + 1, !.bufs[c.r + 1] = ReRead(@)] ELSE c

NextIsRFrame(c) == [c EXCEPT !.next = RFrameId(R(c))]
ReadOn(c) == IF AtFrame(R(c)) THEN c ELSE ToNextBuffer(c)

DecompressedFrame(c) ==
    IF c.r = NoBuffer \/ ~Valid(R(c), R(c).pos) THEN NullUsed(c)
    ELSE NextIsRFrame(ReadOn([c EXCEPT !.bufs[c.r] = Decompressed(@)]))

\* getBitsPtr(): the rest of the read buffer; the manager after it.
AvailFrames(c) == IF c.r = NoBuffer THEN <<>> ELSE Avail(R(c))

GetBitsPtr(c) ==
    IF c.r = NoBuffer THEN c
    ELSE ToNextBuffer([c EXCEPT !.bufs[c.r] = IF Avail(@) = <<>> THEN @ ELSE UnRead(@)])

-----------------------------------------------------------------------------
(***************************************************************************)
(* Seeking.  seek() first goes back to next_decompress_frame, whatever the *)
(* frame it was asked for, and gives up when that fails.                   *)
(***************************************************************************)
Moved(c, burn) == [cbm |-> c, burn |-> burn]

InBuffer(c, i, found) == Moved([c EXCEPT !.r = i, !.bufs[i] = found.buf], found.burn)
SeekInBuffer(c, i, f) == InBuffer(c, i, SeekTo(c.bufs[i], f))

LastId(b) == b.start + b.num - 1

SeekBackward(c, f) ==
    SeekInBuffer(c, Max({i \in c.s .. c.r : i = c.s \/ f >= c.bufs[i].start}), f)

SeekForwardIn(c, i, f) ==
    IF f \in c.bufs[i].start .. LastId(c.bufs[i]) THEN SeekInBuffer(c, i, f)
    ELSE Moved([c EXCEPT !.r = i], -1)

SeekForward(c, f) ==
    SeekForwardIn(c, Min({i \in c.r .. c.w : i = c.w \/ f <= LastId(c.bufs[i])}), f)

ToWriteFrame(c) ==
    IF c.bufs = <<>> THEN c
    ELSE [c EXCEPT !.r = Len(c.bufs), !.bufs[Len(c.bufs)] = UnRead(@)]

ToNextDecompress(c, id) ==
    CASE c.next = c.wid \/ id = c.next -> Moved(c, 0)
      [] c.next # c.wid /\ id > c.next -> SeekBackward(c, c.next)
      [] OTHER -> SeekForward(c, c.next)

ReadFirst(c) == [c EXCEPT !.r = 1, !.bufs[1] = ReRead(@)]

SeekFrom(there, id, f) ==
    LET c == there.cbm IN
    CASE there.burn # 0 -> Moved(c, -1)
      [] there.burn = 0 /\ f > id -> SeekForward(c, f)
      [] there.burn = 0 /\ f <= id /\ f < S(c).start -> Moved(c, -1)
      [] there.burn = 0 /\ f <= id /\ f >= S(c).start /\ f = SFrameId(c) ->
            IF c.off # 0 THEN SeekForward(ReadFirst(c), f) ELSE Moved(ReadFirst(c), 0)
      [] OTHER -> SeekBackward(c, f)

SeekFromRead(c, id, f) ==
    CASE f = id -> Moved(c, 0)
      [] f # id /\ (id = UnknownId \/ f > c.wid) -> Moved(c, -1)
      [] f # id /\ id # UnknownId /\ f = c.wid -> Moved(ToWriteFrame(c), 0)
      [] OTHER -> SeekFrom(ToNextDecompress(c, id), IF c.next = c.wid THEN id ELSE c.next, f)

Seek(c, f) ==
    IF c.r = NoBuffer THEN Moved(c, IF f = 0 THEN 0 ELSE -1)
    ELSE SeekFromRead(c, RFrameId(R(c)), f)

\* numberOfFrames() walks to the write buffer and seeks back.
ReadLastBuffer(c) ==
    [c EXCEPT !.r = c.w,
              !.bufs = [i \in DOMAIN @ |-> IF i \in c.r + 1 .. c.w THEN ReRead(@[i]) ELSE @[i]]]

NumberOfFrames(c) ==
    IF c.r = NoBuffer THEN c ELSE Seek(ReadLastBuffer(c), RFrameId(R(c))).cbm

-----------------------------------------------------------------------------
(***************************************************************************)
(* adjustStart(): frames before f are dropped.  The buffers before the one *)
(* f lies in are deleted and that one's start is moved; then the read      *)
(* position is restored, if it still exists.                               *)
(***************************************************************************)
DropBefore(c) ==
    [c EXCEPT !.bufs = SubSeq(@, c.r, Len(@)), !.s = 1, !.r = 1, !.w = @ - c.r + 1]

StartAdjusted(c, offset) ==
    [c EXCEPT !.off = offset, !.bufs[1] = AdjustStartToRFrame(@)]

NextKept(c, next) == [c EXCEPT !.next = IF next <= S(c).start THEN S(c).start ELSE next]
ReadRestored(c, id) == IF id > S(c).start THEN Seek(c, id).cbm ELSE c

StartMoved(c, sought) ==
    IF sought.burn < 0 THEN sought.cbm
    ELSE IF ~HasInfo(R(sought.cbm)) THEN NullUsed(sought.cbm)
    ELSE ReadRestored(
            NextKept(StartAdjusted(DropBefore(sought.cbm), sought.burn), c.next),
            RFrameId(R(c)))

AdjustStart(c, f) ==
    IF c.r = NoBuffer THEN c
    ELSE StartMoved(c, Seek([c EXCEPT !.next = S(c).start], f))
=============================================================================
