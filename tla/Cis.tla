---------------------------------- MODULE Cis ----------------------------------
(***************************************************************************)
(* A compressed image sequence: XilCis (src/src/libxil/lib/XilCis.cc) with *)
(* the compressions and decompressions that are deferred on it             *)
(* (ops/XilOpCompress.cc, ops/XilOpDecompress.cc), over the buffer manager *)
(* of its compressor.                                                      *)
(*                                                                         *)
(* There are two views of the sequence.  XilCis numbers the frames when    *)
(* the caller asks for them (read_frame, write_frame, start_frame); the    *)
(* buffer manager when they are compressed or decompressed, which may be   *)
(* much later: at most one compression is pending, and a decompression     *)
(* waits until its image is needed.  What the caller wants is that the two *)
(* agree: the image of frame n gets what was written as frame n.           *)
(*                                                                         *)
(* The calls on one CIS exclude each other (its lock), so a call is one    *)
(* action, and so is the flush of a deferred operation.  A frame is known  *)
(* by its number and by the number of resets before it.                    *)
(***************************************************************************)
EXTENDS CisBufferManager

CONSTANTS
    Capacity,      \* num_frames_per_buffer
    MaxFrame,      \* bound: frames written between two resets
    PutSizes,      \* the numbers of frames put at once
    KeepValues,    \* the values given to keep_frames
    MaxValues,     \* the values given to max_frames
    MaxDeferred,   \* bound: decompressions deferred at once
    MaxResets,     \* bound: resets
    WaitsFor       \* what the caller waits for: see Waited, NothingPending, FrameIsThere

ASSUME CisAssumption ==
    /\ Capacity \in Nat \ {0}
    /\ MaxFrame \in Nat
    /\ PutSizes \subseteq 1 .. MaxFrame
    /\ KeepValues \subseteq Nat \cup {-1}
    /\ MaxValues \subseteq Nat \cup {-1}
    /\ MaxDeferred \in Nat
    /\ MaxResets \in Nat
    /\ WaitsFor \subseteq {"images", "compression", "frames"}

NoLimit == -1
Compressors == {"next buffer", "buffer space"}
None == [resets |-> 0, asked |-> UnknownId, frames |-> <<>>]

VARIABLES
    cbm,            \* the buffer manager
    readFrame, writeFrame, startFrame,
    keepFrames, maxFrames,
    compressOp,     \* the frame of the deferred compression: at most one
    decompressOps,  \* the frames of the deferred decompressions
    compressor,     \* how its compressor finds room; it never changes
    resets,         \* how often the sequence was reset
    got             \* what the last decompression or getBitsPtr() delivered

vars == <<cbm, readFrame, writeFrame, startFrame, keepFrames, maxFrames,
          compressOp, decompressOps, compressor, resets, got>>

Frame(n) == <<resets, n>>
Frames(n, count) == [i \in 1 .. count |-> Frame(n + i - 1)]

Init ==
    /\ cbm = InitValues
    /\ readFrame = 0
    /\ writeFrame = 0
    /\ startFrame = 0
    /\ keepFrames = NoLimit
    /\ maxFrames = NoLimit
    /\ compressOp = <<>>
    /\ decompressOps = {}
    /\ compressor \in Compressors
    /\ resets = 0
    /\ got = None

-----------------------------------------------------------------------------
(***************************************************************************)
(* The compressor.  Its seek() burns the frames between the place the      *)
(* manager found and the one it was asked for.  Its compress routine       *)
(* either seeks to the frame and adds it to the next buffer (identity), or *)
(* asks for space (fax, JPEG, CellB); a molecule that cannot do the job    *)
(* gives the space back and the single operation then does it.             *)
(***************************************************************************)
Burn(c, n) ==
    LET burnt[k \in 0 .. n] == IF k = 0 THEN c ELSE DecompressedFrame(burnt[k - 1])
    IN burnt[n]

BurnFrames(there) == IF there.burn > 0 THEN Burn(there.cbm, there.burn) ELSE there.cbm
DeviceSeek(c, f) == BurnFrames(Seek(c, f))

Running == ~cbm.null

\* gaveBack: whether a molecule asked for space first and gave it back.  The frames are
\* untyped: the identity codec, which is of the "next buffer" kind, gives seek() and
\* adjustStart() the type of its frames, which changes what they keep and burn.
Compressed(c, frame, gaveBack) ==
    IF compressor = "next buffer"
    THEN CompressedFrame(NextBuffer(DeviceSeek(c, frame[2]), Capacity), frame)
    ELSE LET d == IF gaveBack THEN CancelBufferSpace(NextBufferSpace(c, Capacity)) ELSE c
         IN DoneBufferSpace(NextBufferSpace(d, Capacity), frame)

MayGiveBack(gaveBack) == gaveBack => compressor = "buffer space"

\* A variant of Synced that leaves the pending compression behind.
NotSynced(c, gaveBack) == c

\* sync(): the manager after the pending compression was flushed.
Synced(c, gaveBack) == IF compressOp = <<>> THEN c ELSE Compressed(c, compressOp[1], gaveBack)

(***************************************************************************)
(* When the start moves, operations that still want an earlier frame have  *)
(* to be flushed: flushPriorDecompressOps() walks the list `dependents' of *)
(* XilCis, which nothing ever fills, so it does nothing.  A caller who     *)
(* waits for his images does so before a call that moves the start, or     *)
(* resets; one who waits for his compression does so before a call that    *)
(* puts or gets frames, or moves the start up to the pending frame.        *)
(***************************************************************************)
FlushPriorDecompressOps == UNCHANGED decompressOps

Waited(start) ==
    /\ "images" \in WaitsFor => \A f \in decompressOps : f[2] >= start
    /\ "compression" \in WaitsFor => start = startFrame \/ start < cbm.wid

NothingPending == "compression" \in WaitsFor => compressOp = <<>>

-----------------------------------------------------------------------------
(***************************************************************************)
(* xil_compress(): XilOpCompress::create() takes the next frame number and *)
(* moves the start when there would be more than max_frames frames; then   *)
(* setOp() flushes the compression that was pending, and the new one takes *)
(* its place.                                                              *)
(***************************************************************************)
MaxReached == maxFrames > 0 /\ writeFrame + 1 - startFrame > maxFrames

Compress(gaveBack) ==
    LET start == IF MaxReached THEN writeFrame + 1 - maxFrames ELSE startFrame IN
    /\ Running /\ MayGiveBack(gaveBack)
    /\ writeFrame < MaxFrame
    /\ Waited(start)
    /\ writeFrame' = writeFrame + 1
    /\ startFrame' = start
    /\ readFrame' = IF readFrame < start THEN start ELSE readFrame
    /\ cbm' = Synced(IF MaxReached THEN AdjustStart(cbm, start) ELSE cbm, gaveBack)
    /\ compressOp' = <<Frame(writeFrame)>>
    /\ FlushPriorDecompressOps
    /\ UNCHANGED <<compressor, keepFrames, maxFrames, resets, got>>

\* xil_cis_sync(), and any other flush of the pending compression.
Sync(gaveBack) ==
    /\ Running /\ MayGiveBack(gaveBack)
    /\ compressOp # <<>>
    /\ cbm' = Synced(cbm, gaveBack)
    /\ compressOp' = <<>>
    /\ UNCHANGED <<compressor, readFrame, writeFrame, startFrame, keepFrames, maxFrames,
                   decompressOps, resets, got>>

\* xil_cis_put_bits() and xil_cis_put_bits_ptr(): neither waits for a pending
\* compression.
Put(n, attached) ==
    /\ Running
    /\ writeFrame + n <= MaxFrame
    /\ NothingPending
    /\ writeFrame' = writeFrame + n
    /\ cbm' = attached
    /\ UNCHANGED <<compressor, readFrame, startFrame, keepFrames, maxFrames, compressOp,
                   decompressOps, resets, got>>

-----------------------------------------------------------------------------
(***************************************************************************)
(* xil_decompress(): XilOpDecompress::create() seeks to the read frame,    *)
(* notes its number in the operation, passes it, and moves the start when  *)
(* more than keep_frames frames lie before the read frame.  The operation  *)
(* is flushed later.  It does not ask whether there is such a frame: past  *)
(* the write frame the compressor's seek() fails, which nobody notices,    *)
(* and the frame that is next wherever it stands is delivered.  A caller   *)
(* who waits for frames asks first (xil_cis_has_frame()).                  *)
(***************************************************************************)
FrameIsThere == "frames" \in WaitsFor => readFrame < writeFrame

KeepReached(read) == keepFrames > 0 /\ read - startFrame >= keepFrames

StartFor(read) == IF KeepReached(read) THEN read - keepFrames ELSE startFrame

ReadFrameTo(c, read) ==
    /\ readFrame' = read
    /\ startFrame' = StartFor(read)
    /\ cbm' = IF KeepReached(read) THEN AdjustStart(c, StartFor(read)) ELSE c

Decompress ==
    /\ Running
    /\ FrameIsThere
    /\ readFrame <= MaxFrame   \* bound
    /\ Cardinality(decompressOps) < MaxDeferred
    /\ Waited(StartFor(readFrame + 1))
    /\ ReadFrameTo(DeviceSeek(cbm, readFrame), readFrame + 1)
    /\ decompressOps' = decompressOps \cup {Frame(readFrame)}
    /\ UNCHANGED <<compressor, writeFrame, keepFrames, maxFrames, compressOp, resets, got>>

\* The flush of a deferred decompression: setBoxStorage() flushes the pending
\* compression, the decompressor seeks to its frame and takes the next one.
Deliver(f, c) ==
    /\ cbm' = IF HasFrame(c) THEN DecompressedFrame(c) ELSE c
    /\ got' = [resets |-> f[1], asked |-> f[2],
               frames |-> IF HasFrame(c) THEN <<NextFrame(c)>> ELSE <<>>]

FlushDecompress(f, gaveBack) ==
    /\ Running /\ MayGiveBack(gaveBack)
    /\ f \in decompressOps
    /\ Deliver(f, DeviceSeek(Synced(cbm, gaveBack), f[2]))
    /\ decompressOps' = decompressOps \ {f}
    /\ compressOp' = <<>>
    /\ UNCHANGED <<compressor, readFrame, writeFrame, startFrame, keepFrames,
                   maxFrames, resets>>

\* xil_cis_get_bits_ptr().
HandOut(c) ==
    /\ cbm' = GetBitsPtr(c)
    /\ readFrame' = readFrame + Len(AvailFrames(c))
    /\ got' = [resets |-> resets, asked |-> readFrame, frames |-> AvailFrames(c)]

GetBits ==
    /\ Running
    /\ NothingPending
    /\ HandOut(DeviceSeek(cbm, readFrame))
    /\ UNCHANGED <<compressor, writeFrame, startFrame, keepFrames, maxFrames,
                   compressOp, decompressOps, resets>>

\* xil_cis_seek() to a frame.
CisSeek(goal) ==
    /\ Running
    /\ goal \in startFrame .. writeFrame
    /\ Waited(StartFor(goal))
    /\ ReadFrameTo(cbm, goal)
    /\ FlushPriorDecompressOps
    /\ UNCHANGED <<compressor, writeFrame, keepFrames, maxFrames, compressOp, resets, got>>

\* xil_cis_has_frame() and xil_cis_number_of_frames().
Query(gaveBack) ==
    /\ Running /\ MayGiveBack(gaveBack)
    /\ LET found == DeviceSeek(Synced(cbm, gaveBack), readFrame)
       IN cbm' \in {found, NumberOfFrames(found)}
    /\ compressOp' = <<>>
    /\ UNCHANGED <<compressor, readFrame, writeFrame, startFrame, keepFrames, maxFrames,
                   decompressOps, resets, got>>

-----------------------------------------------------------------------------
SetKeepFrames(k) ==
    /\ Running
    /\ keepFrames' = IF k < maxFrames \/ maxFrames <= 0 THEN k ELSE maxFrames
    /\ UNCHANGED <<compressor, cbm, readFrame, writeFrame, startFrame, maxFrames, compressOp,
                   decompressOps, resets, got>>

SetMaxFrames(m) ==
    /\ Running
    /\ maxFrames' = m
    /\ keepFrames' = IF m > keepFrames THEN m ELSE keepFrames
    /\ UNCHANGED <<compressor, cbm, readFrame, writeFrame, startFrame, compressOp,
                   decompressOps, resets, got>>

\* xil_cis_reset(): the deferred decompressions are not flushed.
Reset ==
    /\ Running
    /\ resets < MaxResets
    /\ "images" \in WaitsFor => decompressOps = {}
    /\ readFrame' = 0
    /\ writeFrame' = 0
    /\ startFrame' = 0
    /\ keepFrames' = NoLimit
    /\ maxFrames' = NoLimit
    /\ cbm' = InitValues
    /\ compressOp' = <<>>
    /\ resets' = resets + 1
    /\ UNCHANGED <<compressor, decompressOps, got>>

Next ==
    \/ \E gaveBack \in BOOLEAN :
        \/ Compress(gaveBack)
        \/ Sync(gaveBack)
        \/ \E f \in decompressOps : FlushDecompress(f, gaveBack)
        \/ Query(gaveBack)
    \/ \E n \in PutSizes :
        \/ Put(n, PutBits(cbm, Frames(writeFrame, n)))
        \/ Put(n, PutBitsPtr(cbm, Frames(writeFrame, n)))
    \/ Decompress
    \/ GetBits
    \/ \E goal \in 0 .. MaxFrame : CisSeek(goal)
    \/ \E k \in KeepValues : SetKeepFrames(k)
    \/ \E m \in MaxValues : SetMaxFrames(m)
    \/ Reset

Spec == Init /\ [][Next]_vars

-----------------------------------------------------------------------------
\* The variables have the values the declarations say.
TypeOK ==
    /\ {cbm.s, cbm.r, cbm.w} \subseteq 0 .. Len(cbm.bufs)
    /\ readFrame \in Nat /\ writeFrame \in 0 .. MaxFrame /\ startFrame \in Nat
    /\ keepFrames \in KeepValues \cup MaxValues \cup {NoLimit}
    /\ maxFrames \in MaxValues \cup {NoLimit}
    /\ Len(compressOp) <= 1
    /\ Cardinality(decompressOps) <= MaxDeferred
    /\ ~cbm.locked

\* What is delivered is what was written under the numbers asked for: an image
\* gets its own frame, getBitsPtr() the frames from the read frame on.
FrameDelivered ==
    \A i \in DOMAIN got.frames : got.frames[i] = <<got.resets, got.asked + i - 1>>

\* Each buffer continues where the one before it ends, and so does each info
\* within a buffer; the last buffer ends at write_frame_id.
BuffersContiguous ==
    LET b == cbm.bufs IN
    /\ \A i \in DOMAIN b :
        b[i].start + b[i].num = IF i < Len(b) THEN b[i + 1].start ELSE cbm.wid
    /\ \A i \in DOMAIN b : \A j \in DOMAIN b[i].infos :
        LET here == b[i].infos[j] IN
        /\ here.id + here.num = IF j < End(b[i]) THEN b[i].infos[j + 1].id
                                ELSE b[i].start + b[i].num
        /\ here.at + here.num = IF j < End(b[i]) THEN b[i].infos[j + 1].at
                                ELSE Len(b[i].mem)

\* The read pointer of the read buffer and its position in the frame list say
\* the same, and no call looks for a frame info where there is none.
ReadPositionsAgree ==
    /\ ~cbm.null
    /\ cbm.r # NoBuffer =>
        R(cbm).ptr = IF Valid(R(cbm), R(cbm).pos)
                     THEN Retrieve(R(cbm), R(cbm).pos).at ELSE Len(R(cbm).mem)

\* Every frame from the start frame on that was compressed can be reached.
WindowKept ==
    LET Reached(c, f) == HasFrame(c) /\ NextFrame(c) = Frame(f)
    IN \A f \in startFrame .. cbm.wid - 1 : Reached(DeviceSeek(cbm, f), f)

\* XilCis and the buffer manager count the same frames: the pending compression
\* is the one that is missing.
CountsAgree == cbm.wid + Len(compressOp) = writeFrame
=============================================================================
