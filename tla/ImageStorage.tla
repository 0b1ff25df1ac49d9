---------------------------- MODULE ImageStorage ----------------------------
(***************************************************************************)
(* Where the pixels of an image are (libxil/lib/XilImage.cc): the tiles    *)
(* and their storage on the memory device or on other storage devices,     *)
(* storage that compute routines ask for and give back, and the calls by   *)
(* which an application exports an image, gets pointers to its pixels,     *)
(* replaces them and imports the image again.                              *)
(*                                                                         *)
(* Pixels are Areas, a tile is a set of areas and a tile layout one of     *)
(* Layouts.  A buffer is one block of storage together with its XilStorage *)
(* object: "heap" says which device has allocated it and what it holds.    *)
(* Storage devices other than memory are loaded at run time; they are      *)
(* known by their interface, XilDeviceStorage, only.                       *)
(***************************************************************************)
EXTENDS Naturals, FiniteSets

CONSTANTS Areas,       \* parts of the image, numbers in the order of the tiles
          Layouts,     \* ways to cut the image into tiles: partitions of Areas
          ChildAreas,  \* the part a child image shows
          Memory,      \* the device "XilMemory"
          Devices,     \* the other storage devices
          Unreliable,  \* devices whose allocate() or copies may fail
          Handles,     \* threads of one compute routine
          Buffers,     \* bound: how many buffers exist at a time
          Values,      \* what a pixel can be
          Unknown,     \* the value of a pixel nobody has written
          NoBuffer, NoDevice, User,
          Careful,     \* does the application avoid the calls that go wrong?
          OneDevice    \* do the threads ask for storage on one device?

ASSUME DevicesAssumption ==
    /\ NoDevice \notin Devices \cup {Memory, User}
    /\ User \notin Devices \cup {Memory}
    /\ Memory \notin Devices
    /\ NoBuffer \notin Buffers

ASSUME LayoutsAssumption ==
    /\ Areas \subseteq Nat /\ IsFiniteSet(Areas)
    /\ Areas # {} /\ {Areas} \in Layouts
    /\ \A l \in Layouts : /\ UNION l = Areas
                          /\ {} \notin l
                          /\ \A s, t \in l : s # t => s \cap t = {}

VARIABLES exportMode,            \* "imported" or "exported"
          storageMovement,       \* "allow" or "stationary"
          tileArray,             \* device and storage of every tile
          exportedImageStorage,  \* the storage the application has a pointer to
          childStorage,          \* exportedImageStorage of the child image
          heap,                  \* owner and pixels of every buffer
          handle,                \* the storage every thread is using
          pointer,               \* what the application was told
          content                \* what the image shows, for the properties

vars == <<exportMode, storageMovement, tileArray, exportedImageStorage,
          childStorage, heap, handle, pointer, content>>

Pixels == [Areas -> Values \cup {Unknown}]
Blank == [a \in Areas |-> Unknown]
Free == [owner |-> NoDevice, data |-> Blank]
NoHandle == [kind |-> "none", device |-> NoDevice, storage |-> NoBuffer,
             box |-> {}, writable |-> FALSE]
NotExported == [storage |-> NoBuffer, cobbled |-> FALSE]
NoTile == {}                       \* also the key of a cobbled region

EmptyTiles(l) == [t \in l |-> [device |-> NoDevice, storage |-> NoBuffer]]

Init == /\ exportMode = "imported"
        /\ storageMovement = "allow"
        /\ \E l \in Layouts : tileArray = EmptyTiles(l)
        /\ exportedImageStorage = NotExported
        /\ childStorage = NoBuffer
        /\ heap = [b \in Buffers |-> Free]
        /\ handle = [h \in Handles |-> NoHandle]
        /\ pointer = [i \in {"image", "child"} |-> NoBuffer]
        /\ content = Blank

-----------------------------------------------------------------------------
(* Tiles and buffers.                                                      *)

Tiles == DOMAIN tileArray
TilesOf(box) == {t \in Tiles : t \cap box # {}}
TileOf(array, a) == CHOOSE t \in DOMAIN array : a \in t
StorageAt(array, a) == array[TileOf(array, a)].storage
Before(s, t) == \E a \in s : \A b \in t : a < b
NoHandles == \A h \in Handles : handle[h] = NoHandle
HasExportedStorage == exportedImageStorage.storage # NoBuffer

InUse == {tileArray[t].storage : t \in Tiles}
            \cup {exportedImageStorage.storage, childStorage}
            \cup {handle[h].storage : h \in Handles}
            \cup {pointer[i] : i \in DOMAIN pointer}

\* Ways to give every element of S a buffer of its own.
Places(S) ==
    {f \in [S -> {b \in Buffers : heap[b].owner = NoDevice} \ InUse] :
        \A s, t \in S : f[s] = f[t] => s = t}
New(S) == CHOOSE f \in Places(S) : TRUE

\* A tile getToDevice() has to allocate or to move: storage set by the user
\* counts as storage of the memory device.
Moves(t, d) ==
    \/ tileArray[t].storage = NoBuffer
    \/ tileArray[t].device # d /\ ~(tileArray[t].device = NoDevice /\ d = Memory)

\* The devices that take part in moving a tile, by way of the memory device
\* when neither can transfer it directly.
Involved(t, d) ==
    {d} \cup IF tileArray[t].device \in Devices
             THEN {tileArray[t].device, Memory} ELSE {}

MayFail(t, d) == Moves(t, d) /\ Involved(t, d) \cap Unreliable # {}

\* getToDevice() goes through the list until a tile fails.
Outcomes(box, d) == {NoTile} \cup {t \in TilesOf(box) : MayFail(t, d)}
Moved(box, d, failed) ==
    {t \in TilesOf(box) :
        Moves(t, d) /\ (failed # NoTile => Before(t, failed))}

\* When the target device fails on a tile that is in memory, memory_storage is
\* the storage of the tile itself, and it is deleted.
LostBy(failed) ==
    IF failed # NoTile /\ tileArray[failed].device = Memory
    THEN {tileArray[failed].storage} ELSE {}

\* Mutant: only the tiles just moved are recorded.
OnlyMoved(M, d, new) == [t \in M |-> [device |-> d, storage |-> new[t]]]
\* Mutant: the tile keeps the device it was on.
DeviceKept(M, d, new) ==
    [t \in Tiles |->
        IF t \in M THEN [tileArray[t] EXCEPT !.storage = new[t]] ELSE tileArray[t]]
TilesMoved(M, d, new) ==
    [t \in Tiles |->
        IF t \in M THEN [device |-> d, storage |-> new[t]] ELSE tileArray[t]]

\* Mutant: a tile that is moved is not copied.
NotCopied(t) == Blank
PixelsFor(t) ==
    [a \in Areas |-> IF a \in t /\ tileArray[t].storage # NoBuffer
                     THEN heap[tileArray[t].storage].data[a] ELSE Unknown]

\* The device deallocates what it had allocated.  Storage set by the user is only
\* overwritten in the tile (setStorage()): it is neither deleted nor released, and what it
\* holds is no concern of the image any more.
SetByUser(M) == {t \in M : tileArray[t].device = NoDevice}
StorageOf(M) == {tileArray[t].storage : t \in M}

HeapMoved(M, d, new, failed) ==
    [b \in Buffers |->
        IF \E t \in M : new[t] = b
        THEN [owner |-> d, data |-> PixelsFor(CHOOSE t \in M : new[t] = b)]
        ELSE IF b \in StorageOf(M \ SetByUser(M)) \cup LostBy(failed) THEN Free
        ELSE IF b \in StorageOf(SetByUser(M)) THEN [heap[b] EXCEPT !.data = Blank]
        ELSE heap[b]]

\* One contiguous buffer with the pixels of the tiles (cobble), and back.
Cobbled(hp, array, box) ==
    [a \in Areas |-> IF a \in box THEN hp[StorageAt(array, a)].data[a] ELSE Unknown]
Decobbled(hp, array, pixels, box) ==
    [b \in Buffers |->
        [hp[b] EXCEPT !.data = [a \in Areas |->
            IF a \in box /\ StorageAt(array, a) = b THEN pixels[a] ELSE @[a]]]]

-----------------------------------------------------------------------------
(* Storage for compute routines.                                           *)

Grant(h, kind, d, storage, box, writable) ==
    handle' = [handle EXCEPT ![h] =
        [kind |-> kind, device |-> d, storage |-> storage,
         box |-> box, writable |-> writable]]

\* What the callers do: threads never write the same pixels, and one function
\* asks for storage on one device.
MayAsk(h, d, box, writable) ==
    /\ handle[h] = NoHandle
    /\ box # {}
    /\ \A g \in Handles : handle[g] # NoHandle =>
          /\ OneDevice => handle[g].device = d
          /\ writable /\ handle[g].writable => handle[g].box \cap box = {}

\* Mutant: only an exported image refuses.
PermittedUnlessExported(d) == d = Memory \/ exportMode = "imported"
\* A request for another device is refused while the storage must not move.
Permitted(d) ==
    d = Memory \/ (exportMode = "imported" /\ storageMovement = "allow")

\* As long as the application has a pointer everybody uses what it points to.
GetExportedStorage(h, d, box, writable) ==
    /\ MayAsk(h, d, box, writable)
    /\ Permitted(d)
    /\ HasExportedStorage
    /\ Grant(h, "exported", d, exportedImageStorage.storage, box, writable)
    /\ UNCHANGED <<exportMode, storageMovement, tileArray, exportedImageStorage,
                   childStorage, heap, pointer, content>>

\* Getting the tiles of box to device d, with a buffer more when "extra" asks
\* for a cobbled region.
MoveTiles(box, d, failed, extra) ==
    LET M == Moved(box, d, failed)
        S == M \cup IF extra THEN {NoTile} ELSE {}
        new == New(S)
        array == TilesMoved(M, d, new)
        moved == HeapMoved(M, d, new, failed)
    IN  /\ Places(S) # {}
        /\ tileArray' = array
        /\ heap' = IF extra
                   THEN [moved EXCEPT ![new[NoTile]] =
                            [owner |-> d, data |-> Cobbled(moved, array, box)]]
                   ELSE moved

CobbledBuffer(box, d) == New(Moved(box, d, NoTile) \cup {NoTile})[NoTile]

GetStorage(h, d, box, writable, failed) ==
    LET many == Cardinality(TilesOf(box)) > 1
    IN  /\ MayAsk(h, d, box, writable)
        /\ Permitted(d)
        /\ ~HasExportedStorage
        /\ failed \in Outcomes(box, d)
        /\ MoveTiles(box, d, failed, many /\ failed = NoTile)
        /\ IF failed # NoTile THEN UNCHANGED handle
           ELSE IF many
           THEN Grant(h, "cobbled", d, CobbledBuffer(box, d), box, writable)
           ELSE Grant(h, "tile", d, tileArray'[CHOOSE t \in TilesOf(box) : TRUE].storage,
                      box, writable)
        /\ UNCHANGED <<exportMode, storageMovement, exportedImageStorage,
                       childStorage, pointer, content>>

\* The routine goes through the tiles itself.
GetTiledStorage(h, d, box, writable, failed) ==
    /\ MayAsk(h, d, box, writable)
    /\ Permitted(d)
    /\ ~HasExportedStorage
    /\ failed \in Outcomes(box, d)
    /\ MoveTiles(box, d, failed, FALSE)
    /\ IF failed # NoTile THEN UNCHANGED handle
       ELSE Grant(h, "tiled", d, NoBuffer, box, writable)
    /\ UNCHANGED <<exportMode, storageMovement, exportedImageStorage,
                   childStorage, pointer, content>>

\* The routine computes one of its pixels.
Compute(h, a, v) ==
    LET b == IF handle[h].kind = "tiled" THEN StorageAt(tileArray, a)
             ELSE handle[h].storage
    IN  /\ handle[h].writable
        /\ a \in handle[h].box
        /\ heap' = [heap EXCEPT ![b].data[a] = v]
        /\ content' = [content EXCEPT ![a] = v]
        /\ UNCHANGED <<exportMode, storageMovement, tileArray,
                       exportedImageStorage, childStorage, handle, pointer>>

\* Only a cobbled region is of its own: it is copied back and deallocated.
WrittenBack(h) ==
    IF handle[h].writable
    THEN Decobbled(heap, tileArray, heap[handle[h].storage].data, handle[h].box) ELSE heap
\* Mutant: the storage of a tile is deallocated as well.
ReleaseDeallocates(h) ==
    /\ handle[h] # NoHandle
    /\ handle' = [handle EXCEPT ![h] = NoHandle]
    /\ heap' = IF handle[h].kind \in {"cobbled", "tile"}
               THEN [WrittenBack(h) EXCEPT ![handle[h].storage] = Free]
               ELSE heap
    /\ UNCHANGED <<exportMode, storageMovement, tileArray, exportedImageStorage,
                   childStorage, pointer, content>>
ReleaseStorage(h) ==
    /\ handle[h] # NoHandle
    /\ handle' = [handle EXCEPT ![h] = NoHandle]
    /\ heap' = IF handle[h].kind = "cobbled"
               THEN [WrittenBack(h) EXCEPT ![handle[h].storage] = Free]
               ELSE heap
    /\ UNCHANGED <<exportMode, storageMovement, tileArray, exportedImageStorage,
                   childStorage, pointer, content>>

-----------------------------------------------------------------------------
(* Calls of the application; no operation is being executed.               *)

Export == /\ NoHandles
          /\ exportMode' = "exported"
          /\ exportMode # exportMode'
          /\ UNCHANGED <<storageMovement, tileArray, exportedImageStorage,
                         childStorage, heap, handle, pointer, content>>

\* Mutant: the cobbled region is deallocated without being copied back.
HeapFreed ==
    IF exportedImageStorage.cobbled
    THEN [heap EXCEPT ![exportedImageStorage.storage] = Free] ELSE heap
\* exportedImageStorage->destroy() copies a cobbled region back.
HeapDestroyed ==
    LET b == exportedImageStorage.storage
    IN  IF exportedImageStorage.cobbled
        THEN [Decobbled(heap, tileArray, heap[b].data, Areas) EXCEPT ![b] = Free]
        ELSE heap

\* Mutant: the storage of the children is forgotten.
ChildrenKept == /\ exportedImageStorage' = NotExported
                /\ heap' = HeapDestroyed
                /\ UNCHANGED childStorage
DestroyExportedStorage ==
    /\ exportedImageStorage' = NotExported
    /\ childStorage' = NoBuffer
    /\ heap' = HeapDestroyed

Import ==
    /\ NoHandles
    /\ exportMode = "exported"
    /\ exportMode' = "imported"
    /\ IF storageMovement = "allow"
       THEN /\ DestroyExportedStorage
            /\ pointer' = [i \in DOMAIN pointer |-> NoBuffer]
       ELSE UNCHANGED <<exportedImageStorage, childStorage, heap, pointer>>
    /\ UNCHANGED <<storageMovement, tileArray, handle, content>>

SetStorageMovement(m) ==
    /\ NoHandles
    /\ exportMode = "exported"
    /\ storageMovement' = m
    /\ storageMovement # m
    /\ UNCHANGED <<exportMode, tileArray, exportedImageStorage, childStorage,
                   heap, handle, pointer, content>>

\* getExportedStorage(): all of the image in memory, cobbled if need be.
ExportAll(failed) ==
    LET many == Cardinality(Tiles) > 1
    IN  /\ exportMode = "exported"
        /\ failed \in Outcomes(Areas, Memory)
        /\ MoveTiles(Areas, Memory, failed, many /\ failed = NoTile)
        /\ exportedImageStorage' =
               IF failed # NoTile THEN NotExported
               ELSE [cobbled |-> many,
                     storage |-> IF many THEN CobbledBuffer(Areas, Memory)
                                 ELSE tileArray'[Areas].storage]

GetMemoryStorage(failed) ==
    /\ NoHandles
    /\ IF HasExportedStorage
       THEN UNCHANGED <<tileArray, heap, exportedImageStorage>> /\ failed = NoTile
       ELSE ExportAll(failed)
    /\ pointer' = IF failed # NoTile THEN pointer
                  ELSE [pointer EXCEPT !["image"] = exportedImageStorage'.storage]
    /\ UNCHANGED <<exportMode, storageMovement, childStorage, handle, content>>

\* The child's storage is the parent's with an offset; it is kept.
ChildStorage ==
    IF childStorage # NoBuffer THEN childStorage ELSE exportedImageStorage'.storage
GetChildMemoryStorage(failed) ==
    /\ NoHandles
    /\ IF HasExportedStorage
       THEN UNCHANGED <<tileArray, heap, exportedImageStorage>> /\ failed = NoTile
       ELSE ExportAll(failed)
    /\ childStorage = NoBuffer => exportMode = "exported"
    /\ childStorage' = IF failed # NoTile THEN childStorage ELSE ChildStorage
    /\ pointer' = IF failed # NoTile THEN pointer
                  ELSE [pointer EXCEPT !["child"] = ChildStorage]
    /\ UNCHANGED <<exportMode, storageMovement, handle, content>>

\* The application writes through its pointer.
WritePixel(i, a, v) ==
    /\ NoHandles
    /\ exportMode = "exported"
    /\ pointer[i] # NoBuffer
    /\ i = "child" => a \in ChildAreas
    /\ heap' = [heap EXCEPT ![pointer[i]].data[a] = v]
    /\ content' = [content EXCEPT ![a] = v]
    /\ UNCHANGED <<exportMode, storageMovement, tileArray, exportedImageStorage,
                   childStorage, handle, pointer>>

Uniform(v) == [a \in Areas |-> v]

\* Mutant: without the region the application had.
TileStorage == StorageOf(Tiles)
\* deallocateAllStorage(): what tiles and application had is gone.
AllStorage == StorageOf(Tiles) \cup
              IF exportedImageStorage.cobbled
              THEN {exportedImageStorage.storage} ELSE {}

\* The application gives the memory for the whole image.
SetMemoryStorage(v) ==
    LET new == New({Areas})[Areas]
    IN  /\ NoHandles
        /\ exportMode = "exported"
        /\ Careful => childStorage = NoBuffer
        /\ Places({Areas}) # {}
        /\ tileArray' = [t \in {Areas} |-> [device |-> NoDevice, storage |-> new]]
        /\ heap' = [b \in Buffers |->
                       IF b = new THEN [owner |-> User, data |-> Uniform(v)]
                       ELSE IF b \in AllStorage THEN Free ELSE heap[b]]
        /\ exportedImageStorage' = NotExported
        /\ pointer' = [i \in DOMAIN pointer |-> NoBuffer]
        /\ content' = Uniform(v)
        /\ UNCHANGED <<exportMode, storageMovement, childStorage, handle>>

\* The application gives the memory for one tile.
SetTileStorage(t, v) ==
    LET new == New({t})[t]
    IN  /\ NoHandles
        /\ exportMode = "exported"
        /\ ~HasExportedStorage
        /\ Places({t}) # {}
        /\ tileArray' = [tileArray EXCEPT ![t] = [device |-> NoDevice, storage |-> new]]
        /\ heap' = [b \in Buffers |->
                       IF b = new THEN [owner |-> User, data |-> Uniform(v)]
                       ELSE IF b = tileArray[t].storage THEN Free ELSE heap[b]]
        /\ content' = [a \in Areas |-> IF a \in t THEN v ELSE content[a]]
        /\ UNCHANGED <<exportMode, storageMovement, exportedImageStorage,
                       childStorage, handle, pointer>>

\* The application gets a copy of the image, made from the tiles ...
GetStorageWithCopy(h, failed) ==
    /\ NoHandles
    /\ exportMode = "exported"
    /\ Careful => ~HasExportedStorage
    /\ failed \in Outcomes(Areas, Memory)
    /\ MoveTiles(Areas, Memory, failed, failed = NoTile)
    /\ IF failed # NoTile THEN UNCHANGED handle
       ELSE Grant(h, "cobbled", Memory, CobbledBuffer(Areas, Memory), Areas, FALSE)
    /\ UNCHANGED <<exportMode, storageMovement, exportedImageStorage,
                   childStorage, pointer, content>>

\* ... or has its own pixels copied to the tiles.
SetStorageWithCopy(v, failed) ==
    LET M == Moved(Areas, Memory, failed)
        new == New(M)
        array == TilesMoved(M, Memory, new)
        moved == HeapMoved(M, Memory, new, failed)
    IN  /\ NoHandles
        /\ exportMode = "exported"
        /\ Careful => ~HasExportedStorage
        /\ failed \in Outcomes(Areas, Memory)
        /\ Places(M) # {}
        /\ tileArray' = array
        /\ IF failed # NoTile THEN heap' = moved /\ UNCHANGED content
           ELSE /\ heap' = Decobbled(moved, array, Uniform(v), Areas)
                /\ content' = Uniform(v)
        /\ UNCHANGED <<exportMode, storageMovement, exportedImageStorage,
                       childStorage, handle, pointer>>

\* A new tile is allocated by the device of the first old one that overlaps
\* it, and recorded as a tile on the device of the first tile of the image.
\* setExportedTileSize() has no defined outcome for a tile whose storage the
\* user set (it has no device to call) and none when an allocation fails (the
\* result of allocate() is not looked at); what is left when decobble() fails,
\* half of the old tiles deallocated, is not modelled.
FirstOf(S) == CHOOSE s \in S : \A r \in S \ {s} : Before(s, r)

Reformatted(l, new) ==
    [b \in Buffers |->
        IF \E t \in l : new[t] = b
        THEN LET t == CHOOSE u \in l : new[u] = b
             IN  [owner |-> tileArray[FirstOf(TilesOf(t))].device,
                  data |-> [a \in Areas |->
                     IF a \in t THEN heap[StorageAt(tileArray, a)].data[a] ELSE Unknown]]
        ELSE IF \E t \in Tiles : tileArray[t].storage = b THEN Free ELSE heap[b]]

SetTileSize(l) ==
    /\ NoHandles
    /\ exportMode = "exported"
    /\ l # Tiles
    /\ IF \A t \in Tiles : tileArray[t].storage = NoBuffer
       THEN tileArray' = EmptyTiles(l) /\ UNCHANGED heap
       ELSE /\ \A t \in Tiles : tileArray[t].device # NoDevice
            /\ Careful => /\ ~HasExportedStorage
                          /\ \A s, t \in Tiles : tileArray[s].device = tileArray[t].device
            /\ Places(l) # {}
            /\ tileArray' = [t \in l |-> [device |-> tileArray[FirstOf(Tiles)].device,
                                         storage |-> New(l)[t]]]
            /\ heap' = Reformatted(l, New(l))
    /\ UNCHANGED <<exportMode, storageMovement, exportedImageStorage,
                   childStorage, handle, pointer, content>>

-----------------------------------------------------------------------------
ComputeStep ==
    \E h \in Handles :
        \/ \E d \in Devices \cup {Memory}, box \in SUBSET Areas, w \in BOOLEAN :
              \/ GetExportedStorage(h, d, box, w)
              \/ \E f \in Tiles \cup {NoTile} :
                    \/ GetStorage(h, d, box, w, f)
                    \/ GetTiledStorage(h, d, box, w, f)
        \/ \E a \in Areas, v \in Values : Compute(h, a, v)
        \/ ReleaseStorage(h)

ExportStep == \/ Export
              \/ Import
              \/ \E m \in {"allow", "stationary"} : SetStorageMovement(m)
              \/ \E f \in Tiles \cup {NoTile} : \/ GetMemoryStorage(f)
                                               \/ GetChildMemoryStorage(f)
              \/ \E i \in {"image", "child"}, a \in Areas, v \in Values : WritePixel(i, a, v)

ReplaceStep ==
    \/ \E v \in Values : \/ SetMemoryStorage(v)
                         \/ \E t \in Tiles : SetTileStorage(t, v)
    \/ \E f \in Tiles \cup {NoTile} :
          \/ \E h \in Handles : GetStorageWithCopy(h, f)
          \/ \E v \in Values : SetStorageWithCopy(v, f)
    \/ \E l \in Layouts : SetTileSize(l)

Next == ComputeStep \/ ExportStep \/ ReplaceStep

Spec == Init /\ [][Next]_vars

-----------------------------------------------------------------------------
(* Properties.                                                             *)

Device == Devices \cup {Memory, NoDevice}
Buffer == Buffers \cup {NoBuffer}

\* Every variable has its type; the tiles are one of the layouts.
TypeOK ==
    /\ exportMode \in {"imported", "exported"}
    /\ storageMovement \in {"allow", "stationary"}
    /\ Tiles \in Layouts
    /\ tileArray \in [Tiles -> [device : Device, storage : Buffer]]
    /\ exportedImageStorage \in [storage : Buffer, cobbled : BOOLEAN]
    /\ childStorage \in Buffer
    /\ heap \in [Buffers -> [owner : Device \cup {User}, data : Pixels]]
    /\ handle \in [Handles -> [kind : {"none", "exported", "tile", "tiled", "cobbled"},
                               device : Device, storage : Buffer,
                               box : SUBSET Areas, writable : BOOLEAN]]
    /\ pointer \in [{"image", "child"} -> Buffer]
    /\ content \in Pixels

Live(b) == b # NoBuffer /\ heap[b].owner # NoDevice

\* What the library takes for the image: the application's storage as long as
\* there is one, else the tiles (getStorage(), line 2602).
Shown(a) ==
    LET b == IF HasExportedStorage THEN exportedImageStorage.storage
             ELSE StorageAt(tileArray, a)
    IN  IF b = NoBuffer THEN Unknown ELSE heap[b].data[a]

BeingWritten(a) == \E h \in Handles : handle[h].writable /\ a \in handle[h].box

\* Whatever sequence of moves between devices, exports, imports and replaced
\* storage the pixels went through, the image shows what was last written.
ContentKept ==
    \A a \in Areas : content[a] # Unknown /\ ~BeingWritten(a)
                        => Shown(a) = content[a]

\* What the application was told stays the storage of the image until it
\* imports the image, and after that too if the storage is stationary
\* (import() keeps exportedImageStorage unless it may move, line 2128).
PointersValid ==
    \A i \in DOMAIN pointer : pointer[i] # NoBuffer =>
        Live(pointer[i]) /\ pointer[i] = exportedImageStorage.storage

\* Storage a compute routine has not given back is neither deallocated nor
\* moved under it (getToDevice() looks at no reference count).
HandlesValid ==
    \A h \in Handles : handle[h].storage # NoBuffer =>
        /\ Live(handle[h].storage)
        /\ handle[h].kind = "tile" =>
              \A a \in handle[h].box : StorageAt(tileArray, a) = handle[h].storage

\* A routine that asked for a device gets storage of that device, never the
\* memory the application has a pointer to (the two checks at lines 2587 and
\* 2602 agree only because import() and setStorageMovement() do).
StorageAsRequested ==
    \A h \in Handles :
        /\ handle[h].storage # NoBuffer =>
              heap[handle[h].storage].owner \in
                  {handle[h].device} \cup IF handle[h].device = Memory THEN {User} ELSE {}
        /\ handle[h].kind = "tiled" => \A t \in TilesOf(handle[h].box) : ~Moves(t, handle[h].device)

\* The device recorded for a tile is the one that has allocated its storage
\* and will deallocate it; memory of the application has none.
DeallocatedByOwner ==
    \A t \in Tiles : tileArray[t].storage # NoBuffer =>
        heap[tileArray[t].storage].owner =
            IF tileArray[t].device = NoDevice THEN User ELSE tileArray[t].device

ByDevice(owner) == owner \notin {NoDevice, User}

Uses(b) ==
    Cardinality({t \in Tiles : tileArray[t].storage = b})
      + Cardinality({h \in Handles : handle[h].kind = "cobbled" /\ handle[h].storage = b})
      + (IF exportedImageStorage = [storage |-> b, cobbled |-> TRUE] THEN 1 ELSE 0)

\* What a device has allocated is the storage of one tile, the cobbled region of the
\* application or of one routine: none is forgotten, none has two owners.  Storage set by
\* the user has one owner at most (see NoUserStorageForgotten).
OneUse ==
    \A b \in Buffers :
        /\ ByDevice(heap[b].owner) => Uses(b) = 1
        /\ heap[b].owner = User => Uses(b) \in {0, 1}

\* Storage the user gave stays with the image until it is released.  It does not: when
\* such a tile moves to another device nobody has the storage any more, and its release
\* routine is never called (getToDevice(), lines 4428 to 4517).
NoUserStorageForgotten ==
    \A b \in Buffers : heap[b].owner = User => \E t \in Tiles : tileArray[t].storage = b

\* Storage or a copy that is handed out shows the image as it is then.
HandsOutContent ==
    [][\A h \in Handles :
         handle[h] = NoHandle /\ handle'[h].storage # NoBuffer =>
            \A a \in handle'[h].box : content[a] # Unknown /\ ~BeingWritten(a)
               => heap'[handle'[h].storage].data[a] = content[a]]_vars
=============================================================================
