-------------------------- MODULE ImageStorageProof --------------------------
(***************************************************************************)
(* Proofs about ImageStorage, for any areas, layouts, devices, threads,    *)
(* buffers and values: an allocated buffer has one owner, pointers and     *)
(* handles stay valid, storage is on the device asked for, and the image   *)
(* shows what was last written.                                            *)
(*                                                                         *)
(* StorageInv is inductive when the application and the routines behave as *)
(* Discipline says.  Its clauses say where a tile is (TilesSound), what    *)
(* the application has a pointer to (ExportedInv, KeptInv), what a thread  *)
(* holds (HandleInv, HandlesApart), that devices have allocated nothing    *)
(* that is forgotten (UsedInv), and where the pixels are (ContentKept,     *)
(* WriterInv).                                                             *)
(***************************************************************************)
EXTENDS ImageStorage, FiniteSetTheorems, TLAPS

\* The application avoids the calls that go wrong, the threads of a routine
\* agree on a device, and only the memory device may fail.
Discipline == /\ Careful
              /\ OneDevice
              /\ Devices \cap Unreliable = {}
-----------------------------------------------------------------------------
(* The inductive invariant.                                                *)

\* The pixels of area a in the tiles
PixelAt(array, hp, a) ==
    IF StorageAt(array, a) = NoBuffer THEN Unknown
    ELSE hp[StorageAt(array, a)].data[a]

\* Every tile with storage has its own, allocated by the device recorded.
TilesSound(array, hp) ==
    /\ \A t \in DOMAIN array :
          /\ array[t].storage = NoBuffer => array[t].device = NoDevice
          /\ array[t].storage # NoBuffer =>
                hp[array[t].storage].owner =
                    IF array[t].device = NoDevice THEN User ELSE array[t].device
    /\ \A s, t \in DOMAIN array :
          array[s].storage = array[t].storage /\ array[s].storage # NoBuffer => s = t

\* A tile can be used on device d as it is.
IsOn(entry, d) ==
    /\ entry.storage # NoBuffer
    /\ \/ entry.device = d
       \/ entry.device = NoDevice /\ d = Memory

\* Storage the application has a pointer to is in memory, and so are all tiles;
\* it is that of the only tile or a region of its own.
ExportedInv ==
    /\ ~HasExportedStorage => exportedImageStorage = NotExported
    /\ HasExportedStorage =>
          /\ heap[exportedImageStorage.storage].owner \in {Memory, User}
          /\ \A t \in Tiles : IsOn(tileArray[t], Memory)
          /\ exportMode = "exported" \/ storageMovement = "stationary"
          /\ ~exportedImageStorage.cobbled =>
                /\ Areas \in Tiles
                /\ exportedImageStorage.storage = tileArray[Areas].storage
          /\ exportedImageStorage.cobbled =>
                \A t \in Tiles : tileArray[t].storage # exportedImageStorage.storage

\* The child and the application know no other storage.
KeptInv ==
    /\ childStorage # NoBuffer => childStorage = exportedImageStorage.storage
    /\ \A i \in DOMAIN pointer :
          pointer[i] # NoBuffer => pointer[i] = exportedImageStorage.storage

HoldsExported(h) ==
    /\ handle[h].kind = "exported"
    /\ HasExportedStorage
    /\ handle[h].storage = exportedImageStorage.storage
    /\ handle[h].device = Memory
HoldsTile(h) ==
    /\ handle[h].kind = "tile"
    /\ ~HasExportedStorage
    /\ \E t \in Tiles : /\ handle[h].box \subseteq t
                        /\ handle[h].storage = tileArray[t].storage
                        /\ IsOn(tileArray[t], handle[h].device)
HoldsTiles(h) ==
    /\ handle[h].kind = "tiled"
    /\ ~HasExportedStorage
    /\ handle[h].storage = NoBuffer
    /\ \A t \in TilesOf(handle[h].box) : IsOn(tileArray[t], handle[h].device)
HoldsCobbled(h) ==
    /\ handle[h].kind = "cobbled"
    /\ ~HasExportedStorage
    /\ handle[h].storage # NoBuffer
    /\ heap[handle[h].storage].owner = handle[h].device
    /\ \A t \in Tiles : tileArray[t].storage # handle[h].storage
    /\ \A t \in TilesOf(handle[h].box) : IsOn(tileArray[t], handle[h].device)

\* What a thread has asked for and not given back.
HandleOK(h) ==
    /\ handle[h].device \in Devices \cup {Memory}
    /\ \/ HoldsExported(h)
       \/ HoldsTile(h)
       \/ HoldsTiles(h)
       \/ HoldsCobbled(h)
HandleInv == \A h \in Handles : handle[h] = NoHandle \/ HandleOK(h)

HandlesApart ==
    \A g, h \in Handles :
        g # h /\ handle[g] # NoHandle /\ handle[h] # NoHandle =>
            /\ handle[g].device = handle[h].device
            /\ handle[g].kind = "cobbled" /\ handle[h].kind = "cobbled" =>
                  handle[g].storage # handle[h].storage
            /\ handle[g].writable /\ handle[h].writable =>
                  handle[g].box \cap handle[h].box = {}

\* A buffer that a device has allocated is used by somebody.
UsedInv ==
    \A b \in Buffers : ByDevice(heap[b].owner) =>
        \/ \E t \in Tiles : tileArray[t].storage = b
        \/ \E h \in Handles : handle[h].kind = "cobbled" /\ handle[h].storage = b
        \/ exportedImageStorage = [storage |-> b, cobbled |-> TRUE]

\* What a thread has written it finds in its storage until it gives it back.
HeldPixel(h, a) ==
    heap[IF handle[h].kind = "tiled" THEN StorageAt(tileArray, a)
         ELSE handle[h].storage].data[a]
WriterInv ==
    \A h \in Handles : handle[h].writable =>
        \A a \in handle[h].box : content[a] # Unknown => HeldPixel(h, a) = content[a]

StorageInv ==
    /\ TypeOK
    /\ TilesSound(tileArray, heap)
    /\ ExportedInv /\ KeptInv
    /\ HandleInv /\ HandlesApart
    /\ UsedInv
    /\ ContentKept /\ WriterInv

-----------------------------------------------------------------------------
(* Layouts and tiles.                                                      *)

LEMMA LayoutFacts ==
    ASSUME NEW l \in Layouts
    PROVE  /\ l \subseteq SUBSET Areas /\ UNION l = Areas
           /\ {} \notin l
           /\ \A s, t \in l : s # t => s \cap t = {}
           /\ IsFiniteSet(l)
           /\ l # {}
<1>1. /\ UNION l = Areas /\ {} \notin l
      /\ \A s, t \in l : s # t => s \cap t = {}
      /\ IsFiniteSet(Areas) /\ Areas # {}
  BY LayoutsAssumption
<1>2. l \in SUBSET (SUBSET Areas)
  BY <1>1
<1>3. IsFiniteSet(SUBSET Areas)
  BY <1>1, FS_SUBSET
<1>4. IsFiniteSet(l)
  BY <1>2, <1>3, FS_Subset
<1> QED
  BY <1>1, <1>2, <1>4

\* An area is in one tile.
LEMMA TileOfArea ==
    ASSUME NEW array, DOMAIN array \in Layouts, NEW a \in Areas
    PROVE  TileOf(array, a) \in DOMAIN array /\ a \in TileOf(array, a)
<1>1. \E t \in DOMAIN array : a \in t
  BY LayoutFacts
<1> QED
  BY <1>1 DEF TileOf

LEMMA TileOfIs ==
    ASSUME NEW array, DOMAIN array \in Layouts, NEW t \in DOMAIN array, NEW a \in t
    PROVE  /\ TileOf(array, a) = t
           /\ StorageAt(array, a) = array[t].storage
<1>1. a \in Areas
  BY LayoutFacts
<1>2. TileOf(array, a) = t
  BY <1>1, TileOfArea, LayoutFacts
<1> QED
  BY <1>2 DEF StorageAt

LEMMA Least ==
    ASSUME NEW S \in SUBSET Nat, S # {}
    PROVE  \E i \in S : \A j \in S : i <= j
<1>1. PICK R : R = {ss \in Nat \X Nat : ss[1] < ss[2]}
  OBVIOUS
<1>2. IsWellFoundedOn(R, Nat)
  BY <1>1, NatLessThanWellFounded DEF OpToRel
<1>3. PICK i \in S : \A j \in S : ~ (<<j, i>> \in R)
  BY <1>2, WFMin
<1>4. ASSUME NEW j \in S PROVE i <= j
  <2>1. i \in Nat /\ j \in Nat /\ <<j, i>> \in Nat \X Nat
    OBVIOUS
  <2>2. ~ (j < i)
    BY <1>1, <1>3, <2>1
  <2> QED
    BY ONLY <2>1, <2>2
<1> QED
  BY <1>4

\* Among tiles there is a first one.
LEMMA FirstIn ==
    ASSUME NEW l \in Layouts, NEW S \in SUBSET l, S # {}
    PROVE  FirstOf(S) \in S
<1>1. UNION S \in SUBSET Nat /\ UNION S # {}
  <2>1. l \subseteq SUBSET Areas /\ {} \notin l
    BY LayoutFacts
  <2>2. Areas \subseteq Nat
    BY LayoutsAssumption
  <2>3. \A s \in S : s \subseteq Nat /\ s # {}
    BY <2>1, <2>2
  <2> QED
    BY ONLY <2>3, S # {}
<1>2. PICK i \in UNION S : \A j \in UNION S : i <= j
  BY ONLY <1>1, Least
<1>3. PICK s \in S : i \in s
  OBVIOUS
<1>4. ASSUME NEW r \in S \ {s} PROVE Before(s, r)
  <2>1. s \cap r = {}
    BY <1>4, LayoutFacts
  <2>2. ASSUME NEW b \in r PROVE i < b
    <3>1. i \in Nat /\ b \in Nat /\ i # b /\ i <= b
      BY <1>1, <1>2, <1>3, <2>1
    <3> QED
      BY ONLY <3>1
  <2> QED
    BY <1>3, <2>2 DEF Before
<1> QED
  BY <1>3, <1>4 DEF FirstOf

\* Tiles that meet a part of the image
LEMMA TilesOfBox ==
    ASSUME NEW box \in SUBSET Areas, box # {}, Tiles \in Layouts
    PROVE  /\ TilesOf(box) \subseteq Tiles /\ TilesOf(box) # {}
           /\ IsFiniteSet(TilesOf(box))
           /\ Cardinality(TilesOf(box)) \in Nat
           /\ ~ (Cardinality(TilesOf(box)) > 1) =>
                 \E t \in Tiles : TilesOf(box) = {t} /\ box \subseteq t
           /\ \A a \in box : TileOf(tileArray, a) \in TilesOf(box)
<1>1. \A a \in box : TileOf(tileArray, a) \in TilesOf(box)
  BY TileOfArea DEF TilesOf, Tiles
<1>2. TilesOf(box) \in SUBSET Tiles /\ TilesOf(box) # {}
  BY <1>1 DEF TilesOf
<1>3. IsFiniteSet(TilesOf(box))
  BY <1>2, LayoutFacts, FS_Subset
<1>4. Cardinality(TilesOf(box)) \in Nat /\ Cardinality(TilesOf(box)) # 0
  BY <1>2, <1>3, FS_CardinalityType, FS_EmptySet
<1>5. ASSUME ~ (Cardinality(TilesOf(box)) > 1)
      PROVE  \E t \in Tiles : TilesOf(box) = {t} /\ box \subseteq t
  <2>1. Cardinality(TilesOf(box)) = 1
    BY <1>4, <1>5
  <2>2. PICK t : TilesOf(box) = {t}
    BY <1>3, <2>1, FS_Singleton
  <2>3. \A a \in box : a \in t
    BY <1>1, <2>2, TileOfArea DEF Tiles
  <2> QED
    BY <1>2, <2>2, <2>3
<1> QED
  BY <1>1, <1>2, <1>3, <1>4, <1>5

\* Every tile meets the whole image.
LEMMA AllTiles ==
    ASSUME Tiles \in Layouts
    PROVE  TilesOf(Areas) = Tiles
<1>1. Tiles \subseteq SUBSET Areas /\ {} \notin Tiles
  BY LayoutFacts
<1>2. \A t \in Tiles : t \cap Areas # {}
  BY <1>1
<1> QED
  BY <1>2 DEF TilesOf

\* A buffer that is given out is free, and for one purpose.
Fresh(new, S) ==
    /\ \A s \in S : /\ new[s] \in Buffers /\ new[s] \notin InUse
                    /\ heap[new[s]].owner = NoDevice
    /\ \A s, t \in S : new[s] = new[t] => s = t

LEMMA NewFresh ==
    ASSUME NEW S, Places(S) # {}
    PROVE  New(S) \in [S -> Buffers] /\ Fresh(New(S), S)
<1>1. New(S) \in Places(S)
  BY DEF New
<1> QED
  BY <1>1 DEF Places, Fresh

-----------------------------------------------------------------------------
(* Moving tiles to a device.                                               *)

\* The tiles M are moved to buffers of device d: every tile keeps its pixels,
\* what a device had allocated is freed and nothing else changes.
Relocates(M, d, new, array, hp) ==
    /\ DOMAIN array = Tiles
    /\ array \in [Tiles -> [device : Device, storage : Buffer]]
    /\ hp \in [Buffers -> [owner : Device \cup {User}, data : Pixels]]
    /\ \A t \in Tiles \ M : array[t] = tileArray[t]
    /\ \A t \in M : /\ array[t].device = d /\ array[t].storage = new[t]
                    /\ new[t] \in Buffers
                    /\ hp[new[t]].owner = d
    /\ \A b \in Buffers :
          \/ hp[b] = heap[b]
          \/ \E t \in M : b = new[t]
          \/ ~ByDevice(hp[b].owner) /\ \E t \in M : b = tileArray[t].storage
    /\ \A b \in Buffers :
          (\A t \in M : b # new[t] /\ b # tileArray[t].storage) => hp[b] = heap[b]
    /\ \A t \in M : tileArray[t].storage # NoBuffer =>
          ~ByDevice(hp[tileArray[t].storage].owner)
    /\ TilesSound(array, hp)
    /\ \A a \in Areas : PixelAt(array, hp, a) = PixelAt(tileArray, heap, a)

\* Only the memory device fails, and then the tile has no storage to lose.
LEMMA NothingLost ==
    ASSUME TypeOK, TilesSound(tileArray, heap), Devices \cap Unreliable = {},
           NEW d \in Devices \cup {Memory}, NEW box, NEW failed \in Outcomes(box, d)
    PROVE  LostBy(failed) = {}
<1>1. SUFFICES ASSUME failed # NoTile, tileArray[failed].device = Memory
               PROVE  FALSE
  BY DEF LostBy
<1>2. failed \in Tiles /\ MayFail(failed, d)
  BY <1>1 DEF Outcomes, TilesOf
<1>3. Moves(failed, d) /\ d \in Unreliable
  BY <1>1, <1>2, DevicesAssumption DEF MayFail, Involved
<1>4. d = Memory
  BY <1>3
<1>5. tileArray[failed].storage = NoBuffer
  BY <1>1, <1>3, <1>4 DEF Moves
<1>6. tileArray[failed].device = NoDevice
  BY <1>2, <1>5 DEF TilesSound, Tiles
<1> QED
  BY <1>1, <1>6, DevicesAssumption

LEMMA MoveFacts ==
    ASSUME TypeOK, TilesSound(tileArray, heap),
           NEW d \in Devices \cup {Memory}, NEW failed, LostBy(failed) = {},
           NEW M \in SUBSET Tiles, NEW new, Fresh(new, M)
    PROVE  Relocates(M, d, new, TilesMoved(M, d, new), HeapMoved(M, d, new, failed))
<1> DEFINE array == TilesMoved(M, d, new)
           hp == HeapMoved(M, d, new, failed)
<1>0. /\ \A t \in M : /\ new[t] \in Buffers /\ new[t] \notin InUse
                       /\ heap[new[t]].owner = NoDevice
      /\ \A s, t \in M : new[s] = new[t] => s = t
  BY DEF Fresh
<1>1. /\ array \in [Tiles -> [device : Device, storage : Buffer]]
      /\ DOMAIN array = Tiles
      /\ \A t \in Tiles \ M : array[t] = tileArray[t]
      /\ \A t \in M : /\ array[t] = [device |-> d, storage |-> new[t]]
                      /\ array[t].device = d /\ array[t].storage = new[t]
  BY <1>0 DEF TilesMoved, TypeOK, Device, Buffer
<1>2. \A t \in M : new[t] \in Buffers /\ new[t] # NoBuffer
  BY <1>0, DevicesAssumption
<1>3. \A t \in Tiles : tileArray[t].storage \in InUse
  BY DEF InUse
<1>4. \A t \in M : PixelsFor(t) \in Pixels
  BY DevicesAssumption DEF PixelsFor, Pixels, TypeOK, Buffer
<1>5. ASSUME NEW t \in M
      PROVE  /\ hp[new[t]] = [owner |-> d, data |-> PixelsFor(t)]
             /\ hp[new[t]].owner = d
             /\ hp[new[t]].data = PixelsFor(t)
  <2>1. new[t] \in Buffers /\ \E s \in M : new[s] = new[t]
    BY <1>0
  <2>2. (CHOOSE s \in M : new[s] = new[t]) = t
    BY <1>0
  <2> QED
    BY <2>1, <2>2 DEF HeapMoved
<1>6. ASSUME NEW b \in Buffers, \A t \in M : b # new[t]
      PROVE  /\ (\A t \in M : tileArray[t].storage # b) => hp[b] = heap[b]
             /\ hp[b] \in {Free, heap[b], [heap[b] EXCEPT !.data = Blank]}
             /\ (\E t \in M : tileArray[t].storage = b) =>
                   hp[b] \in {Free, [heap[b] EXCEPT !.data = Blank]} /\ ~ByDevice(hp[b].owner)
  <2>1. hp[b] = IF b \in StorageOf(M \ SetByUser(M)) THEN Free
                ELSE IF b \in StorageOf(SetByUser(M)) THEN [heap[b] EXCEPT !.data = Blank]
                ELSE heap[b]
    BY <1>6 DEF HeapMoved
  <2>2. CASE \A t \in M : tileArray[t].storage # b
    BY <2>1, <2>2 DEF StorageOf, SetByUser
  <2>3. CASE b \in StorageOf(M \ SetByUser(M))
    BY <2>1, <2>3 DEF Free, ByDevice, StorageOf
  <2>4. ASSUME NEW t \in M, tileArray[t].storage = b, b \notin StorageOf(M \ SetByUser(M))
        PROVE  hp[b] = [heap[b] EXCEPT !.data = Blank] /\ ~ByDevice(hp[b].owner)
    <3>1. t \in SetByUser(M) /\ t \in Tiles
      BY <2>4 DEF StorageOf
    <3>2. tileArray[t].device = NoDevice /\ b # NoBuffer
      BY <3>1, DevicesAssumption DEF SetByUser
    <3>3. heap[b].owner = User
      BY <2>4, <3>1, <3>2 DEF TilesSound, Tiles
    <3>4. hp[b] = [heap[b] EXCEPT !.data = Blank]
      BY <2>1, <2>4, <3>1 DEF StorageOf
    <3>5. heap[b] \in [owner : Device \cup {User}, data : Pixels]
      BY DEF TypeOK
    <3> QED
      BY ONLY <3>3, <3>4, <3>5 DEF ByDevice
  <2> QED
    BY <2>2, <2>3, <2>4, <2>1
<1>7. hp \in [Buffers -> [owner : Device \cup {User}, data : Pixels]]
  <2>1. DOMAIN hp = Buffers /\ hp = [b \in Buffers |-> hp[b]]
    BY DEF HeapMoved
  <2>2. Free \in [owner : Device \cup {User}, data : Pixels]
    BY DEF Free, Blank, Device, Pixels
  <2>3. ASSUME NEW b \in Buffers PROVE hp[b] \in [owner : Device \cup {User}, data : Pixels]
    <3>1. CASE \E t \in M : b = new[t]
      <4>1. PICK t \in M : b = new[t]
        BY <3>1
      <4>2. hp[b] = [owner |-> d, data |-> PixelsFor(t)] /\ d \in Device
        BY <1>5, <4>1 DEF Device
      <4> QED
        BY ONLY <1>4, <4>2
    <3>2. CASE \A t \in M : b # new[t]
      <4>1. heap[b] \in [owner : Device \cup {User}, data : Pixels] /\ Blank \in Pixels
        BY DEF TypeOK, Blank, Pixels
      <4>2. [heap[b] EXCEPT !.data = Blank] \in [owner : Device \cup {User}, data : Pixels]
        BY ONLY <4>1
      <4> QED
        BY <1>6, <2>2, <3>2, <4>1, <4>2
    <3> QED
      BY <3>1, <3>2
  <2> QED
    BY <2>1, <2>3
<1>8. TilesSound(array, hp)
  <2>0. d # NoDevice
    BY DevicesAssumption
  <2>1. ASSUME NEW t \in Tiles
        PROVE  /\ array[t].storage = NoBuffer => array[t].device = NoDevice
               /\ array[t].storage # NoBuffer =>
                     hp[array[t].storage].owner =
                        IF array[t].device = NoDevice THEN User ELSE array[t].device
    <3>1. CASE t \in M
      BY <1>1, <1>2, <1>5, <3>1, <2>0
    <3>2. CASE t \notin M
      <4>1. array[t] = tileArray[t] /\ tileArray[t].storage \in Buffer
        BY <1>1, <3>2 DEF TypeOK
      <4>2. ASSUME tileArray[t].storage # NoBuffer
            PROVE  hp[tileArray[t].storage] = heap[tileArray[t].storage]
        <5>1. \A s \in M : tileArray[t].storage # new[s]
          BY <1>0, <1>3
        <5>2. \A s \in M : tileArray[t].storage # tileArray[s].storage
          BY <3>2, <4>2 DEF TilesSound, Tiles
        <5> QED
          BY <1>6, <4>1, <4>2, <5>1, <5>2 DEF Buffer
      <4> QED
        BY <4>1, <4>2 DEF TilesSound, Tiles
    <3> QED
      BY <3>1, <3>2
  <2>2. ASSUME NEW s \in Tiles, NEW t \in Tiles,
               array[s].storage = array[t].storage, array[s].storage # NoBuffer
        PROVE  s = t
    <3>1. CASE s \in M /\ t \in M
      BY <1>0, <1>1, <2>2, <3>1
    <3>2. CASE s \in M /\ t \notin M
      <4>1. array[s].storage = new[s] /\ new[s] \notin InUse
        BY <1>0, <1>1, <3>2
      <4>2. array[t].storage \in InUse
        BY <1>1, <1>3, <3>2
      <4> QED
        BY <2>2, <4>1, <4>2
    <3>3. CASE s \notin M /\ t \in M
      <4>1. array[t].storage = new[t] /\ new[t] \notin InUse
        BY <1>0, <1>1, <3>3
      <4>2. array[s].storage \in InUse
        BY <1>1, <1>3, <3>3
      <4> QED
        BY <2>2, <4>1, <4>2
    <3>4. CASE s \notin M /\ t \notin M
      BY <1>1, <2>2, <3>4 DEF TilesSound, Tiles
    <3> QED
      BY <3>1, <3>2, <3>3, <3>4
  <2> QED
    BY <1>1, <2>1, <2>2 DEF TilesSound
<1>9. ASSUME NEW a \in Areas
      PROVE  PixelAt(array, hp, a) = PixelAt(tileArray, heap, a)
  <2>1. PICK t \in Tiles : a \in t
    BY TileOfArea DEF TypeOK, Tiles
  <2>2. StorageAt(array, a) = array[t].storage /\ StorageAt(tileArray, a) = tileArray[t].storage
    BY <1>1, <2>1, TileOfIs DEF TypeOK, Tiles
  <2>3. CASE t \in M
    <3>1. /\ StorageAt(array, a) = new[t] /\ new[t] # NoBuffer
          /\ hp[new[t]].data = PixelsFor(t)
      BY <1>1, <1>2, <1>5, <2>2, <2>3
    <3>2. PixelsFor(t)[a] = IF tileArray[t].storage # NoBuffer
                            THEN heap[tileArray[t].storage].data[a] ELSE Unknown
      BY <2>1 DEF PixelsFor
    <3> QED
      BY <2>2, <3>1, <3>2 DEF PixelAt
  <2>4. CASE t \notin M
    <3>1. array[t] = tileArray[t] /\ tileArray[t].storage \in Buffer
      BY <1>1, <2>4 DEF TypeOK
    <3>2. ASSUME tileArray[t].storage # NoBuffer
          PROVE  hp[tileArray[t].storage] = heap[tileArray[t].storage]
      <4>1. \A s \in M : tileArray[t].storage # new[s]
        BY <1>0, <1>3
      <4>2. \A s \in M : tileArray[t].storage # tileArray[s].storage
        BY <2>4, <3>2 DEF TilesSound, Tiles
      <4> QED
        BY <1>6, <3>1, <3>2, <4>1, <4>2 DEF Buffer
    <3> QED
      BY <2>2, <3>1, <3>2 DEF PixelAt
  <2> QED
    BY <2>3, <2>4
<1>10. \A b \in Buffers :
          \/ hp[b] = heap[b]
          \/ \E t \in M : b = new[t]
          \/ ~ByDevice(hp[b].owner) /\ \E t \in M : b = tileArray[t].storage
  BY <1>6
<1>11. \A b \in Buffers :
          (\A t \in M : b # new[t] /\ b # tileArray[t].storage) => hp[b] = heap[b]
  BY <1>6
<1>12. \A t \in M : hp[new[t]].owner = d
  BY <1>5
<1>13. ASSUME NEW t \in M, tileArray[t].storage # NoBuffer
       PROVE  ~ByDevice(hp[tileArray[t].storage].owner)
  <2>1. tileArray[t].storage \in Buffers /\ tileArray[t].storage \in InUse
    BY <1>3, <1>13 DEF TypeOK, Buffer
  <2>2. \A s \in M : tileArray[t].storage # new[s]
    BY <1>0, <2>1
  <2> QED
    BY <1>6, <2>1, <2>2
<1> QED
  BY <1>1, <1>2, <1>7, <1>8, <1>9, <1>10, <1>11, <1>12, <1>13 DEF Relocates

\* What a step that moves tiles leaves behind: buffers in use that are not moved
\* stay, those of N are new and belong to no tile.
Relocated(M, d, N) ==
    /\ DOMAIN tileArray' = Tiles
    /\ tileArray' \in [Tiles -> [device : Device, storage : Buffer]]
    /\ heap' \in [Buffers -> [owner : Device \cup {User}, data : Pixels]]
    /\ \A t \in Tiles \ M : tileArray'[t] = tileArray[t]
    /\ \A t \in M : /\ t \in Tiles /\ Moves(t, d) /\ IsOn(tileArray'[t], d)
                    /\ tileArray'[t].storage \notin InUse
    /\ \A b \in Buffers \ N :
          b \in InUse /\ (\A t \in M : b # tileArray[t].storage) => heap'[b] = heap[b]
    /\ \A b \in Buffers \ N :
          ByDevice(heap'[b].owner) =>
             \/ ByDevice(heap[b].owner) /\ \A t \in M : b # tileArray[t].storage
             \/ \E t \in M : tileArray'[t].storage = b
    /\ \A b \in N : /\ b \in Buffers /\ b \notin InUse
                    /\ heap'[b].owner = d
                    /\ \A t \in Tiles : tileArray'[t].storage # b
    /\ TilesSound(tileArray', heap')
    /\ \A a \in Areas : PixelAt(tileArray', heap', a) = PixelAt(tileArray, heap, a)

LEMMA RelocatedBy ==
    ASSUME TypeOK, TilesSound(tileArray, heap),
           NEW d \in Devices \cup {Memory}, NEW M \in SUBSET Tiles, NEW new,
           \A t \in M : Moves(t, d), Fresh(new, M),
           Relocates(M, d, new, tileArray', heap')
    PROVE  Relocated(M, d, {})
<1>1. /\ DOMAIN tileArray' = Tiles
      /\ tileArray' \in [Tiles -> [device : Device, storage : Buffer]]
      /\ heap' \in [Buffers -> [owner : Device \cup {User}, data : Pixels]]
      /\ \A t \in Tiles \ M : tileArray'[t] = tileArray[t]
      /\ TilesSound(tileArray', heap')
      /\ \A a \in Areas : PixelAt(tileArray', heap', a) = PixelAt(tileArray, heap, a)
  BY DEF Relocates
<1>2. \A t \in M : /\ tileArray'[t].device = d /\ tileArray'[t].storage = new[t]
                   /\ new[t] \in Buffers /\ new[t] \notin InUse
  BY DEF Relocates, Fresh
<1>3. \A t \in M : /\ IsOn(tileArray'[t], d)
                   /\ tileArray'[t].storage \notin InUse
  BY <1>2, DevicesAssumption DEF IsOn
<1>4. ASSUME NEW b \in Buffers, b \in InUse, \A t \in M : b # tileArray[t].storage
      PROVE  heap'[b] = heap[b]
  <2>1. \A t \in M : b # new[t]
    BY <1>2, <1>4
  <2> QED
    BY <1>4, <2>1 DEF Relocates
<1>5. ASSUME NEW b \in Buffers, ByDevice(heap'[b].owner)
      PROVE  \/ ByDevice(heap[b].owner) /\ \A t \in M : b # tileArray[t].storage
             \/ \E t \in M : tileArray'[t].storage = b
  <2>1. CASE \E t \in M : b = new[t]
    BY <1>2, <2>1
  <2>2. CASE \A t \in M : b # new[t]
    <3>1. \A t \in M : b # tileArray[t].storage
      BY <1>5, DevicesAssumption DEF Relocates
    <3> QED
      BY <1>5, <2>2, <3>1 DEF Relocates
  <2> QED
    BY <2>1, <2>2
<1> QED
  BY <1>1, <1>3, <1>4, <1>5 DEF Relocated

\* getToDevice(): with a region of its own for the caller (extra) or without
LEMMA MoveTilesStep ==
    ASSUME TypeOK, TilesSound(tileArray, heap), Devices \cap Unreliable = {},
           NEW d \in Devices \cup {Memory}, NEW box \in SUBSET Areas,
           NEW failed \in Outcomes(box, d), NEW extra \in BOOLEAN,
           extra => failed = NoTile,
           MoveTiles(box, d, failed, extra)
    PROVE  /\ Relocated(Moved(box, d, failed), d,
                        IF extra THEN {CobbledBuffer(box, d)} ELSE {})
           /\ failed = NoTile => \A t \in TilesOf(box) : IsOn(tileArray'[t], d)
           /\ extra => \A a \in box :
                heap'[CobbledBuffer(box, d)].data[a] = PixelAt(tileArray, heap, a)
<1>1. PICK M : M = Moved(box, d, failed)
  OBVIOUS
<1>2. PICK S : S = M \cup IF extra THEN {NoTile} ELSE {}
  OBVIOUS
<1>3. PICK new : new = New(S)
  OBVIOUS
<1>4. PICK hp : hp = HeapMoved(M, d, new, failed)
  OBVIOUS
<1>5. /\ Places(S) # {}
      /\ tileArray' = TilesMoved(M, d, new)
      /\ heap' = IF extra
                 THEN [hp EXCEPT ![new[NoTile]] =
                         [owner |-> d, data |-> Cobbled(hp, tileArray', box)]]
                 ELSE hp
  BY <1>1, <1>2, <1>3, <1>4 DEF MoveTiles
<1>6. M \in SUBSET Tiles /\ \A t \in M : t \in TilesOf(box) /\ Moves(t, d)
  BY <1>1 DEF Moved, TilesOf
<1>7. Fresh(new, S) /\ Fresh(new, M)
  <2>1. Fresh(new, S)
    BY <1>3, <1>5, NewFresh
  <2> QED
    BY <1>2, <2>1 DEF Fresh
<1>8. Relocates(M, d, new, tileArray', hp)
  <2>1. LostBy(failed) = {}
    BY NothingLost
  <2>2. Relocates(M, d, new, TilesMoved(M, d, new), HeapMoved(M, d, new, failed))
    BY ONLY <1>6, <1>7, <2>1, MoveFacts, TypeOK, TilesSound(tileArray, heap)
  <2> QED
    BY <1>4, <1>5, <2>2
<1>9. ASSUME failed = NoTile
      PROVE  \A t \in TilesOf(box) : IsOn(tileArray'[t], d)
  <2>1. SUFFICES ASSUME NEW t \in TilesOf(box) PROVE IsOn(tileArray'[t], d)
    OBVIOUS
  <2>2. t \in Tiles
    BY DEF TilesOf
  <2>3. CASE t \in M
    <3>1. /\ tileArray'[t].device = d /\ tileArray'[t].storage = new[t]
          /\ new[t] \in Buffers
      BY <1>8, <2>3 DEF Relocates
    <3> QED
      BY <3>1, DevicesAssumption DEF IsOn
  <2>4. CASE t \notin M
    <3>1. ~ Moves(t, d)
      BY <1>1, <1>9, <2>4 DEF Moved
    <3>2. tileArray'[t] = tileArray[t]
      BY <1>8, <2>2, <2>4 DEF Relocates
    <3> QED
      BY <3>1, <3>2 DEF Moves, IsOn
  <2> QED
    BY <2>3, <2>4
<1>10. CASE ~ extra
  <2>1. heap' = hp
    BY <1>5, <1>10
  <2>2. Relocated(M, d, {})
    BY <1>6, <1>7, <1>8, <2>1, RelocatedBy
  <2> QED
    BY <1>1, <1>9, <1>10, <2>2
<1>11. CASE extra
  <2>1. PICK c : c = new[NoTile]
    OBVIOUS
  <2>2. CobbledBuffer(box, d) = c
    BY <1>1, <1>2, <1>3, <1>11, <2>1 DEF CobbledBuffer
  <2>3. NoTile \notin M
    <3>1. {} \notin Tiles
      BY LayoutFacts DEF TypeOK
    <3> QED
      BY <1>6, <3>1 DEF NoTile
  <2>4. c \in Buffers /\ c \notin InUse /\ heap[c].owner = NoDevice /\ \A t \in M : c # new[t]
    BY <1>2, <1>7, <1>11, <2>1, <2>3 DEF Fresh
  <2>5. \A t \in Tiles : tileArray[t].storage # c
    BY <2>4 DEF InUse
  <2>6. \A t \in Tiles : tileArray'[t].storage # c
    BY <1>8, <2>4, <2>5 DEF Relocates
  <2>7. /\ DOMAIN tileArray' = Tiles /\ Tiles \in Layouts
        /\ tileArray' \in [Tiles -> [device : Device, storage : Buffer]]
        /\ hp \in [Buffers -> [owner : Device \cup {User}, data : Pixels]]
        /\ TilesSound(tileArray', hp)
        /\ \A a \in Areas : PixelAt(tileArray', hp, a) = PixelAt(tileArray, heap, a)
    BY <1>8 DEF Relocates, TypeOK
  <2>8. \A a \in Areas : TileOf(tileArray', a) \in Tiles
    BY <2>7, TileOfArea
  <2>9. \A a \in box : /\ StorageAt(tileArray', a) \in Buffers
                       /\ StorageAt(tileArray', a) # NoBuffer
    <3>1. SUFFICES ASSUME NEW a \in box
                   PROVE  /\ StorageAt(tileArray', a) \in Buffers
                          /\ StorageAt(tileArray', a) # NoBuffer
      OBVIOUS
    <3>2. TileOf(tileArray', a) \in Tiles /\ a \in TileOf(tileArray', a)
      BY <2>7, TileOfArea
    <3>3. TileOf(tileArray', a) \in TilesOf(box)
      BY <3>2 DEF TilesOf
    <3>4. StorageAt(tileArray', a) # NoBuffer
      BY <1>9, <1>11, <3>3 DEF IsOn, StorageAt
    <3>5. tileArray'[TileOf(tileArray', a)] \in [device : Device, storage : Buffer]
      BY <2>7, <3>2
    <3> QED
      BY <3>4, <3>5 DEF StorageAt, Buffer
  <2>10. PICK region : region = Cobbled(hp, tileArray', box)
    OBVIOUS
  <2>11. /\ region \in Pixels
         /\ \A a \in box : region[a] = PixelAt(tileArray, heap, a)
    <3>1. \A a \in box : region[a] = PixelAt(tileArray', hp, a)
      BY <2>9, <2>10 DEF Cobbled, PixelAt
    <3>2. \A a \in box : hp[StorageAt(tileArray', a)].data \in Pixels
      BY <2>7, <2>9
    <3>3. \A a \in box : hp[StorageAt(tileArray', a)].data[a] \in Values \cup {Unknown}
      BY <3>2 DEF Pixels
    <3>4. region \in Pixels
      BY <2>10, <3>3 DEF Cobbled, Pixels
    <3> QED
      BY <2>7, <3>1, <3>4
  <2>12. heap' = [hp EXCEPT ![c] = [owner |-> d, data |-> region]]
    BY <1>5, <1>11, <2>1, <2>10
  <2>13. /\ DOMAIN hp = Buffers
         /\ heap'[c].owner = d /\ heap'[c].data = region
         /\ \A b \in Buffers : b # c => heap'[b] = hp[b]
    BY <2>4, <2>7, <2>12
  <2>14. heap' \in [Buffers -> [owner : Device \cup {User}, data : Pixels]]
    <3>1. [owner |-> d, data |-> region] \in [owner : Device \cup {User}, data : Pixels]
      BY <2>11 DEF Device
    <3> QED
      BY <2>7, <2>12, <3>1
  <2>15. TilesSound(tileArray', heap')
    <3>1. \A t \in Tiles : tileArray'[t].storage # NoBuffer =>
             heap'[tileArray'[t].storage] = hp[tileArray'[t].storage]
      BY <2>6, <2>7, <2>13 DEF Buffer
    <3> QED
      BY <2>7, <3>1 DEF TilesSound
  <2>16. \A a \in Areas : PixelAt(tileArray', heap', a) = PixelAt(tileArray, heap, a)
    <3>1. SUFFICES ASSUME NEW a \in Areas
                   PROVE  PixelAt(tileArray', heap', a) = PixelAt(tileArray', hp, a)
      BY <2>7
    <3>2. StorageAt(tileArray', a) # c /\ StorageAt(tileArray', a) \in Buffer
      BY <2>6, <2>7, <2>8 DEF StorageAt
    <3> QED
      BY <2>13, <3>2 DEF PixelAt, Buffer
  <2>17. /\ \A t \in Tiles \ M : tileArray'[t] = tileArray[t]
         /\ \A t \in M : /\ t \in Tiles /\ Moves(t, d) /\ IsOn(tileArray'[t], d)
                         /\ tileArray'[t].storage \notin InUse
    <3>1. \A t \in M : /\ tileArray'[t].device = d /\ tileArray'[t].storage = new[t]
                       /\ new[t] \in Buffers /\ new[t] \notin InUse
      BY <1>7, <1>8 DEF Relocates, Fresh
    <3>2. NoBuffer \notin Buffers
      BY DevicesAssumption
    <3>3. \A t \in Tiles \ M : tileArray'[t] = tileArray[t]
      BY <1>8 DEF Relocates
    <3> QED
      BY <1>6, <3>1, <3>2, <3>3 DEF IsOn
  <2>18. \A b \in Buffers \ {c} :
            b \in InUse /\ (\A t \in M : b # tileArray[t].storage) => heap'[b] = heap[b]
    <3>1. \A t \in M : new[t] \notin InUse
      BY <1>7 DEF Fresh
    <3> QED
      BY <1>8, <2>13, <3>1 DEF Relocates
  <2>19. \A b \in Buffers \ {c} :
            ByDevice(heap'[b].owner) =>
               \/ ByDevice(heap[b].owner) /\ \A t \in M : b # tileArray[t].storage
               \/ \E t \in M : tileArray'[t].storage = b
    <3>1. SUFFICES ASSUME NEW b \in Buffers \ {c}, ByDevice(hp[b].owner)
                   PROVE  \/ ByDevice(heap[b].owner) /\ \A t \in M : b # tileArray[t].storage
                          \/ \E t \in M : tileArray'[t].storage = b
      BY <2>13
    <3>2. CASE \E t \in M : b = new[t]
      BY <1>8, <3>2 DEF Relocates
    <3>3. CASE \A t \in M : b # new[t]
      <4>1. \A t \in M : b # tileArray[t].storage
        BY <1>8, <3>1, DevicesAssumption DEF Relocates
      <4> QED
        BY <1>8, <3>1, <3>3, <4>1 DEF Relocates
    <3> QED
      BY <3>2, <3>3
  <2>20. Relocated(M, d, {c})
    BY <2>4, <2>6, <2>7, <2>13, <2>14, <2>15, <2>16, <2>17, <2>18, <2>19 DEF Relocated
  <2> QED
    BY <1>1, <1>9, <1>11, <2>2, <2>11, <2>13, <2>20
<1> QED
  BY <1>10, <1>11

-----------------------------------------------------------------------------
(* What the application and the threads see of the tiles.                  *)

LEMMA ShownTiles ==
    ASSUME ~ HasExportedStorage, NEW a
    PROVE  Shown(a) = PixelAt(tileArray, heap, a)
BY DEF Shown, PixelAt

LEMMA ShownTilesNext ==
    ASSUME ~ HasExportedStorage', NEW a
    PROVE  Shown(a)' = PixelAt(tileArray', heap', a)
BY DEF Shown, PixelAt, StorageAt, TileOf, HasExportedStorage

\* Unless it is a copy, a thread's storage is what the image shows.
LEMMA HeldIsShown ==
    ASSUME TypeOK, ExportedInv, NEW h \in Handles, HandleOK(h), NEW a \in handle[h].box
    PROVE  /\ handle[h].kind # "cobbled" => HeldPixel(h, a) = Shown(a)
           /\ ~ HasExportedStorage /\ handle[h].kind # "cobbled" =>
                 HeldPixel(h, a) = PixelAt(tileArray, heap, a)
           /\ (IF handle[h].kind = "tiled" THEN StorageAt(tileArray, a)
               ELSE handle[h].storage) \in Buffers
<1>1. a \in Areas /\ Tiles \in Layouts /\ DOMAIN tileArray = Tiles
  BY DEF TypeOK, Tiles
<1>2. TileOf(tileArray, a) \in Tiles /\ a \in TileOf(tileArray, a)
  BY <1>1, TileOfArea
<1>3. TileOf(tileArray, a) \in TilesOf(handle[h].box)
  BY <1>2 DEF TilesOf
<1>4. CASE HoldsExported(h)
  BY <1>4 DEF HoldsExported, HasExportedStorage, HeldPixel, Shown, TypeOK, Buffer
<1>5. CASE HoldsTile(h)
  <2>1. PICK t \in Tiles : /\ handle[h].box \subseteq t
                           /\ handle[h].storage = tileArray[t].storage
                           /\ IsOn(tileArray[t], handle[h].device)
    BY <1>5 DEF HoldsTile
  <2>2. StorageAt(tileArray, a) = tileArray[t].storage
    BY <1>1, <2>1, TileOfIs
  <2>3. tileArray[t].storage \in Buffers
    BY <2>1 DEF IsOn, TypeOK, Buffer
  <2> QED
    BY <1>5, <2>1, <2>2, <2>3, ShownTiles DEF HoldsTile, HeldPixel, PixelAt, IsOn
<1>6. CASE HoldsTiles(h)
  <2>1. StorageAt(tileArray, a) # NoBuffer
    BY <1>3, <1>6 DEF HoldsTiles, IsOn, StorageAt
  <2>2. StorageAt(tileArray, a) \in Buffers
    BY <1>2, <2>1 DEF StorageAt, TypeOK, Buffer
  <2> QED
    BY <1>6, <2>1, <2>2, ShownTiles DEF HoldsTiles, HeldPixel, PixelAt
<1>7. CASE HoldsCobbled(h)
  BY <1>7 DEF HoldsCobbled, TypeOK, Buffer
<1> QED
  BY <1>4, <1>5, <1>6, <1>7 DEF HandleOK

\* A tile a thread uses is not moved when others ask for the same device.
LEMMA NotMoved ==
    ASSUME NEW t \in Tiles, NEW d \in Devices \cup {Memory}, IsOn(tileArray[t], d)
    PROVE  ~ Moves(t, d)
BY DEF IsOn, Moves

LEMMA HandleStays ==
    ASSUME StorageInv, ~ HasExportedStorage, UNCHANGED exportedImageStorage,
           NEW d \in Devices \cup {Memory}, NEW M \in SUBSET Tiles, NEW N,
           Relocated(M, d, N),
           NEW g \in Handles, HandleOK(g), handle[g].device = d, handle'[g] = handle[g]
    PROVE  /\ HandleOK(g)'
           /\ \A a \in handle[g].box : HeldPixel(g, a)' = HeldPixel(g, a)
<1>1. /\ DOMAIN tileArray' = Tiles /\ Tiles' = Tiles /\ Tiles \in Layouts
      /\ \A t \in Tiles \ M : tileArray'[t] = tileArray[t]
      /\ \A t \in M : Moves(t, d) /\ tileArray'[t].storage \notin InUse
      /\ \A b \in N : b \notin InUse
      /\ TypeOK
  BY DEF Relocated, Tiles, StorageInv, TypeOK
<1>2. ~ HasExportedStorage'
  BY DEF HasExportedStorage
<1>3. \A box \in SUBSET Areas : TilesOf(box)' = TilesOf(box)
  BY <1>1 DEF TilesOf
<1>4. handle[g].box \in SUBSET Areas /\ handle[g].storage \in Buffer
  BY <1>1 DEF TypeOK
<1>5. handle[g].storage \in InUse
  BY DEF InUse
<1>6. ASSUME NEW b \in Buffers, b \in InUse, \A t \in M : b # tileArray[t].storage
      PROVE  heap'[b] = heap[b]
  BY <1>1, <1>6 DEF Relocated
<1>7. \A t \in Tiles : IsOn(tileArray[t], d) => tileArray'[t] = tileArray[t]
  BY <1>1, NotMoved
<1>8. ASSUME NEW t \in Tiles, IsOn(tileArray[t], d)
      PROVE  /\ tileArray[t].storage \in Buffers
             /\ heap'[tileArray[t].storage] = heap[tileArray[t].storage]
  <2>1. t \notin M
    BY <1>1, <1>8, NotMoved
  <2>2. tileArray[t].storage \in Buffers
    BY <1>1, <1>8 DEF TypeOK, Buffer, IsOn
  <2>3. \A s \in M : tileArray[t].storage # tileArray[s].storage
    BY <1>8, <2>1 DEF StorageInv, TilesSound, Tiles, IsOn
  <2>4. tileArray[t].storage \in InUse
    BY DEF InUse
  <2> QED
    BY <1>6, <2>2, <2>3, <2>4
<1>9. CASE HoldsExported(g)
  BY <1>9 DEF HoldsExported
<1>10. CASE HoldsTile(g)
  <2>1. PICK t \in Tiles : /\ handle[g].box \subseteq t
                           /\ handle[g].storage = tileArray[t].storage
                           /\ IsOn(tileArray[t], handle[g].device)
    BY <1>10 DEF HoldsTile
  <2>2. tileArray'[t] = tileArray[t] /\ heap'[handle[g].storage] = heap[handle[g].storage]
    BY <1>7, <1>8, <2>1
  <2>3. handle[g].kind = "tile"
    BY <1>10 DEF HoldsTile
  <2>4. HoldsTile(g)'
    BY <1>1, <1>2, <2>1, <2>2, <2>3 DEF HoldsTile
  <2> QED
    BY <2>2, <2>3, <2>4 DEF HandleOK, HeldPixel
<1>11. CASE HoldsTiles(g)
  <2>1. handle[g].kind = "tiled" /\ \A t \in TilesOf(handle[g].box) : IsOn(tileArray[t], d)
    BY <1>11 DEF HoldsTiles
  <2>2. \A t \in TilesOf(handle[g].box) : tileArray'[t] = tileArray[t]
    BY <1>7, <2>1 DEF TilesOf
  <2>3. HoldsTiles(g)'
    BY <1>2, <1>3, <1>4, <1>11, <2>1, <2>2 DEF HoldsTiles
  <2>4. ASSUME NEW a \in handle[g].box PROVE HeldPixel(g, a)' = HeldPixel(g, a)
    <3>1. TileOf(tileArray, a) \in Tiles /\ a \in TileOf(tileArray, a)
      BY <1>1, <1>4, TileOfArea DEF Tiles
    <3>2. TileOf(tileArray, a) \in TilesOf(handle[g].box)
      BY <3>1 DEF TilesOf
    <3>3. TileOf(tileArray', a) = TileOf(tileArray, a)
      BY <1>1, <3>1, TileOfIs
    <3>4. StorageAt(tileArray', a) = StorageAt(tileArray, a)
      BY <2>2, <3>2, <3>3 DEF StorageAt
    <3>5. heap'[StorageAt(tileArray, a)] = heap[StorageAt(tileArray, a)]
      BY <1>8, <2>1, <3>1, <3>2 DEF StorageAt
    <3> QED
      BY <2>1, <3>4, <3>5 DEF HeldPixel
  <2> QED
    BY <2>3, <2>4 DEF HandleOK
<1>12. CASE HoldsCobbled(g)
  <2>1. /\ handle[g].kind = "cobbled" /\ handle[g].storage # NoBuffer
        /\ heap[handle[g].storage].owner = handle[g].device
        /\ \A t \in Tiles : tileArray[t].storage # handle[g].storage
        /\ \A t \in TilesOf(handle[g].box) : IsOn(tileArray[t], d)
    BY <1>12 DEF HoldsCobbled
  <2>2. heap'[handle[g].storage] = heap[handle[g].storage]
    BY <1>4, <1>5, <1>6, <2>1 DEF Buffer
  <2>3. \A t \in Tiles : tileArray'[t].storage # handle[g].storage
    BY <1>1, <1>5, <2>1
  <2>4. \A t \in TilesOf(handle[g].box) : IsOn(tileArray'[t], d)
    BY <1>7, <2>1 DEF TilesOf
  <2>5. HoldsCobbled(g)'
    BY <1>1, <1>2, <1>3, <1>4, <2>1, <2>2, <2>3, <2>4 DEF HoldsCobbled
  <2> QED
    BY <2>1, <2>2, <2>5 DEF HandleOK, HeldPixel
<1> QED
  BY <1>9, <1>10, <1>11, <1>12 DEF HandleOK

\* No thread works on the image.
LEMMA NobodyHolds ==
    ASSUME NoHandles, NEW h \in Handles
    PROVE  /\ handle[h] = NoHandle /\ handle[h].storage = NoBuffer
           /\ handle[h].box = {} /\ ~ handle[h].writable /\ handle[h].kind = "none"
<1>1. handle[h] = NoHandle
  BY DEF NoHandles
<1> QED
  BY <1>1 DEF NoHandle

\* Every buffer that stays is still used by whoever used it.
LEMMA UsedStays ==
    ASSUME StorageInv, ~ HasExportedStorage,
           NEW d \in Devices \cup {Memory}, NEW M \in SUBSET Tiles, NEW N,
           Relocated(M, d, N),
           \A h \in Handles : handle[h].kind = "cobbled" => handle'[h] = handle[h],
           \A b \in N : \/ \E h \in Handles : /\ handle'[h].kind = "cobbled"
                                              /\ handle'[h].storage = b
                        \/ exportedImageStorage' = [storage |-> b, cobbled |-> TRUE]
    PROVE  UsedInv'
<1>1. SUFFICES ASSUME NEW b \in Buffers \ N, ByDevice(heap'[b].owner)
               PROVE  \/ \E t \in Tiles : tileArray'[t].storage = b
                      \/ \E h \in Handles : handle'[h].kind = "cobbled" /\ handle'[h].storage = b
                      \/ exportedImageStorage' = [storage |-> b, cobbled |-> TRUE]
  BY DEF UsedInv, Relocated, Tiles
<1>2. CASE \E t \in M : tileArray'[t].storage = b
  BY <1>2
<1>3. CASE ByDevice(heap[b].owner) /\ \A t \in M : b # tileArray[t].storage
  <2>1. exportedImageStorage # [storage |-> b, cobbled |-> TRUE]
    BY DevicesAssumption DEF HasExportedStorage
  <2>2. CASE \E t \in Tiles : tileArray[t].storage = b
    BY <1>3, <2>2 DEF Relocated
  <2>3. CASE \E h \in Handles : handle[h].kind = "cobbled" /\ handle[h].storage = b
    BY <2>3
  <2> QED
    BY <1>3, <2>1, <2>2, <2>3 DEF StorageInv, UsedInv
<1> QED
  BY <1>1, <1>2, <1>3 DEF Relocated

\* A thread gets storage for box on device d, as r says.
HandleType == [kind : {"none", "exported", "tile", "tiled", "cobbled"},
               device : Device, storage : Buffer,
               box : SUBSET Areas, writable : BOOLEAN]
Granted(h, d, box, w, r) ==
    /\ handle' = [handle EXCEPT ![h] = r]
    /\ r \in HandleType
    /\ r.device = d /\ r.box = box /\ r.writable = w
    /\ MayAsk(h, d, box, w)

LEMMA GrantStep ==
    ASSUME StorageInv, OneDevice, ~ HasExportedStorage,
           UNCHANGED <<exportMode, storageMovement, exportedImageStorage,
                       childStorage, pointer, content>>,
           NEW h \in Handles, NEW d \in Devices \cup {Memory},
           NEW box \in SUBSET Areas, NEW w \in BOOLEAN, NEW r,
           Granted(h, d, box, w, r),
           NEW M \in SUBSET Tiles, NEW N, Relocated(M, d, N),
           HandleOK(h)',
           \A a \in box : HeldPixel(h, a)' = PixelAt(tileArray, heap, a),
           N \subseteq {r.storage}, r.kind = "cobbled" => N = {r.storage},
           N # {} => r.kind = "cobbled"
    PROVE  StorageInv'
<1>1. /\ handle \in [Handles -> HandleType]
      /\ handle' \in [Handles -> HandleType]
      /\ handle'[h] = r
      /\ \A g \in Handles : g # h => handle'[g] = handle[g]
      /\ handle[h] = NoHandle
      /\ r.device = d /\ r.box = box /\ r.writable = w
  BY DEF Granted, MayAsk, StorageInv, TypeOK, HandleType
<1>2. \A g \in Handles : handle[g] # NoHandle =>
         /\ handle[g].device = d
         /\ w /\ handle[g].writable => handle[g].box \cap box = {}
  BY DEF Granted, MayAsk
<1>3. ~ HasExportedStorage'
  BY DEF HasExportedStorage
<1>4. ASSUME NEW g \in Handles, g # h, handle[g] # NoHandle
      PROVE  /\ HandleOK(g)'
             /\ \A a \in handle[g].box : HeldPixel(g, a)' = HeldPixel(g, a)
  <2>1. HandleOK(g) /\ handle[g].device = d /\ handle'[g] = handle[g]
    BY <1>1, <1>2, <1>4 DEF StorageInv, HandleInv
  <2> QED
    BY ONLY <2>1, HandleStays, StorageInv, ~ HasExportedStorage, Relocated(M, d, N),
       UNCHANGED <<exportMode, storageMovement, exportedImageStorage, childStorage,
                   pointer, content>>,
       d \in Devices \cup {Memory}, M \in SUBSET Tiles, g \in Handles
<1>5. TypeOK'
  <2>1. Tiles' = Tiles
    BY DEF Relocated, Tiles
  <2> QED
    BY <1>1, <2>1 DEF Relocated, StorageInv, TypeOK, HandleType
<1>6. TilesSound(tileArray, heap)'
  BY DEF Relocated
<1>7. ExportedInv' /\ KeptInv'
  BY <1>3 DEF StorageInv, ExportedInv, KeptInv, HasExportedStorage
<1>8. HandleInv'
  BY <1>1, <1>4 DEF HandleInv
<1>9. HandlesApart'
  <2>1. \A b \in N : b \notin InUse
    BY DEF Relocated
  <2>2. \A g \in Handles : g # h /\ r.kind = "cobbled" => handle[g].storage # r.storage
    BY <2>1 DEF InUse
  <2>3. \A g \in Handles : g # h /\ handle[g] # NoHandle =>
           /\ handle[g].device = r.device
           /\ handle[g].kind = "cobbled" /\ r.kind = "cobbled" => handle[g].storage # r.storage
           /\ w /\ handle[g].writable => handle[g].box \cap r.box = {}
    BY <1>1, <1>2, <2>2
  <2>4. \A f, g \in Handles :
           f # g /\ handle[f] # NoHandle /\ handle[g] # NoHandle =>
             /\ handle[f].device = handle[g].device
             /\ handle[f].kind = "cobbled" /\ handle[g].kind = "cobbled" =>
                   handle[f].storage # handle[g].storage
             /\ handle[f].writable /\ handle[g].writable =>
                   handle[f].box \cap handle[g].box = {}
    BY DEF StorageInv, HandlesApart
  <2>5. SUFFICES ASSUME NEW f \in Handles, NEW g \in Handles, f # g,
                        handle'[f] # NoHandle, handle'[g] # NoHandle
                 PROVE  /\ handle'[f].device = handle'[g].device
                        /\ handle'[f].kind = "cobbled" /\ handle'[g].kind = "cobbled" =>
                              handle'[f].storage # handle'[g].storage
                        /\ handle'[f].writable /\ handle'[g].writable =>
                              handle'[f].box \cap handle'[g].box = {}
    BY DEF HandlesApart
  <2>6. CASE f = h
    BY <1>1, <2>3, <2>5, <2>6
  <2>7. CASE g = h
    BY <1>1, <2>3, <2>5, <2>7
  <2>8. CASE f # h /\ g # h
    BY <1>1, <2>4, <2>5, <2>8
  <2> QED
    BY <2>6, <2>7, <2>8
<1>10. UsedInv'
  <2>1. \A g \in Handles : handle[g].kind = "cobbled" => handle'[g] = handle[g]
    BY <1>1 DEF NoHandle
  <2>2. \A b \in N : \E g \in Handles : handle'[g].kind = "cobbled" /\ handle'[g].storage = b
    BY <1>1
  <2> QED
    BY <2>1, <2>2, UsedStays
<1>11. ASSUME NEW a \in Areas, content[a] # Unknown, ~ BeingWritten(a)
       PROVE  PixelAt(tileArray, heap, a) = content[a]
  BY <1>11, ShownTiles DEF StorageInv, ContentKept
<1>12. ContentKept'
  <2>1. SUFFICES ASSUME NEW a \in Areas, content[a] # Unknown, ~ BeingWritten(a)'
                 PROVE  Shown(a)' = content[a]
    BY DEF ContentKept
  <2>2. ~ BeingWritten(a)
    BY <1>1, <2>1 DEF BeingWritten, NoHandle
  <2>3. PixelAt(tileArray', heap', a) = PixelAt(tileArray, heap, a)
    BY DEF Relocated
  <2> QED
    BY <1>3, <1>11, <2>1, <2>2, <2>3, ShownTilesNext
<1>13. WriterInv'
  <2>1. SUFFICES ASSUME NEW g \in Handles, handle'[g].writable,
                        NEW a \in handle'[g].box, content[a] # Unknown
                 PROVE  HeldPixel(g, a)' = content[a]
    BY DEF WriterInv
  <2>2. CASE g = h
    <3>1. w /\ a \in box /\ a \in Areas
      BY <1>1, <2>1, <2>2
    <3>2. \A f \in Handles : handle[f].writable => handle[f] # NoHandle
      BY DEF NoHandle
    <3>3. ~ BeingWritten(a)
      BY <1>2, <3>1, <3>2 DEF BeingWritten
    <3> QED
      BY <1>11, <2>1, <2>2, <3>1, <3>3
  <2>3. CASE g # h
    <3>1. handle[g] # NoHandle /\ handle[g].writable /\ a \in handle[g].box
      BY <1>1, <2>1, <2>3 DEF NoHandle
    <3> QED
      BY <1>4, <2>1, <2>3, <3>1 DEF StorageInv, WriterInv
  <2> QED
    BY <2>2, <2>3
<1> QED
  BY <1>5, <1>6, <1>7, <1>8, <1>9, <1>10, <1>12, <1>13 DEF StorageInv

\* Tiles were moved and nobody got anything, since one of them failed.
LEMMA NoGrantStep ==
    ASSUME StorageInv, ~ HasExportedStorage,
           UNCHANGED <<exportMode, storageMovement, exportedImageStorage,
                       childStorage, handle, pointer, content>>,
           NEW d \in Devices \cup {Memory},
           \A g \in Handles : handle[g] # NoHandle => handle[g].device = d,
           NEW M \in SUBSET Tiles, Relocated(M, d, {})
    PROVE  StorageInv'
<1>1. ~ HasExportedStorage'
  BY DEF HasExportedStorage
<1>2. ASSUME NEW g \in Handles, handle[g] # NoHandle
      PROVE  /\ HandleOK(g)'
             /\ \A a \in handle[g].box : HeldPixel(g, a)' = HeldPixel(g, a)
  <2>1. HandleOK(g) /\ handle[g].device = d /\ handle'[g] = handle[g]
    BY <1>2 DEF StorageInv, HandleInv
  <2> QED
    BY <2>1, HandleStays
<1>3. TypeOK'
  <2>1. Tiles' = Tiles
    BY DEF Relocated, Tiles
  <2> QED
    BY <2>1 DEF Relocated, StorageInv, TypeOK
<1>4. TilesSound(tileArray, heap)'
  BY DEF Relocated
<1>5. ExportedInv' /\ KeptInv'
  BY <1>1 DEF StorageInv, ExportedInv, KeptInv, HasExportedStorage
<1>6. HandleInv' /\ HandlesApart'
  BY <1>2 DEF StorageInv, HandleInv, HandlesApart
<1>7. UsedInv'
  BY UsedStays
<1>8. ContentKept'
  <2>1. SUFFICES ASSUME NEW a \in Areas, content[a] # Unknown, ~ BeingWritten(a)
                 PROVE  Shown(a)' = content[a]
    BY DEF ContentKept, BeingWritten
  <2>2. PixelAt(tileArray', heap', a) = PixelAt(tileArray, heap, a)
    BY DEF Relocated
  <2>3. Shown(a) = content[a]
    BY <2>1 DEF StorageInv, ContentKept
  <2> QED
    BY <1>1, <2>2, <2>3, ShownTiles, ShownTilesNext
<1>9. WriterInv'
  <2>1. SUFFICES ASSUME NEW g \in Handles, handle[g].writable,
                        NEW a \in handle[g].box, content[a] # Unknown
                 PROVE  HeldPixel(g, a)' = content[a]
    BY DEF WriterInv
  <2>2. handle[g] # NoHandle
    BY <2>1 DEF NoHandle
  <2> QED
    BY <1>2, <2>1, <2>2 DEF StorageInv, WriterInv
<1> QED
  BY <1>3, <1>4, <1>5, <1>6, <1>7, <1>8, <1>9 DEF StorageInv
-----------------------------------------------------------------------------
(* Storage for compute routines.                                           *)

LEMMA AskedDevice ==
    ASSUME OneDevice, NEW h, NEW d, NEW box, NEW w, MayAsk(h, d, box, w)
    PROVE  \A g \in Handles : handle[g] # NoHandle => handle[g].device = d
BY DEF MayAsk

LEMMA GetExportedStorageStep ==
    ASSUME StorageInv, Discipline, NEW h \in Handles, NEW d \in Devices \cup {Memory},
           NEW box \in SUBSET Areas, NEW w \in BOOLEAN,
           GetExportedStorage(h, d, box, w)
    PROVE  StorageInv'
<1>1. PICK b \in Buffers : b = exportedImageStorage.storage
  BY DEF GetExportedStorage, HasExportedStorage, StorageInv, TypeOK, Buffer
<1>2. PICK r : r = [kind |-> "exported", device |-> d, storage |-> b,
                    box |-> box, writable |-> w]
  OBVIOUS
<1>3. /\ handle \in [Handles -> HandleType] /\ r \in HandleType
      /\ r.kind = "exported" /\ r.device = d /\ r.storage = b /\ r.box = box /\ r.writable = w
  BY <1>2 DEF StorageInv, TypeOK, HandleType, Device, Buffer
<1>4. /\ handle' = [handle EXCEPT ![h] = r]
      /\ handle[h] = NoHandle
      /\ handle' \in [Handles -> HandleType]
      /\ handle'[h] = r
      /\ \A g \in Handles : g # h => handle'[g] = handle[g]
      /\ HasExportedStorage /\ Permitted(d)
      /\ UNCHANGED <<exportMode, storageMovement, tileArray, exportedImageStorage,
                     childStorage, heap, pointer, content>>
  BY <1>1, <1>2, <1>3 DEF GetExportedStorage, Grant, MayAsk
<1>5. \A g \in Handles : handle[g] # NoHandle =>
         /\ handle[g].device = d
         /\ w /\ handle[g].writable => handle[g].box \cap box = {}
  BY DEF GetExportedStorage, MayAsk, Discipline
<1>6. d = Memory
  BY <1>4 DEF Permitted, StorageInv, ExportedInv, TypeOK
<1>7. HoldsExported(h)'
  BY <1>1, <1>3, <1>4, <1>6 DEF HoldsExported, HasExportedStorage
<1>8. ASSUME NEW g \in Handles, g # h, handle[g] # NoHandle
      PROVE  /\ HandleOK(g)'
             /\ \A a \in handle[g].box : HeldPixel(g, a)' = HeldPixel(g, a)
  <2>1. HandleOK(g)
    BY <1>8 DEF StorageInv, HandleInv
  <2>2. handle'[g] = handle[g]
    BY <1>4, <1>8
  <2> QED
    BY <1>4, <2>1, <2>2 DEF HandleOK, HoldsExported, HoldsTile, HoldsTiles, HoldsCobbled,
       HasExportedStorage, TilesOf, Tiles, HeldPixel
<1>9. TypeOK' /\ TilesSound(tileArray, heap)' /\ ExportedInv' /\ KeptInv'
  BY <1>4 DEF StorageInv, TypeOK, HandleType, TilesSound, ExportedInv, KeptInv,
     HasExportedStorage, Tiles
<1>10. HandleInv'
  BY <1>4, <1>7, <1>8, <1>3 DEF HandleInv, HandleOK
<1>11. HandlesApart'
  <2>1. \A f, g \in Handles :
           f # g /\ handle[f] # NoHandle /\ handle[g] # NoHandle =>
             /\ handle[f].device = handle[g].device
             /\ handle[f].kind = "cobbled" /\ handle[g].kind = "cobbled" =>
                   handle[f].storage # handle[g].storage
             /\ handle[f].writable /\ handle[g].writable =>
                   handle[f].box \cap handle[g].box = {}
    BY DEF StorageInv, HandlesApart
  <2>2. SUFFICES ASSUME NEW f \in Handles, NEW g \in Handles, f # g,
                        handle'[f] # NoHandle, handle'[g] # NoHandle
                 PROVE  /\ handle'[f].device = handle'[g].device
                        /\ handle'[f].kind = "cobbled" /\ handle'[g].kind = "cobbled" =>
                              handle'[f].storage # handle'[g].storage
                        /\ handle'[f].writable /\ handle'[g].writable =>
                              handle'[f].box \cap handle'[g].box = {}
    BY DEF HandlesApart
  <2>3. CASE f = h
    BY <1>3, <1>4, <1>5, <2>2, <2>3
  <2>4. CASE g = h
    BY <1>3, <1>4, <1>5, <2>2, <2>4
  <2>5. CASE f # h /\ g # h
    BY <1>4, <2>1, <2>2, <2>5
  <2> QED
    BY <2>3, <2>4, <2>5
<1>12. UsedInv'
  <2>1. \A g \in Handles : handle[g].kind = "cobbled" => handle'[g] = handle[g]
    BY <1>4 DEF NoHandle
  <2> QED
    BY <1>4, <2>1 DEF StorageInv, UsedInv, Tiles
<1>13. ContentKept'
  <2>1. SUFFICES ASSUME NEW a \in Areas, content[a] # Unknown, ~ BeingWritten(a)'
                 PROVE  Shown(a)' = content[a]
    BY <1>4 DEF ContentKept
  <2>2. ~ BeingWritten(a)
    BY <1>4, <2>1 DEF BeingWritten, NoHandle
  <2> QED
    BY <1>4, <2>1, <2>2 DEF StorageInv, ContentKept, Shown, HasExportedStorage, StorageAt, TileOf
<1>14. WriterInv'
  <2>1. SUFFICES ASSUME NEW g \in Handles, handle'[g].writable,
                        NEW a \in handle'[g].box, content[a] # Unknown
                 PROVE  HeldPixel(g, a)' = content[a]
    BY <1>4 DEF WriterInv
  <2>2. CASE g = h
    <3>1. w /\ a \in box /\ a \in Areas
      BY <1>3, <1>4, <2>1, <2>2
    <3>2. \A f \in Handles : handle[f].writable => handle[f] # NoHandle
      BY DEF NoHandle
    <3>3. ~ BeingWritten(a)
      BY <1>5, <3>1, <3>2 DEF BeingWritten
    <3>4. Shown(a) = content[a]
      BY <2>1, <3>1, <3>3 DEF StorageInv, ContentKept
    <3> QED
      BY <1>1, <1>3, <1>4, <2>2, <3>4, DevicesAssumption DEF HeldPixel, Shown
  <2>3. CASE g # h
    <3>1. handle[g] # NoHandle /\ handle[g].writable /\ a \in handle[g].box
      BY <1>4, <2>1, <2>3 DEF NoHandle
    <3> QED
      BY <1>8, <2>1, <2>3, <3>1 DEF StorageInv, WriterInv
  <2> QED
    BY <2>2, <2>3
<1> QED
  BY <1>9, <1>10, <1>11, <1>12, <1>13, <1>14 DEF StorageInv

LEMMA GetTiledStorageStep ==
    ASSUME StorageInv, Discipline, NEW h \in Handles, NEW d \in Devices \cup {Memory},
           NEW box \in SUBSET Areas, NEW w \in BOOLEAN, NEW failed,
           GetTiledStorage(h, d, box, w, failed)
    PROVE  StorageInv'
<1>1. /\ MayAsk(h, d, box, w) /\ ~ HasExportedStorage
      /\ failed \in Outcomes(box, d)
      /\ MoveTiles(box, d, failed, FALSE)
      /\ UNCHANGED <<exportMode, storageMovement, exportedImageStorage,
                     childStorage, pointer, content>>
  BY DEF GetTiledStorage
<1>2. PICK M : M = Moved(box, d, failed)
  OBVIOUS
<1>3. /\ M \in SUBSET Tiles /\ Relocated(M, d, {})
      /\ failed = NoTile => \A t \in TilesOf(box) : IsOn(tileArray'[t], d)
  BY <1>1, <1>2, MoveTilesStep DEF StorageInv, Discipline, Moved, TilesOf
<1>4. CASE failed # NoTile
  <2>1. UNCHANGED handle
    BY <1>4 DEF GetTiledStorage
  <2>2. \A g \in Handles : handle[g] # NoHandle => handle[g].device = d
    BY <1>1, AskedDevice DEF Discipline
  <2> QED
    BY <1>1, <1>3, <2>1, <2>2, NoGrantStep
<1>5. CASE failed = NoTile
  <2>1. PICK r : r = [kind |-> "tiled", device |-> d, storage |-> NoBuffer,
                      box |-> box, writable |-> w]
    OBVIOUS
  <2>2. /\ handle \in [Handles -> HandleType] /\ r \in HandleType
        /\ r.kind = "tiled" /\ r.device = d /\ r.storage = NoBuffer
        /\ r.box = box /\ r.writable = w
    BY <2>1 DEF StorageInv, TypeOK, HandleType, Device, Buffer
  <2>3. handle' = [handle EXCEPT ![h] = r]
    BY <1>5, <2>1 DEF GetTiledStorage, Grant
  <2>4. handle'[h] = r
    BY <2>2, <2>3
  <2>5. Granted(h, d, box, w, r)
    BY <1>1, <2>2, <2>3 DEF Granted
  <2>6. HoldsTiles(h)'
    <3>1. Tiles' = Tiles /\ ~ HasExportedStorage'
      BY <1>1, <1>3 DEF Relocated, Tiles, HasExportedStorage
    <3> QED
      BY <1>3, <1>5, <2>2, <2>4, <3>1 DEF HoldsTiles, TilesOf
  <2>7. HandleOK(h)'
    BY <2>2, <2>4, <2>6 DEF HandleOK
  <2>8. ASSUME NEW a \in box PROVE HeldPixel(h, a)' = PixelAt(tileArray, heap, a)
    <3>1. DOMAIN tileArray' \in Layouts
      BY <1>3 DEF Relocated, StorageInv, TypeOK
    <3>2. TileOf(tileArray', a) \in Tiles /\ a \in TileOf(tileArray', a)
      BY <1>3, <3>1, TileOfArea DEF Relocated
    <3>3. StorageAt(tileArray', a) # NoBuffer
      BY <1>3, <1>5, <3>2 DEF TilesOf, IsOn, StorageAt
    <3>4. PixelAt(tileArray', heap', a) = PixelAt(tileArray, heap, a)
      BY <1>3 DEF Relocated
    <3> QED
      BY <2>2, <2>4, <3>3, <3>4 DEF HeldPixel, PixelAt, StorageAt, TileOf
  <2> QED
    BY <1>1, <1>3, <2>2, <2>5, <2>7, <2>8, GrantStep DEF Discipline
<1> QED
  BY <1>4, <1>5

\* A region of its own, with the pixels the image shows
LEMMA CobbledStep ==
    ASSUME StorageInv, Discipline, ~ HasExportedStorage,
           NEW h \in Handles, NEW d \in Devices \cup {Memory},
           NEW box \in SUBSET Areas, NEW w \in BOOLEAN,
           MayAsk(h, d, box, w),
           MoveTiles(box, d, NoTile, TRUE),
           Grant(h, "cobbled", d, CobbledBuffer(box, d), box, w),
           UNCHANGED <<exportMode, storageMovement, exportedImageStorage,
                       childStorage, pointer, content>>
    PROVE  StorageInv'
<1>1. PICK M : M = Moved(box, d, NoTile)
  OBVIOUS
<1>2. PICK c : c = CobbledBuffer(box, d)
  OBVIOUS
<1>3. NoTile \in Outcomes(box, d)
  BY DEF Outcomes
<1>4. /\ M \in SUBSET Tiles /\ Relocated(M, d, {c})
      /\ \A t \in TilesOf(box) : IsOn(tileArray'[t], d)
      /\ \A a \in box : heap'[c].data[a] = PixelAt(tileArray, heap, a)
  BY <1>1, <1>2, <1>3, MoveTilesStep DEF StorageInv, Discipline, Moved, TilesOf
<1>5. /\ c \in Buffers /\ heap'[c].owner = d
      /\ \A t \in Tiles : tileArray'[t].storage # c
  BY <1>4 DEF Relocated
<1>6. PICK r : r = [kind |-> "cobbled", device |-> d, storage |-> c,
                    box |-> box, writable |-> w]
  OBVIOUS
<1>7. /\ handle \in [Handles -> HandleType] /\ r \in HandleType
      /\ r.kind = "cobbled" /\ r.device = d /\ r.storage = c
      /\ r.box = box /\ r.writable = w
  BY <1>5, <1>6 DEF StorageInv, TypeOK, HandleType, Device, Buffer
<1>8. handle' = [handle EXCEPT ![h] = r]
  BY <1>2, <1>6 DEF Grant
<1>9. handle'[h] = r
  BY <1>7, <1>8
<1>10. Granted(h, d, box, w, r)
  BY <1>7, <1>8 DEF Granted
<1>11. HoldsCobbled(h)'
  <2>1. Tiles' = Tiles /\ ~ HasExportedStorage'
    BY <1>4 DEF Relocated, Tiles, HasExportedStorage
  <2>2. c # NoBuffer
    BY <1>5, DevicesAssumption
  <2> QED
    BY <1>4, <1>5, <1>7, <1>9, <2>1, <2>2 DEF HoldsCobbled, TilesOf
<1>12. HandleOK(h)'
  BY <1>7, <1>9, <1>11 DEF HandleOK
<1>13. \A a \in box : HeldPixel(h, a)' = PixelAt(tileArray, heap, a)
  BY <1>4, <1>7, <1>9 DEF HeldPixel
<1> QED
  BY <1>4, <1>7, <1>10, <1>12, <1>13, GrantStep DEF Discipline

LEMMA GetStorageStep ==
    ASSUME StorageInv, Discipline, NEW h \in Handles, NEW d \in Devices \cup {Memory},
           NEW box \in SUBSET Areas, NEW w \in BOOLEAN, NEW failed,
           GetStorage(h, d, box, w, failed)
    PROVE  StorageInv'
<1>0. Cardinality(TilesOf(box)) \in Nat
  BY TilesOfBox DEF GetStorage, MayAsk, StorageInv, TypeOK
<1>1. PICK many \in BOOLEAN : many <=> Cardinality(TilesOf(box)) > 1
  BY <1>0
<1>2. /\ MayAsk(h, d, box, w) /\ ~ HasExportedStorage
      /\ failed \in Outcomes(box, d)
      /\ MoveTiles(box, d, failed, many /\ failed = NoTile)
      /\ UNCHANGED <<exportMode, storageMovement, exportedImageStorage,
                     childStorage, pointer, content>>
  BY <1>1 DEF GetStorage
<1>3. CASE many /\ failed = NoTile
  <2>1. Grant(h, "cobbled", d, CobbledBuffer(box, d), box, w)
    BY <1>1, <1>3 DEF GetStorage
  <2>2. MoveTiles(box, d, NoTile, TRUE)
    BY <1>2, <1>3
  <2> QED
    BY <1>2, <2>1, <2>2, CobbledStep
<1>4. PICK M : M = Moved(box, d, failed)
  OBVIOUS
<1>5. ASSUME ~ (many /\ failed = NoTile)
      PROVE  /\ M \in SUBSET Tiles /\ Relocated(M, d, {})
             /\ failed = NoTile => \A t \in TilesOf(box) : IsOn(tileArray'[t], d)
  <2>1. MoveTiles(box, d, failed, FALSE)
    BY <1>2, <1>5
  <2> QED
    BY <1>2, <1>4, <2>1, MoveTilesStep DEF StorageInv, Discipline, Moved, TilesOf
<1>6. CASE failed # NoTile
  <2>1. UNCHANGED handle
    BY <1>6 DEF GetStorage
  <2>2. \A g \in Handles : handle[g] # NoHandle => handle[g].device = d
    BY <1>2, AskedDevice DEF Discipline
  <2> QED
    BY <1>2, <1>5, <1>6, <2>1, <2>2, NoGrantStep
<1>7. CASE failed = NoTile /\ ~ many
  <2>1. PICK t \in Tiles : TilesOf(box) = {t} /\ box \subseteq t
    BY <1>1, <1>2, <1>7, TilesOfBox DEF MayAsk, StorageInv, TypeOK
  <2>2. (CHOOSE s \in TilesOf(box) : TRUE) = t
    BY <2>1
  <2>3. PICK b : b = tileArray'[t].storage
    OBVIOUS
  <2>4. IsOn(tileArray'[t], d) /\ b \in Buffers /\ b # NoBuffer
    BY <1>5, <1>7, <2>1, <2>3, DevicesAssumption DEF IsOn, Relocated, Buffer
  <2>5. PICK r : r = [kind |-> "tile", device |-> d, storage |-> b,
                      box |-> box, writable |-> w]
    OBVIOUS
  <2>6. /\ handle \in [Handles -> HandleType] /\ r \in HandleType
        /\ r.kind = "tile" /\ r.device = d /\ r.storage = b
        /\ r.box = box /\ r.writable = w
    BY <2>4, <2>5 DEF StorageInv, TypeOK, HandleType, Device, Buffer
  <2>7. Grant(h, "tile", d, tileArray'[CHOOSE s \in TilesOf(box) : TRUE].storage, box, w)
    BY <1>1, <1>7 DEF GetStorage
  <2>8. handle' = [handle EXCEPT ![h] = r]
    BY <2>2, <2>3, <2>5, <2>7 DEF Grant
  <2>9. handle'[h] = r
    BY <2>6, <2>8
  <2>10. Granted(h, d, box, w, r)
    BY <1>2, <2>6, <2>8 DEF Granted
  <2>11. HoldsTile(h)'
    <3>1. Tiles' = Tiles /\ ~ HasExportedStorage'
      BY <1>2, <1>5, <1>7 DEF Relocated, Tiles, HasExportedStorage
    <3> QED
      BY <2>1, <2>3, <2>4, <2>6, <2>9, <3>1 DEF HoldsTile
  <2>12. HandleOK(h)'
    BY <2>6, <2>9, <2>11 DEF HandleOK
  <2>13. ASSUME NEW a \in box PROVE HeldPixel(h, a)' = PixelAt(tileArray, heap, a)
    <3>1. DOMAIN tileArray' \in Layouts /\ DOMAIN tileArray' = Tiles
      BY <1>5, <1>7 DEF Relocated, StorageInv, TypeOK
    <3>2. StorageAt(tileArray', a) = b
      BY <2>1, <2>3, <3>1, TileOfIs
    <3>3. PixelAt(tileArray', heap', a) = PixelAt(tileArray, heap, a)
      BY <1>5, <1>7 DEF Relocated
    <3> QED
      BY <2>4, <2>6, <2>9, <3>2, <3>3 DEF HeldPixel, PixelAt
  <2> QED
    BY <1>2, <1>5, <1>7, <2>6, <2>10, <2>12, <2>13, GrantStep DEF Discipline
<1> QED
  BY <1>3, <1>6, <1>7

LEMMA GetStorageWithCopyStep ==
    ASSUME StorageInv, Discipline, NEW h \in Handles, NEW failed,
           GetStorageWithCopy(h, failed)
    PROVE  StorageInv'
<1>1. /\ NoHandles /\ ~ HasExportedStorage
      /\ failed \in Outcomes(Areas, Memory)
      /\ MoveTiles(Areas, Memory, failed, failed = NoTile)
      /\ UNCHANGED <<exportMode, storageMovement, exportedImageStorage,
                     childStorage, pointer, content>>
  BY DEF GetStorageWithCopy, Discipline
<1>2. \A g \in Handles : handle[g] = NoHandle
  BY <1>1, NobodyHolds
<1>3. CASE failed = NoTile
  <2>1. Grant(h, "cobbled", Memory, CobbledBuffer(Areas, Memory), Areas, FALSE)
    BY <1>3 DEF GetStorageWithCopy
  <2>2. MoveTiles(Areas, Memory, NoTile, TRUE)
    BY <1>1, <1>3
  <2>3. MayAsk(h, Memory, Areas, FALSE)
    BY <1>2, LayoutsAssumption DEF MayAsk
  <2> QED
    BY <1>1, <2>1, <2>2, <2>3, CobbledStep
<1>4. CASE failed # NoTile
  <2>1. MoveTiles(Areas, Memory, failed, FALSE) /\ UNCHANGED handle
    BY <1>1, <1>4 DEF GetStorageWithCopy
  <2>2. PICK M : M = Moved(Areas, Memory, failed)
    OBVIOUS
  <2>3. M \in SUBSET Tiles
    BY <2>2 DEF Moved, TilesOf
  <2>4. Areas \in SUBSET Areas /\ Memory \in Devices \cup {Memory} /\ FALSE \in BOOLEAN
    OBVIOUS
  <2>5. Relocated(M, Memory, {})
    BY <1>1, <2>1, <2>2, <2>4, MoveTilesStep DEF StorageInv, Discipline
  <2> QED
    BY <1>1, <1>2, <2>1, <2>3, <2>5, NoGrantStep
<1> QED
  BY <1>3, <1>4

-----------------------------------------------------------------------------
(* Writing pixels.                                                         *)

\* Only pixels change: everything else stays as it is.
LEMMA OwnersKept ==
    ASSUME StorageInv,
           UNCHANGED <<exportMode, storageMovement, tileArray, exportedImageStorage,
                       childStorage, handle, pointer>>,
           heap' \in [Buffers -> [owner : Device \cup {User}, data : Pixels]],
           content' \in Pixels,
           \A b \in Buffers : heap'[b].owner = heap[b].owner,
           ContentKept', WriterInv'
    PROVE  StorageInv'
<1>1. TypeOK' /\ Tiles' = Tiles
  BY DEF StorageInv, TypeOK, Tiles
<1>2. \A t \in Tiles : tileArray[t].storage \in Buffer
  BY DEF StorageInv, TypeOK
<1>3. TilesSound(tileArray, heap)'
  BY <1>2 DEF StorageInv, TilesSound, Tiles, Buffer
<1>4. exportedImageStorage.storage \in Buffer
  BY DEF StorageInv, TypeOK
<1>5. ExportedInv' /\ KeptInv'
  BY <1>1, <1>4 DEF StorageInv, ExportedInv, KeptInv, HasExportedStorage, Buffer
<1>6. ASSUME NEW h \in Handles, HandleOK(h) PROVE HandleOK(h)'
  <2>1. handle[h].storage \in Buffer
    BY DEF StorageInv, TypeOK
  <2> QED
    BY <1>1, <1>6, <2>1 DEF HandleOK, HoldsExported, HoldsTile, HoldsTiles, HoldsCobbled,
       HasExportedStorage, TilesOf, Buffer
<1>7. HandleInv' /\ HandlesApart'
  BY <1>6 DEF StorageInv, HandleInv, HandlesApart
<1>8. UsedInv'
  BY <1>1 DEF StorageInv, UsedInv
<1> QED
  BY <1>1, <1>3, <1>5, <1>7, <1>8 DEF StorageInv

\* Area a of buffer b and of the image is v, and nothing else changes.
Wrote(b, a, v) ==
    /\ heap' \in [Buffers -> [owner : Device \cup {User}, data : Pixels]]
    /\ content' \in Pixels
    /\ content'[a] = v /\ \A x \in Areas \ {a} : content'[x] = content[x]
    /\ \A c \in Buffers : heap'[c].owner = heap[c].owner
    /\ \A c \in Buffers \ {b} : heap'[c] = heap[c]
    /\ heap'[b].data[a] = v
    /\ \A x \in Areas \ {a} : heap'[b].data[x] = heap[b].data[x]

LEMMA PixelWritten ==
    ASSUME TypeOK, NEW b \in Buffers, NEW a \in Areas, NEW v \in Values,
           heap' = [heap EXCEPT ![b].data[a] = v], content' = [content EXCEPT ![a] = v]
    PROVE  Wrote(b, a, v)
<1>1. PICK r : r = [heap[b].data EXCEPT ![a] = v]
  OBVIOUS
<1>2. heap[b].data \in Pixels /\ heap[b] \in [owner : Device \cup {User}, data : Pixels]
  BY DEF TypeOK
<1>3. /\ r \in Pixels /\ r[a] = v
      /\ \A x \in Areas \ {a} : r[x] = heap[b].data[x]
  BY <1>1, <1>2 DEF Pixels
<1>4. heap' = [heap EXCEPT ![b] = [heap[b] EXCEPT !.data = r]]
  BY <1>1
<1>5. PICK e : e = [heap[b] EXCEPT !.data = r]
  OBVIOUS
<1>6. e.owner = heap[b].owner /\ e.data = r /\ e \in [owner : Device \cup {User}, data : Pixels]
  BY <1>2, <1>3, <1>5
<1>7. heap' = [heap EXCEPT ![b] = e]
  BY <1>4, <1>5
<1>8. heap'[b] = e /\ \A c \in Buffers \ {b} : heap'[c] = heap[c]
  BY <1>7 DEF TypeOK
<1>9. heap' \in [Buffers -> [owner : Device \cup {User}, data : Pixels]]
  BY <1>6, <1>7 DEF TypeOK
<1>10. content' \in Pixels /\ content'[a] = v /\ \A x \in Areas \ {a} : content'[x] = content[x]
  BY DEF TypeOK, Pixels
<1> QED
  BY <1>3, <1>6, <1>8, <1>9, <1>10 DEF Wrote

\* The buffer a thread writes to
HeldBuffer(h, a) == IF handle[h].kind = "tiled" THEN StorageAt(tileArray, a)
                    ELSE handle[h].storage

LEMMA ComputePixelStep ==
    ASSUME StorageInv, Discipline, NEW h \in Handles, NEW a \in Areas, NEW v \in Values,
           Compute(h, a, v)
    PROVE  StorageInv'
<1>1. PICK b : b = HeldBuffer(h, a)
  OBVIOUS
<1>2. /\ handle[h].writable /\ a \in handle[h].box
      /\ heap' = [heap EXCEPT ![b].data[a] = v]
      /\ content' = [content EXCEPT ![a] = v]
      /\ UNCHANGED <<exportMode, storageMovement, tileArray, exportedImageStorage,
                     childStorage, handle, pointer>>
  BY <1>1 DEF Compute, HeldBuffer
<1>3. HandleOK(h)
  BY <1>2 DEF StorageInv, HandleInv, NoHandle
<1>4. b \in Buffers
  BY <1>1, <1>2, <1>3, HeldIsShown DEF StorageInv, HeldBuffer
<1>5. /\ heap' \in [Buffers -> [owner : Device \cup {User}, data : Pixels]]
      /\ content' \in Pixels
      /\ content'[a] = v /\ \A x \in Areas \ {a} : content'[x] = content[x]
      /\ \A c \in Buffers : heap'[c].owner = heap[c].owner
      /\ \A c \in Buffers \ {b} : heap'[c] = heap[c]
      /\ heap'[b].data[a] = v
      /\ \A x \in Areas \ {a} : heap'[b].data[x] = heap[b].data[x]
  <2>1. heap' = [heap EXCEPT ![b].data[a] = v] /\ content' = [content EXCEPT ![a] = v]
    BY <1>2
  <2>2. TypeOK
    BY DEF StorageInv
  <2>3. Wrote(b, a, v)
    BY ONLY <1>4, <2>1, <2>2, PixelWritten, a \in Areas, v \in Values
  <2> QED
    BY <2>3 DEF Wrote
<1>6. \A c \in Buffers, x \in Areas \ {a} : heap'[c].data[x] = heap[c].data[x]
  BY <1>5
<1>7. \A x : StorageAt(tileArray', x) = StorageAt(tileArray, x)
  BY <1>2
<1>8. ContentKept'
  <2>1. SUFFICES ASSUME NEW x \in Areas, content'[x] # Unknown, ~ BeingWritten(x)'
                 PROVE  Shown(x)' = content'[x]
    BY DEF ContentKept
  <2>2. ~ BeingWritten(x) /\ x # a
    BY <1>2, <2>1 DEF BeingWritten
  <2>3. Shown(x) = content[x] /\ content'[x] = content[x]
    BY <1>5, <2>1, <2>2 DEF StorageInv, ContentKept
  <2>4. exportedImageStorage.storage \in Buffer /\ StorageAt(tileArray, x) \in Buffer
    BY <2>1, TileOfArea DEF StorageInv, TypeOK, StorageAt, Tiles
  <2> QED
    BY <1>2, <1>6, <1>7, <2>2, <2>3, <2>4 DEF Shown, HasExportedStorage, Buffer
<1>9. WriterInv'
  <2>1. SUFFICES ASSUME NEW g \in Handles, handle[g].writable,
                        NEW x \in handle[g].box, content'[x] # Unknown
                 PROVE  HeldPixel(g, x)' = content'[x]
    BY <1>2 DEF WriterInv
  <2>2. HandleOK(g)
    BY <2>1 DEF StorageInv, HandleInv, NoHandle
  <2>3. HeldBuffer(g, x) \in Buffers /\ x \in Areas
    BY <2>1, <2>2, HeldIsShown DEF StorageInv, HeldBuffer, TypeOK
  <2>4. HeldPixel(g, x)' = heap'[HeldBuffer(g, x)].data[x]
    BY <1>2, <1>7 DEF HeldPixel, HeldBuffer
  <2>5. CASE x = a
    <3>1. g = h
      BY <1>2, <2>1, <2>5 DEF StorageInv, HandlesApart, NoHandle
    <3> QED
      BY <1>1, <1>5, <2>4, <2>5, <3>1
  <2>6. CASE x # a
    <3>1. heap'[HeldBuffer(g, x)].data[x] = heap[HeldBuffer(g, x)].data[x]
      BY <1>6, <2>3, <2>6
    <3>2. heap[HeldBuffer(g, x)].data[x] = content[x]
      BY <1>5, <2>1, <2>3, <2>6 DEF StorageInv, WriterInv, HeldPixel, HeldBuffer
    <3> QED
      BY <1>5, <2>3, <2>4, <2>6, <3>1, <3>2
  <2> QED
    BY <2>5, <2>6
<1> QED
  BY <1>2, <1>5, <1>8, <1>9, OwnersKept

LEMMA WritePixelStep ==
    ASSUME StorageInv, NEW i \in {"image", "child"}, NEW a \in Areas, NEW v \in Values,
           WritePixel(i, a, v)
    PROVE  StorageInv'
<1>1. PICK b : b = pointer[i]
  OBVIOUS
<1>2. /\ NoHandles /\ b # NoBuffer
      /\ heap' = [heap EXCEPT ![b].data[a] = v]
      /\ content' = [content EXCEPT ![a] = v]
      /\ UNCHANGED <<exportMode, storageMovement, tileArray, exportedImageStorage,
                     childStorage, handle, pointer>>
  BY <1>1 DEF WritePixel
<1>3. b \in Buffers /\ b = exportedImageStorage.storage /\ HasExportedStorage
  BY <1>1, <1>2 DEF StorageInv, TypeOK, KeptInv, Buffer, HasExportedStorage
<1>4. /\ heap' \in [Buffers -> [owner : Device \cup {User}, data : Pixels]]
      /\ content' \in Pixels
      /\ content'[a] = v /\ \A x \in Areas \ {a} : content'[x] = content[x]
      /\ \A c \in Buffers : heap'[c].owner = heap[c].owner
      /\ \A c \in Buffers \ {b} : heap'[c] = heap[c]
      /\ heap'[b].data[a] = v
      /\ \A x \in Areas \ {a} : heap'[b].data[x] = heap[b].data[x]
  <2>1. heap' = [heap EXCEPT ![b].data[a] = v] /\ content' = [content EXCEPT ![a] = v]
    BY <1>2
  <2>2. TypeOK /\ b \in Buffers
    BY <1>3 DEF StorageInv
  <2>3. Wrote(b, a, v)
    BY ONLY <2>1, <2>2, PixelWritten, a \in Areas, v \in Values
  <2> QED
    BY <2>3 DEF Wrote
<1>5. \A h \in Handles : ~ handle[h].writable
  BY <1>2, NobodyHolds
<1>6. ContentKept'
  <2>1. SUFFICES ASSUME NEW x \in Areas, content'[x] # Unknown
                 PROVE  heap'[b].data[x] = content'[x]
    BY <1>2, <1>3 DEF ContentKept, Shown, HasExportedStorage
  <2>2. content[x] # Unknown => heap[b].data[x] = content[x]
    BY <1>2, <1>3, <1>5 DEF StorageInv, ContentKept, Shown, BeingWritten
  <2> QED
    BY <1>4, <2>1, <2>2
<1>7. WriterInv'
  BY <1>2, <1>5 DEF WriterInv
<1> QED
  BY <1>2, <1>4, <1>6, <1>7, OwnersKept

\* The pixels of box are copied to the tiles, and nothing else changes.
CopiedTo(after, hp, array, pixels, box) ==
    /\ after \in [Buffers -> [owner : Device \cup {User}, data : Pixels]]
    /\ \A b \in Buffers : after[b].owner = hp[b].owner
    /\ \A b \in Buffers, x \in Areas :
          after[b].data[x] = IF x \in box /\ StorageAt(array, x) = b THEN pixels[x]
                             ELSE hp[b].data[x]

LEMMA DecobbledFacts ==
    ASSUME NEW hp \in [Buffers -> [owner : Device \cup {User}, data : Pixels]],
           NEW array, NEW pixels \in Pixels, NEW box
    PROVE  CopiedTo(Decobbled(hp, array, pixels, box), hp, array, pixels, box)
<1>1. ASSUME NEW b \in Buffers
      PROVE  /\ Decobbled(hp, array, pixels, box)[b].owner = hp[b].owner
             /\ Decobbled(hp, array, pixels, box)[b] \in [owner : Device \cup {User}, data : Pixels]
             /\ \A x \in Areas : Decobbled(hp, array, pixels, box)[b].data[x] =
                    IF x \in box /\ StorageAt(array, x) = b THEN pixels[x]
                    ELSE hp[b].data[x]
  <2>1. PICK e : e = hp[b]
    OBVIOUS
  <2>2. e \in [owner : Device \cup {User}, data : Pixels]
    BY <2>1
  <2>3. PICK r : r = [x \in Areas |-> IF x \in box /\ StorageAt(array, x) = b THEN pixels[x]
                                      ELSE e.data[x]]
    OBVIOUS
  <2>4. r \in Pixels
    BY <2>2, <2>3 DEF Pixels
  <2>5. Decobbled(hp, array, pixels, box)[b] = [e EXCEPT !.data = r]
    BY <2>1, <2>3 DEF Decobbled
  <2>6. /\ [e EXCEPT !.data = r].owner = e.owner
        /\ [e EXCEPT !.data = r].data = r
        /\ [e EXCEPT !.data = r] \in [owner : Device \cup {User}, data : Pixels]
    BY <2>2, <2>4
  <2> QED
    BY <2>1, <2>3, <2>5, <2>6
<1>2. Decobbled(hp, array, pixels, box) =
         [b \in Buffers |-> Decobbled(hp, array, pixels, box)[b]]
  BY DEF Decobbled
<1>3. Decobbled(hp, array, pixels, box)
         \in [Buffers -> [owner : Device \cup {User}, data : Pixels]]
  BY ONLY <1>1, <1>2
<1> QED
  BY <1>1, <1>3 DEF CopiedTo

\* A thread gives back what it has not copied, with the pixels where they are.
LEMMA ReleaseOther ==
    ASSUME StorageInv, NEW h \in Handles, handle[h] # NoHandle, handle[h].kind # "cobbled",
           handle' = [handle EXCEPT ![h] = NoHandle],
           UNCHANGED <<exportMode, storageMovement, tileArray, exportedImageStorage,
                       childStorage, heap, pointer, content>>
    PROVE  StorageInv'
<1>1. /\ handle \in [Handles -> HandleType] /\ NoHandle \in HandleType
      /\ handle'[h] = NoHandle
      /\ \A g \in Handles : g # h => handle'[g] = handle[g]
      /\ handle' \in [Handles -> HandleType]
  BY DEF StorageInv, TypeOK, HandleType, NoHandle, Device, Buffer
<1>2. HandleOK(h)
  BY DEF StorageInv, HandleInv
<1>3. TypeOK' /\ TilesSound(tileArray, heap)' /\ ExportedInv' /\ KeptInv'
  BY <1>1 DEF StorageInv, TypeOK, HandleType, TilesSound, ExportedInv, KeptInv,
     HasExportedStorage, Tiles
<1>4. ASSUME NEW g \in Handles, g # h, handle[g] # NoHandle
      PROVE  /\ HandleOK(g)'
             /\ \A a \in handle[g].box : HeldPixel(g, a)' = HeldPixel(g, a)
  <2>1. HandleOK(g) /\ handle'[g] = handle[g]
    BY <1>1, <1>4 DEF StorageInv, HandleInv
  <2> QED
    BY <2>1 DEF HandleOK, HoldsExported, HoldsTile, HoldsTiles, HoldsCobbled,
       HasExportedStorage, TilesOf, Tiles, HeldPixel
<1>5. HandleInv' /\ HandlesApart'
  BY <1>1, <1>4 DEF StorageInv, HandleInv, HandlesApart
<1>6. UsedInv'
  <2>1. \A g \in Handles : handle[g].kind = "cobbled" => handle'[g] = handle[g]
    BY <1>1
  <2> QED
    BY <2>1 DEF StorageInv, UsedInv, Tiles
<1>7. ContentKept'
  <2>1. SUFFICES ASSUME NEW a \in Areas, content[a] # Unknown, ~ BeingWritten(a)'
                 PROVE  Shown(a) = content[a]
    BY DEF ContentKept, Shown, HasExportedStorage, StorageAt, TileOf
  <2>2. CASE handle[h].writable /\ a \in handle[h].box
    <3>1. HeldPixel(h, a) = content[a]
      BY <2>1, <2>2 DEF StorageInv, WriterInv
    <3> QED
      BY <1>2, <2>2, <3>1, HeldIsShown DEF StorageInv
  <2>3. CASE ~ (handle[h].writable /\ a \in handle[h].box)
    <3>1. ~ BeingWritten(a)
      BY <1>1, <2>1, <2>3 DEF BeingWritten
    <3> QED
      BY <2>1, <3>1 DEF StorageInv, ContentKept
  <2> QED
    BY <2>2, <2>3
<1>8. WriterInv'
  <2>1. SUFFICES ASSUME NEW g \in Handles, handle'[g].writable,
                        NEW a \in handle'[g].box, content[a] # Unknown
                 PROVE  HeldPixel(g, a)' = content[a]
    BY DEF WriterInv
  <2>2. g # h /\ handle[g] # NoHandle /\ handle[g].writable /\ a \in handle[g].box
    BY <1>1, <2>1 DEF NoHandle
  <2> QED
    BY <1>4, <2>1, <2>2 DEF StorageInv, WriterInv
<1> QED
  BY <1>3, <1>5, <1>6, <1>7, <1>8 DEF StorageInv

\* A copy is copied back before it is deallocated, if the thread has written it.
LEMMA ReleaseCobbled ==
    ASSUME StorageInv, NEW h \in Handles, handle[h].kind = "cobbled", ReleaseStorage(h)
    PROVE  StorageInv'
<1>1. /\ handle \in [Handles -> HandleType] /\ NoHandle \in HandleType
      /\ handle' = [handle EXCEPT ![h] = NoHandle]
      /\ handle[h] # NoHandle
      /\ UNCHANGED <<exportMode, storageMovement, tileArray, exportedImageStorage,
                     childStorage, pointer, content>>
  BY DEF ReleaseStorage, StorageInv, TypeOK, HandleType, NoHandle, Device, Buffer
<1>2. /\ handle'[h] = NoHandle
      /\ \A g \in Handles : g # h => handle'[g] = handle[g]
      /\ handle' \in [Handles -> HandleType]
  BY <1>1
<1>3. PICK c : c = handle[h].storage
  OBVIOUS
<1>4. HoldsCobbled(h) /\ ~ HasExportedStorage
  BY <1>1 DEF StorageInv, HandleInv, HandleOK, HoldsExported, HoldsTile, HoldsTiles, HoldsCobbled
<1>5. /\ c \in Buffers
      /\ \A t \in Tiles : tileArray[t].storage # c
      /\ \A t \in TilesOf(handle[h].box) : tileArray[t].storage # NoBuffer
  BY <1>3, <1>4 DEF HoldsCobbled, StorageInv, TypeOK, Buffer, IsOn
<1>7. PICK hp : hp = WrittenBack(h)
  OBVIOUS
<1>8. heap[c].data \in Pixels
      /\ heap \in [Buffers -> [owner : Device \cup {User}, data : Pixels]]
  BY <1>5 DEF StorageInv, TypeOK
<1>9. /\ hp \in [Buffers -> [owner : Device \cup {User}, data : Pixels]]
      /\ \A b \in Buffers : hp[b].owner = heap[b].owner
      /\ \A b \in Buffers, x \in Areas :
            hp[b].data[x] = IF handle[h].writable /\ x \in handle[h].box
                               /\ StorageAt(tileArray, x) = b
                            THEN heap[c].data[x] ELSE heap[b].data[x]
  <2>1. CASE handle[h].writable
    <3>1. hp = Decobbled(heap, tileArray, heap[c].data, handle[h].box)
      BY <1>3, <1>7, <2>1 DEF WrittenBack
    <3>2. PICK p \in Pixels : p = heap[c].data
      BY <1>8
    <3>3. hp = Decobbled(heap, tileArray, p, handle[h].box)
      BY <3>1, <3>2
    <3>4. CopiedTo(hp, heap, tileArray, p, handle[h].box)
      BY ONLY <1>8, <3>2, <3>3, DecobbledFacts
    <3> QED
      BY <2>1, <3>2, <3>4 DEF CopiedTo
  <2>2. CASE ~ handle[h].writable
    <3>1. hp = heap
      BY <1>7, <2>2 DEF WrittenBack
    <3> QED
      BY <1>8, <2>2, <3>1
  <2> QED
    BY <2>1, <2>2
<1>10. heap' = [hp EXCEPT ![c] = Free]
  BY <1>3, <1>7 DEF ReleaseStorage
<1>11. /\ heap'[c] = Free /\ \A b \in Buffers \ {c} : heap'[b] = hp[b]
       /\ heap' \in [Buffers -> [owner : Device \cup {User}, data : Pixels]]
  <2>1. Free \in [owner : Device \cup {User}, data : Pixels]
    BY DEF Free, Blank, Device, Pixels
  <2> QED
    BY <1>5, <1>9, <1>10, <2>1
<1>12. \A t \in Tiles : tileArray[t].storage \in Buffer
  BY DEF StorageInv, TypeOK
<1>13. Tiles' = Tiles /\ ~ HasExportedStorage'
  BY <1>1, <1>4 DEF Tiles, HasExportedStorage
<1>14. TypeOK'
  BY <1>1, <1>2, <1>11, <1>13 DEF StorageInv, TypeOK, HandleType
<1>15. TilesSound(tileArray, heap)'
  <2>1. \A t \in Tiles : tileArray[t].storage # NoBuffer =>
           heap'[tileArray[t].storage].owner = heap[tileArray[t].storage].owner
    BY <1>5, <1>9, <1>11, <1>12 DEF Buffer
  <2> QED
    BY <1>1, <2>1 DEF StorageInv, TilesSound, Tiles
<1>16. ExportedInv' /\ KeptInv'
  BY <1>1, <1>13, <1>4 DEF StorageInv, ExportedInv, KeptInv, HasExportedStorage
<1>17. ASSUME NEW g \in Handles, g # h, handle[g] # NoHandle
       PROVE  /\ HandleOK(g) /\ HandleOK(g)'
              /\ \A a \in handle[g].box : HeldBuffer(g, a) \in Buffers \ {c}
  <2>1. HandleOK(g) /\ handle'[g] = handle[g] /\ handle[g].storage \in Buffer
    BY <1>2, <1>17 DEF StorageInv, HandleInv, TypeOK
  <2>2. handle[g].kind = "cobbled" => handle[g].storage # c
    BY <1>1, <1>3, <1>17 DEF StorageInv, HandlesApart
  <2>3. \A t \in Tiles : tileArray'[t] = tileArray[t]
    BY <1>1
  <2>4. HandleOK(g)'
    <3>1. CASE HoldsExported(g)
      BY <1>4, <3>1 DEF HoldsExported
    <3>2. CASE HoldsTile(g)
      BY <1>13, <2>1, <2>3, <3>2 DEF HandleOK, HoldsTile
    <3>3. CASE HoldsTiles(g)
      BY <1>1, <1>13, <2>1, <3>3 DEF HandleOK, HoldsTiles, TilesOf
    <3>4. CASE HoldsCobbled(g)
      <4>1. heap'[handle[g].storage].owner = heap[handle[g].storage].owner
        BY <1>9, <1>11, <2>1, <2>2, <3>4 DEF HoldsCobbled, Buffer
      <4> QED
        BY <1>1, <1>13, <2>1, <3>4, <4>1 DEF HandleOK, HoldsCobbled, TilesOf
    <3> QED
      BY <2>1, <3>1, <3>2, <3>3, <3>4 DEF HandleOK
  <2>5. ASSUME NEW a \in handle[g].box PROVE HeldBuffer(g, a) \in Buffers \ {c}
    <3>1. HeldBuffer(g, a) \in Buffers
      BY <2>1, HeldIsShown DEF StorageInv, HeldBuffer
    <3>2. CASE HoldsTile(g)
      BY <1>5, <3>1, <3>2 DEF HoldsTile, HeldBuffer
    <3>3. CASE HoldsTiles(g)
      <4>1. TileOf(tileArray, a) \in Tiles
        BY TileOfArea DEF StorageInv, TypeOK, Tiles
      <4> QED
        BY <1>5, <3>1, <3>3, <4>1 DEF HoldsTiles, HeldBuffer, StorageAt
    <3>4. CASE HoldsCobbled(g)
      BY <2>2, <3>1, <3>4 DEF HoldsCobbled, HeldBuffer
    <3> QED
      BY <1>4, <2>1, <3>2, <3>3, <3>4 DEF HandleOK, HoldsExported
  <2> QED
    BY <2>1, <2>4, <2>5
<1>18. HandleInv' /\ HandlesApart'
  BY <1>2, <1>17 DEF StorageInv, HandleInv, HandlesApart
<1>19. UsedInv'
  <2>1. SUFFICES ASSUME NEW b \in Buffers, ByDevice(heap'[b].owner)
                 PROVE  \/ \E t \in Tiles : tileArray[t].storage = b
                        \/ \E g \in Handles : handle'[g].kind = "cobbled" /\ handle'[g].storage = b
                        \/ exportedImageStorage = [storage |-> b, cobbled |-> TRUE]
    BY <1>1, <1>13 DEF UsedInv
  <2>2. b # c /\ ByDevice(heap[b].owner)
    BY <1>9, <1>11, <2>1 DEF Free, ByDevice
  <2> QED
    BY <1>2, <1>3, <2>2 DEF StorageInv, UsedInv
<1>20. ContentKept'
  <2>1. SUFFICES ASSUME NEW a \in Areas, content[a] # Unknown, ~ BeingWritten(a)'
                 PROVE  PixelAt(tileArray, heap', a) = content[a]
    BY <1>1, <1>13, ShownTilesNext DEF ContentKept
  <2>2. /\ TileOf(tileArray, a) \in Tiles /\ a \in TileOf(tileArray, a)
        /\ StorageAt(tileArray, a) \in Buffer /\ StorageAt(tileArray, a) # c
    BY <1>5, <1>12, TileOfArea DEF StorageInv, TypeOK, StorageAt, Tiles
  <2>3. CASE handle[h].writable /\ a \in handle[h].box
    <3>1. heap[c].data[a] = content[a]
      BY <1>3, <2>1, <2>3 DEF StorageInv, WriterInv, HeldPixel
    <3>2. StorageAt(tileArray, a) # NoBuffer
      BY <1>5, <2>2, <2>3 DEF TilesOf, StorageAt
    <3> QED
      BY <1>9, <1>11, <2>2, <2>3, <3>1, <3>2 DEF PixelAt, Buffer
  <2>4. CASE ~ (handle[h].writable /\ a \in handle[h].box)
    <3>1. ~ BeingWritten(a)
      BY <1>2, <2>1, <2>4 DEF BeingWritten
    <3>2. PixelAt(tileArray, heap, a) = content[a]
      BY <1>4, <2>1, <3>1, ShownTiles DEF StorageInv, ContentKept
    <3> QED
      BY <1>9, <1>11, <2>2, <2>4, <3>2 DEF PixelAt, Buffer
  <2> QED
    BY <2>3, <2>4
<1>21. WriterInv'
  <2>1. SUFFICES ASSUME NEW g \in Handles, handle'[g].writable,
                        NEW a \in handle'[g].box, content[a] # Unknown
                 PROVE  HeldPixel(g, a)' = content[a]
    BY <1>1 DEF WriterInv
  <2>2. /\ g # h /\ handle[g] # NoHandle /\ handle'[g] = handle[g]
        /\ handle[g].writable /\ a \in handle[g].box /\ a \in Areas
    BY <1>2, <2>1 DEF NoHandle, HandleType
  <2>3. ~ (handle[h].writable /\ a \in handle[h].box)
    BY <1>1, <2>2 DEF StorageInv, HandlesApart
  <2>4. HeldBuffer(g, a) \in Buffers \ {c}
    BY <1>17, <2>2
  <2>5. HeldPixel(g, a)' = heap'[HeldBuffer(g, a)].data[a]
    BY <1>1, <2>2 DEF HeldPixel, HeldBuffer, StorageAt, TileOf
  <2>6. heap[HeldBuffer(g, a)].data[a] = content[a]
    BY <2>1, <2>2 DEF StorageInv, WriterInv, HeldPixel, HeldBuffer
  <2> QED
    BY <1>9, <1>11, <2>2, <2>3, <2>4, <2>5, <2>6
<1> QED
  BY <1>14, <1>15, <1>16, <1>18, <1>19, <1>20, <1>21 DEF StorageInv

LEMMA ReleaseStep ==
    ASSUME StorageInv, NEW h \in Handles, ReleaseStorage(h)
    PROVE  StorageInv'
<1>1. CASE handle[h].kind = "cobbled"
  BY <1>1, ReleaseCobbled
<1>2. CASE handle[h].kind # "cobbled"
  BY <1>2, ReleaseOther DEF ReleaseStorage
<1> QED
  BY <1>1, <1>2

-----------------------------------------------------------------------------
(* Calls of the application.                                               *)

\* While no operation is executed there is nothing to say about threads.
LEMMA IdleFacts ==
    ASSUME NoHandles, UNCHANGED handle
    PROVE  /\ HandleInv' /\ HandlesApart' /\ WriterInv'
           /\ \A a : ~ BeingWritten(a)
           /\ \A h \in Handles : handle[h].kind # "cobbled" /\ handle'[h].kind # "cobbled"
<1>1. \A h \in Handles : /\ handle[h] = NoHandle /\ handle'[h] = NoHandle
                         /\ ~ handle[h].writable /\ ~ handle'[h].writable
                         /\ handle[h].kind = "none" /\ handle'[h].kind = "none"
  BY NobodyHolds
<1> QED
  BY <1>1 DEF HandleInv, HandlesApart, WriterInv, BeingWritten

LEMMA IdleContent ==
    ASSUME NoHandles, StorageInv, NEW a \in Areas, content[a] # Unknown
    PROVE  /\ Shown(a) = content[a]
           /\ ~ HasExportedStorage => PixelAt(tileArray, heap, a) = content[a]
<1>1. ~ BeingWritten(a)
  BY NobodyHolds DEF BeingWritten
<1> QED
  BY <1>1, ShownTiles DEF StorageInv, ContentKept

\* A change of the modes, or of what application and child know
LEMMA ModeStep ==
    ASSUME StorageInv, NoHandles,
           UNCHANGED <<tileArray, exportedImageStorage, heap, handle, content>>,
           TypeOK', KeptInv',
           HasExportedStorage => exportMode' = "exported" \/ storageMovement' = "stationary"
    PROVE  StorageInv'
<1>1. TilesSound(tileArray, heap)' /\ ExportedInv' /\ UsedInv' /\ ContentKept'
  BY DEF StorageInv, TilesSound, ExportedInv, HasExportedStorage, Tiles, UsedInv,
     ContentKept, BeingWritten, Shown, StorageAt, TileOf
<1> QED
  BY <1>1, IdleFacts DEF StorageInv

LEMMA ExportSteps ==
    ASSUME StorageInv,
           Export \/ \E m \in {"allow", "stationary"} : SetStorageMovement(m)
    PROVE  StorageInv'
<1>1. /\ NoHandles
      /\ UNCHANGED <<tileArray, exportedImageStorage, childStorage, heap, handle,
                     pointer, content>>
      /\ exportMode' = "exported" /\ storageMovement' \in {"allow", "stationary"}
  BY DEF Export, SetStorageMovement, StorageInv, TypeOK
<1>2. TypeOK' /\ KeptInv'
  BY <1>1 DEF StorageInv, TypeOK, KeptInv, Tiles
<1> QED
  BY <1>1, <1>2, ModeStep

\* A buffer that is nobody's but the application's is freed.
LEMMA ImportStep ==
    ASSUME StorageInv, Import
    PROVE  StorageInv'
<1>1. /\ NoHandles
      /\ UNCHANGED <<storageMovement, tileArray, handle, content>>
      /\ exportMode' = "imported"
  BY DEF Import
<1>2. CASE storageMovement # "allow"
  <2>1. UNCHANGED <<exportedImageStorage, childStorage, heap, pointer>>
    BY <1>2 DEF Import
  <2>2. TypeOK' /\ KeptInv' /\ storageMovement' = "stationary"
    BY <1>1, <1>2, <2>1 DEF StorageInv, TypeOK, KeptInv, Tiles
  <2> QED
    BY <1>1, <2>1, <2>2, ModeStep
<1>3. CASE storageMovement = "allow"
  <2>1. /\ exportedImageStorage' = NotExported /\ childStorage' = NoBuffer
        /\ heap' = HeapDestroyed
        /\ pointer' = [i \in DOMAIN pointer |-> NoBuffer]
    BY <1>3 DEF Import, DestroyExportedStorage
  <2>2. PICK c : c = exportedImageStorage.storage
    OBVIOUS
  <2>3. /\ ~ HasExportedStorage' /\ exportedImageStorage' = NotExported
        /\ exportedImageStorage' \in [storage : Buffer, cobbled : BOOLEAN]
        /\ exportedImageStorage'.storage = NoBuffer
    BY <2>1 DEF HasExportedStorage, NotExported, Buffer
  <2>4. ExportedInv' /\ KeptInv'
    BY <2>1, <2>3 DEF ExportedInv, KeptInv, StorageInv, TypeOK
  <2>5. /\ heap \in [Buffers -> [owner : Device \cup {User}, data : Pixels]]
        /\ \A t \in Tiles : tileArray[t].storage \in Buffer
        /\ \A a \in Areas : TileOf(tileArray, a) \in Tiles /\ a \in TileOf(tileArray, a)
    BY TileOfArea DEF StorageInv, TypeOK, Tiles
  <2>6. CASE ~ exportedImageStorage.cobbled
    <3>1. heap' = heap
      BY <2>1, <2>6 DEF HeapDestroyed
    <3>2. TypeOK' /\ TilesSound(tileArray, heap)'
      BY <1>1, <2>1, <2>3, <3>1 DEF StorageInv, TypeOK, TilesSound, Tiles, Buffer
    <3>3. UsedInv'
      <4>1. \A b : exportedImageStorage # [storage |-> b, cobbled |-> TRUE]
        BY <2>6
      <4> QED
        BY <1>1, <3>1, <4>1, IdleFacts DEF StorageInv, UsedInv, Tiles
    <3>4. ContentKept'
      <4>1. SUFFICES ASSUME NEW a \in Areas, content[a] # Unknown
                     PROVE  PixelAt(tileArray, heap, a) = content[a]
        BY <1>1, <2>3, <3>1, ShownTilesNext DEF ContentKept
      <4>2. CASE ~ HasExportedStorage
        BY <1>1, <4>1, <4>2, IdleContent
      <4>3. CASE HasExportedStorage
        <5>1. Areas \in Tiles /\ c = tileArray[Areas].storage /\ c # NoBuffer
          BY <2>2, <2>6, <4>3 DEF StorageInv, ExportedInv, HasExportedStorage
        <5>2. StorageAt(tileArray, a) = c
          BY <5>1, TileOfIs DEF StorageInv, TypeOK, Tiles
        <5> QED
          BY <1>1, <2>2, <4>1, <4>3, <5>1, <5>2, IdleContent DEF Shown, PixelAt
      <4> QED
        BY <4>2, <4>3
    <3> QED
      BY <1>1, <2>4, <3>2, <3>3, <3>4, IdleFacts DEF StorageInv
  <2>7. CASE exportedImageStorage.cobbled
    <3>1. HasExportedStorage
      BY <2>7 DEF StorageInv, ExportedInv, NotExported
    <3>2. /\ c \in Buffers
          /\ \A t \in Tiles : tileArray[t].storage # c /\ tileArray[t].storage # NoBuffer
      BY <2>2, <2>7, <3>1 DEF StorageInv, ExportedInv, HasExportedStorage, TypeOK, Buffer, IsOn
    <3>3. PICK p \in Pixels : p = heap[c].data
      BY <2>5, <3>2
    <3>4. PICK hp : hp = Decobbled(heap, tileArray, p, Areas)
      OBVIOUS
    <3>5. CopiedTo(hp, heap, tileArray, p, Areas)
      BY ONLY <2>5, <3>3, <3>4, DecobbledFacts
    <3>6. heap' = [hp EXCEPT ![c] = Free]
      BY <2>1, <2>2, <2>7, <3>3, <3>4 DEF HeapDestroyed
    <3>7. /\ heap'[c] = Free /\ \A b \in Buffers \ {c} : heap'[b] = hp[b]
          /\ heap' \in [Buffers -> [owner : Device \cup {User}, data : Pixels]]
      <4>1. Free \in [owner : Device \cup {User}, data : Pixels]
        BY DEF Free, Blank, Device, Pixels
      <4> QED
        BY <3>2, <3>5, <3>6, <4>1 DEF CopiedTo
    <3>8. \A b \in Buffers \ {c} : heap'[b].owner = heap[b].owner
      BY <3>5, <3>7 DEF CopiedTo
    <3>9. TypeOK'
      BY <1>1, <2>1, <2>3, <3>7 DEF StorageInv, TypeOK, Tiles, Buffer
    <3>10. TilesSound(tileArray, heap)'
      BY <1>1, <2>5, <3>2, <3>8 DEF StorageInv, TilesSound, Tiles, Buffer
    <3>11. UsedInv'
      <4>1. SUFFICES ASSUME NEW b \in Buffers, ByDevice(heap'[b].owner)
                     PROVE  \E t \in Tiles : tileArray[t].storage = b
        BY <1>1 DEF UsedInv, Tiles
      <4>2. b # c /\ ByDevice(heap[b].owner)
        BY <3>7, <3>8, <4>1 DEF Free, ByDevice
      <4>3. exportedImageStorage # [storage |-> b, cobbled |-> TRUE]
        BY <2>2, <4>2
      <4> QED
        BY <1>1, <4>2, <4>3, IdleFacts DEF StorageInv, UsedInv
    <3>12. ContentKept'
      <4>1. SUFFICES ASSUME NEW a \in Areas, content[a] # Unknown
                     PROVE  PixelAt(tileArray, heap', a) = content[a]
        BY <1>1, <2>3, ShownTilesNext DEF ContentKept
      <4>2. p[a] = content[a]
        BY <1>1, <2>2, <3>1, <3>3, <4>1, IdleContent DEF Shown, HasExportedStorage
      <4>3. /\ StorageAt(tileArray, a) \in Buffers /\ StorageAt(tileArray, a) # c
            /\ StorageAt(tileArray, a) # NoBuffer
        BY <2>5, <3>2 DEF StorageAt, Buffer
      <4>4. heap'[StorageAt(tileArray, a)].data[a] = p[a]
        BY <3>5, <3>7, <4>3 DEF CopiedTo
      <4> QED
        BY <4>2, <4>3, <4>4 DEF PixelAt
    <3> QED
      BY <1>1, <2>4, <3>9, <3>10, <3>11, <3>12, IdleFacts DEF StorageInv
  <2> QED
    BY <2>6, <2>7
<1> QED
  BY <1>2, <1>3

\* What the application and the child are told is the exported storage, if anything.
Told == /\ pointer' \in [{"image", "child"} -> {NoBuffer, exportedImageStorage'.storage}]
        /\ childStorage' \in {NoBuffer, exportedImageStorage'.storage}

\* getExportedStorage() has the image in memory: in its only tile or in a copy.
LEMMA ExportedStep ==
    ASSUME StorageInv, Discipline, NoHandles, ~ HasExportedStorage,
           ExportAll(NoTile), Told,
           UNCHANGED <<exportMode, storageMovement, handle, content>>
    PROVE  StorageInv'
<1>0. /\ Areas \in SUBSET Areas /\ Areas # {} /\ Tiles \in Layouts
      /\ DOMAIN tileArray = Tiles
      /\ Cardinality(Tiles) \in Nat
      /\ TilesOf(Areas) = Tiles
  <2>1. Tiles \in Layouts
    BY DEF StorageInv, TypeOK
  <2>2. IsFiniteSet(Tiles)
    BY <2>1, LayoutFacts
  <2>3. TilesOf(Areas) = Tiles
    BY <2>1, AllTiles
  <2> QED
    BY <2>1, <2>2, <2>3, LayoutsAssumption, FS_CardinalityType DEF Tiles
<1>1. PICK many \in BOOLEAN : many <=> Cardinality(Tiles) > 1
  BY <1>0
<1>2. PICK c : c = CobbledBuffer(Areas, Memory)
  OBVIOUS
<1>3. PICK M : M = Moved(Areas, Memory, NoTile)
  OBVIOUS
<1>4. PICK N : N = IF many THEN {c} ELSE {}
  OBVIOUS
<1>5. PICK e : e = exportedImageStorage'
  OBVIOUS
<1>6. /\ exportMode = "exported"
      /\ MoveTiles(Areas, Memory, NoTile, many)
      /\ e = [cobbled |-> many, storage |-> IF many THEN c ELSE tileArray'[Areas].storage]
      /\ e.cobbled = many
      /\ e.storage = IF many THEN c ELSE tileArray'[Areas].storage
  <2>1. MoveTiles(Areas, Memory, NoTile, (Cardinality(Tiles) > 1) /\ NoTile = NoTile)
    BY DEF ExportAll
  <2>2. ((Cardinality(Tiles) > 1) /\ NoTile = NoTile) = many
    BY <1>0, <1>1
  <2>3. MoveTiles(Areas, Memory, NoTile, many)
    BY <2>1, <2>2
  <2>4. (Cardinality(Tiles) > 1) = many
    BY <1>0, <1>1
  <2> QED
    BY <1>2, <1>5, <2>3, <2>4 DEF ExportAll
<1>7. /\ M \in SUBSET Tiles /\ Relocated(M, Memory, N)
      /\ \A t \in Tiles : IsOn(tileArray'[t], Memory)
      /\ many => \A a \in Areas : heap'[c].data[a] = PixelAt(tileArray, heap, a)
  <2>1. NoTile \in Outcomes(Areas, Memory)
    BY DEF Outcomes
  <2>2. TypeOK /\ TilesSound(tileArray, heap) /\ Devices \cap Unreliable = {}
    BY DEF StorageInv, Discipline
  <2>3. /\ Relocated(M, Memory, N)
        /\ \A t \in TilesOf(Areas) : IsOn(tileArray'[t], Memory)
        /\ many => \A a \in Areas : heap'[c].data[a] = PixelAt(tileArray, heap, a)
    BY <1>0, <1>2, <1>3, <1>4, <1>6, <2>1, <2>2, MoveTilesStep
  <2> QED
    BY <1>0, <1>3, <2>3 DEF Moved, TilesOf
<1>8. /\ DOMAIN tileArray' = Tiles /\ Tiles' = Tiles
      /\ tileArray' \in [Tiles -> [device : Device, storage : Buffer]]
      /\ heap' \in [Buffers -> [owner : Device \cup {User}, data : Pixels]]
      /\ TilesSound(tileArray', heap')
      /\ \A a \in Areas : PixelAt(tileArray', heap', a) = PixelAt(tileArray, heap, a)
      /\ \A b \in N : /\ b \in Buffers /\ heap'[b].owner = Memory
                      /\ \A t \in Tiles : tileArray'[t].storage # b
  BY <1>7 DEF Relocated, Tiles
<1>9. ASSUME ~ many
      PROVE  Areas \in Tiles
  <2>1. PICK t \in Tiles : TilesOf(Areas) = {t} /\ Areas \subseteq t
    BY <1>0, <1>1, <1>9, TilesOfBox
  <2>2. t \subseteq Areas
    BY <1>0, LayoutFacts
  <2>3. t = Areas
    BY <2>1, <2>2
  <2> QED
    BY <2>3
<1>10. /\ e.storage \in Buffers /\ e.storage # NoBuffer
       /\ heap'[e.storage].owner \in {Memory, User}
       /\ ~ many => e.storage = tileArray'[Areas].storage
       /\ many => e.storage = c /\ \A t \in Tiles : tileArray'[t].storage # e.storage
  <2>1. CASE many
    BY <1>4, <1>6, <1>8, <2>1, DevicesAssumption
  <2>2. CASE ~ many
    <3>1. /\ IsOn(tileArray'[Areas], Memory)
          /\ tileArray'[Areas].storage # NoBuffer /\ tileArray'[Areas].storage \in Buffer
      BY <1>7, <1>8, <1>9, <2>2 DEF IsOn
    <3>2. heap'[tileArray'[Areas].storage].owner \in {Memory, User}
      BY <1>8, <1>9, <2>2, <3>1 DEF TilesSound, IsOn
    <3> QED
      BY <1>6, <2>2, <3>1, <3>2 DEF Buffer
  <2> QED
    BY <2>1, <2>2
<1>11. HasExportedStorage'
  BY <1>5, <1>10 DEF HasExportedStorage
<1>12. TypeOK'
  <2>1. e \in [storage : Buffer, cobbled : BOOLEAN]
    BY <1>6, <1>10 DEF Buffer
  <2>2. childStorage' \in Buffer /\ pointer' \in [{"image", "child"} -> Buffer]
    BY <1>5, <1>10 DEF Told, Buffer
  <2> QED
    BY <1>0, <1>5, <1>8, <2>1, <2>2 DEF StorageInv, TypeOK
<1>13. ExportedInv'
  BY <1>5, <1>6, <1>7, <1>8, <1>9, <1>10, <1>11 DEF ExportedInv
<1>14. KeptInv'
  BY DEF KeptInv, Told
<1>15. UsedInv'
  <2>1. \A h \in Handles : handle[h].kind = "cobbled" => handle'[h] = handle[h]
    OBVIOUS
  <2>2. \A b \in N : exportedImageStorage' = [storage |-> b, cobbled |-> TRUE]
    BY <1>4, <1>5, <1>6
  <2>3. Memory \in Devices \cup {Memory}
    OBVIOUS
  <2> QED
    BY <1>7, <2>1, <2>2, <2>3, UsedStays
<1>16. ContentKept'
  <2>1. SUFFICES ASSUME NEW a \in Areas, content[a] # Unknown
                 PROVE  heap'[e.storage].data[a] = content[a]
    BY <1>5, <1>10, <1>11 DEF ContentKept, Shown
  <2>2. PixelAt(tileArray, heap, a) = content[a]
    BY <2>1, IdleContent
  <2>3. CASE many
    BY <1>7, <1>10, <2>2, <2>3
  <2>4. CASE ~ many
    <3>1. StorageAt(tileArray', a) = e.storage
      BY <1>0, <1>8, <1>9, <1>10, <2>4, TileOfIs
    <3> QED
      BY <1>8, <1>10, <2>2, <3>1 DEF PixelAt
  <2> QED
    BY <2>3, <2>4
<1> QED
  BY <1>8, <1>12, <1>13, <1>14, <1>15, <1>16, IdleFacts DEF StorageInv

\* The image is not in memory, since a tile could not be moved there.
LEMMA NotExportedStep ==
    ASSUME StorageInv, Discipline, NoHandles, ~ HasExportedStorage,
           NEW failed, failed # NoTile, ExportAll(failed),
           UNCHANGED <<exportMode, storageMovement, childStorage, handle, pointer, content>>
    PROVE  StorageInv'
<1>1. /\ failed \in Outcomes(Areas, Memory)
      /\ MoveTiles(Areas, Memory, failed, FALSE)
      /\ UNCHANGED exportedImageStorage
  <2>1. exportedImageStorage = NotExported
    BY DEF StorageInv, ExportedInv
  <2>2. MoveTiles(Areas, Memory, failed, (Cardinality(Tiles) > 1) /\ failed = NoTile)
    BY DEF ExportAll
  <2>3. ((Cardinality(Tiles) > 1) /\ failed = NoTile) = FALSE
    OBVIOUS
  <2> QED
    BY <2>1, <2>2, <2>3 DEF ExportAll
<1>2. PICK M : M = Moved(Areas, Memory, failed)
  OBVIOUS
<1>3. M \in SUBSET Tiles
  BY <1>2 DEF Moved, TilesOf
<1>4. Areas \in SUBSET Areas /\ Memory \in Devices \cup {Memory} /\ FALSE \in BOOLEAN
  OBVIOUS
<1>5. Relocated(M, Memory, {})
  BY <1>1, <1>2, <1>4, MoveTilesStep DEF StorageInv, Discipline
<1>6. \A g \in Handles : handle[g] = NoHandle
  BY NobodyHolds
<1> QED
  BY <1>1, <1>3, <1>4, <1>5, <1>6, NoGrantStep

LEMMA GetMemoryStorageStep ==
    ASSUME StorageInv, Discipline, NEW failed,
           GetMemoryStorage(failed) \/ GetChildMemoryStorage(failed)
    PROVE  StorageInv'
<1>1. /\ NoHandles
      /\ UNCHANGED <<exportMode, storageMovement, handle, content>>
      /\ IF HasExportedStorage
         THEN UNCHANGED <<tileArray, heap, exportedImageStorage>> /\ failed = NoTile
         ELSE ExportAll(failed)
      /\ failed # NoTile => UNCHANGED <<childStorage, pointer>>
  BY DEF GetMemoryStorage, GetChildMemoryStorage
<1>2. CASE failed # NoTile
  BY <1>1, <1>2, NotExportedStep
<1>3. CASE failed = NoTile
  <2>1. /\ pointer \in [{"image", "child"} -> Buffer]
        /\ DOMAIN pointer = {"image", "child"}
        /\ childStorage \in {NoBuffer, exportedImageStorage.storage}
        /\ \A i \in {"image", "child"} : pointer[i] \in {NoBuffer, exportedImageStorage.storage}
    BY DEF StorageInv, TypeOK, KeptInv
  <2>2. /\ childStorage \in {NoBuffer, exportedImageStorage'.storage}
        /\ \A i \in {"image", "child"} : pointer[i] \in {NoBuffer, exportedImageStorage'.storage}
    BY <1>1, <2>1 DEF HasExportedStorage
  <2>3. Told
    <3>1. CASE GetMemoryStorage(failed)
      <4>1. /\ childStorage' = childStorage
            /\ pointer' = [pointer EXCEPT !["image"] = exportedImageStorage'.storage]
        BY <1>3, <3>1 DEF GetMemoryStorage
      <4> QED
        BY <2>1, <2>2, <4>1 DEF Told
    <3>2. CASE GetChildMemoryStorage(failed)
      <4>1. PICK s : s = ChildStorage
        OBVIOUS
      <4>2. s \in {NoBuffer, exportedImageStorage'.storage}
        BY <2>2, <4>1 DEF ChildStorage
      <4>3. childStorage' = s /\ pointer' = [pointer EXCEPT !["child"] = s]
        BY <1>3, <3>2, <4>1 DEF GetChildMemoryStorage
      <4> QED
        BY <2>1, <2>2, <4>2, <4>3 DEF Told
    <3> QED
      BY <3>1, <3>2
  <2>4. CASE HasExportedStorage
    <3>1. UNCHANGED <<tileArray, heap, exportedImageStorage>>
      BY <1>1, <2>4
    <3>2. /\ childStorage' \in Buffer /\ pointer' \in [{"image", "child"} -> Buffer]
          /\ KeptInv'
      BY <2>3, <3>1 DEF Told, KeptInv, StorageInv, TypeOK, Buffer
    <3>3. TypeOK'
      BY <1>1, <3>1, <3>2 DEF StorageInv, TypeOK, Tiles
    <3>4. exportMode' = "exported" \/ storageMovement' = "stationary"
      BY <1>1, <2>4 DEF StorageInv, ExportedInv
    <3> QED
      BY <1>1, <3>1, <3>2, <3>3, <3>4, ModeStep
  <2>5. CASE ~ HasExportedStorage
    BY <1>1, <1>3, <2>3, <2>5, ExportedStep
  <2> QED
    BY <2>4, <2>5
<1> QED
  BY <1>2, <1>3

-----------------------------------------------------------------------------
(* The application replaces pixels, tiles or their layout.                 *)

\* After the call nobody but the tiles has storage, and the tiles show the image.
OnlyTiles ==
    /\ Tiles' \in Layouts
    /\ tileArray' \in [Tiles' -> [device : Device, storage : Buffer]]
    /\ heap' \in [Buffers -> [owner : Device \cup {User}, data : Pixels]]
    /\ content' \in Pixels
    /\ TilesSound(tileArray', heap')
    /\ \A b \in Buffers : ByDevice(heap'[b].owner) =>
          \E t \in Tiles' : tileArray'[t].storage = b
    /\ \A a \in Areas : content'[a] # Unknown =>
          PixelAt(tileArray', heap', a) = content'[a]
    /\ exportedImageStorage' = NotExported
    /\ childStorage' = NoBuffer
    /\ pointer' = [i \in {"image", "child"} |-> NoBuffer]

LEMMA OnlyTilesStep ==
    ASSUME StorageInv, NoHandles, UNCHANGED <<exportMode, storageMovement, handle>>,
           OnlyTiles
    PROVE  StorageInv'
<1>1. /\ ~ HasExportedStorage' /\ exportedImageStorage' = NotExported
      /\ exportedImageStorage' \in [storage : Buffer, cobbled : BOOLEAN]
      /\ childStorage' = NoBuffer /\ pointer' = [i \in {"image", "child"} |-> NoBuffer]
  BY DEF OnlyTiles, HasExportedStorage, NotExported, Buffer
<1>2. /\ Tiles' \in Layouts
      /\ tileArray' \in [Tiles' -> [device : Device, storage : Buffer]]
      /\ heap' \in [Buffers -> [owner : Device \cup {User}, data : Pixels]]
      /\ content' \in Pixels
      /\ TilesSound(tileArray', heap')
      /\ \A b \in Buffers : ByDevice(heap'[b].owner) =>
            \E t \in Tiles' : tileArray'[t].storage = b
      /\ \A a \in Areas : content'[a] # Unknown =>
            PixelAt(tileArray', heap', a) = content'[a]
  BY DEF OnlyTiles
<1>3. TypeOK'
  BY <1>1, <1>2 DEF StorageInv, TypeOK, Buffer
<1>4. ExportedInv' /\ KeptInv'
  BY <1>1 DEF ExportedInv, KeptInv
<1>5. UsedInv' /\ ContentKept'
  BY <1>1, <1>2, ShownTilesNext DEF UsedInv, ContentKept
<1> QED
  BY <1>2, <1>3, <1>4, <1>5, IdleFacts DEF StorageInv

\* Nobody but the tiles has storage.
LEMMA Unexported ==
    ASSUME StorageInv, NoHandles, ~ HasExportedStorage
    PROVE  /\ exportedImageStorage = NotExported
           /\ childStorage = NoBuffer
           /\ pointer = [i \in {"image", "child"} |-> NoBuffer]
           /\ \A b \in Buffers : ByDevice(heap[b].owner) =>
                 \E t \in Tiles : tileArray[t].storage = b
           /\ \A a \in Areas : content[a] # Unknown => PixelAt(tileArray, heap, a) = content[a]
<1>1. exportedImageStorage = NotExported /\ exportedImageStorage.storage = NoBuffer
  BY DEF StorageInv, ExportedInv, NotExported
<1>2. childStorage = NoBuffer
  BY <1>1 DEF StorageInv, KeptInv
<1>3. pointer = [i \in {"image", "child"} |-> NoBuffer]
  BY <1>1 DEF StorageInv, KeptInv, TypeOK
<1>4. \A b \in Buffers : ByDevice(heap[b].owner) => \E t \in Tiles : tileArray[t].storage = b
  <2>1. \A b : exportedImageStorage # [storage |-> b, cobbled |-> TRUE]
    BY <1>1 DEF NotExported
  <2>2. \A h \in Handles : handle[h].kind # "cobbled"
    BY NobodyHolds
  <2> QED
    BY <2>1, <2>2 DEF StorageInv, UsedInv
<1> QED
  BY <1>1, <1>2, <1>3, <1>4, IdleContent

LEMMA UniformPixels ==
    ASSUME NEW v \in Values
    PROVE  Uniform(v) \in Pixels /\ \A a \in Areas : Uniform(v)[a] = v
BY DEF Uniform, Pixels

LEMMA SetStorageWithCopyStep ==
    ASSUME StorageInv, Discipline, NEW v \in Values, NEW failed,
           SetStorageWithCopy(v, failed)
    PROVE  StorageInv'
<1>1. PICK M : M = Moved(Areas, Memory, failed)
  OBVIOUS
<1>2. PICK new : new = New(M)
  OBVIOUS
<1>3. PICK hp : hp = HeapMoved(M, Memory, new, failed)
  OBVIOUS
<1>4. /\ NoHandles /\ ~ HasExportedStorage
      /\ failed \in Outcomes(Areas, Memory)
      /\ Places(M) # {}
      /\ tileArray' = TilesMoved(M, Memory, new)
      /\ failed # NoTile => heap' = hp /\ UNCHANGED content
      /\ failed = NoTile => /\ heap' = Decobbled(hp, tileArray', Uniform(v), Areas)
                            /\ content' = Uniform(v)
      /\ UNCHANGED <<exportMode, storageMovement, exportedImageStorage,
                     childStorage, handle, pointer>>
  BY <1>1, <1>2, <1>3 DEF SetStorageWithCopy, Discipline
<1>5. M \in SUBSET Tiles /\ \A t \in M : Moves(t, Memory)
  BY <1>1 DEF Moved, TilesOf
<1>6. Fresh(new, M)
  BY <1>2, <1>4, NewFresh
<1>7. TypeOK /\ TilesSound(tileArray, heap) /\ Memory \in Devices \cup {Memory}
  BY DEF StorageInv
<1>8. Relocates(M, Memory, new, tileArray', hp)
  <2>1. LostBy(failed) = {}
    BY <1>4, <1>7, NothingLost DEF Discipline
  <2>2. Relocates(M, Memory, new, TilesMoved(M, Memory, new), HeapMoved(M, Memory, new, failed))
    BY ONLY <1>5, <1>6, <1>7, <2>1, MoveFacts
  <2> QED
    BY <1>3, <1>4, <2>2
<1>9. CASE failed # NoTile
  <2>1. heap' = hp /\ UNCHANGED content
    BY <1>4, <1>9
  <2>2. Relocated(M, Memory, {})
    BY <1>5, <1>6, <1>7, <1>8, <2>1, RelocatedBy
  <2>3. \A g \in Handles : handle[g] = NoHandle
    BY <1>4, NobodyHolds
  <2> QED
    BY <1>4, <1>5, <1>7, <2>1, <2>2, <2>3, NoGrantStep
<1>10. CASE failed = NoTile
  <2>1. /\ DOMAIN tileArray' = Tiles /\ Tiles' = Tiles /\ Tiles \in Layouts
        /\ tileArray' \in [Tiles -> [device : Device, storage : Buffer]]
        /\ hp \in [Buffers -> [owner : Device \cup {User}, data : Pixels]]
        /\ TilesSound(tileArray', hp)
        /\ \A t \in Tiles \ M : tileArray'[t] = tileArray[t]
        /\ \A t \in M : tileArray'[t].storage = new[t] /\ new[t] \in Buffers
    BY <1>7, <1>8 DEF Relocates, Tiles, TypeOK
  <2>2. PICK p \in Pixels : p = Uniform(v)
    BY UniformPixels
  <2>3. /\ heap' = Decobbled(hp, tileArray', p, Areas) /\ content' = p
        /\ \A a \in Areas : p[a] = v
    BY <1>4, <1>10, <2>2, UniformPixels
  <2>4. CopiedTo(heap', hp, tileArray', p, Areas)
    BY <2>1, <2>3, DecobbledFacts
  <2>5. /\ heap' \in [Buffers -> [owner : Device \cup {User}, data : Pixels]]
        /\ \A b \in Buffers : heap'[b].owner = hp[b].owner
        /\ \A b \in Buffers, x \in Areas :
              StorageAt(tileArray', x) = b => heap'[b].data[x] = v
    BY <2>3, <2>4 DEF CopiedTo
  <2>6. TilesSound(tileArray', heap')
    BY <2>1, <2>5 DEF TilesSound, Buffer
  <2>7. \A t \in Tiles : tileArray'[t].storage \in Buffers
    <3>1. \A t \in Tiles \ M : tileArray[t].storage # NoBuffer
      <4>1. TilesOf(Areas) = Tiles
        BY <2>1, AllTiles
      <4> QED
        BY <1>1, <1>10, <4>1 DEF Moved, Moves
    <3> QED
      BY <2>1, <3>1 DEF Buffer
  <2>8. ASSUME NEW b \in Buffers, ByDevice(heap'[b].owner)
        PROVE  \E t \in Tiles' : tileArray'[t].storage = b
    <3>1. ByDevice(hp[b].owner)
      BY <2>5, <2>8
    <3>2. CASE \E t \in M : b = new[t]
      BY <1>5, <2>1, <3>2
    <3>3. CASE hp[b] = heap[b]
      <4>1. PICK t \in Tiles : tileArray[t].storage = b
        BY <1>4, <3>1, <3>3, Unexported
      <4>2. t \notin M
        BY <1>8, <3>1, <4>1, DevicesAssumption DEF Relocates
      <4> QED
        BY <2>1, <4>1, <4>2
    <3> QED
      BY <1>8, <3>1, <3>2, <3>3 DEF Relocates
  <2>9. ASSUME NEW a \in Areas PROVE PixelAt(tileArray', heap', a) = content'[a]
    <3>1. TileOf(tileArray', a) \in Tiles
      BY <2>1, TileOfArea
    <3>2. StorageAt(tileArray', a) \in Buffers /\ StorageAt(tileArray', a) # NoBuffer
      BY <2>7, <3>1, DevicesAssumption DEF StorageAt
    <3> QED
      BY <2>3, <2>5, <3>2 DEF PixelAt
  <2>10. OnlyTiles
    BY <1>4, <2>1, <2>3, <2>5, <2>6, <2>8, <2>9, Unexported DEF OnlyTiles
  <2> QED
    BY <1>4, <2>10, OnlyTilesStep
<1> QED
  BY <1>9, <1>10

\* A buffer of the application's with the same pixel everywhere
UserBuffer(v) == [owner |-> User, data |-> Uniform(v)]
LEMMA UserBufferFacts ==
    ASSUME NEW v \in Values
    PROVE  /\ UserBuffer(v) \in [owner : Device \cup {User}, data : Pixels]
           /\ UserBuffer(v).owner = User
           /\ \A a \in Areas : UserBuffer(v).data[a] = v
           /\ Free \in [owner : Device \cup {User}, data : Pixels]
           /\ Free.owner = NoDevice
BY UniformPixels DEF UserBuffer, Free, Blank, Device, Pixels

LEMMA SetMemoryStorageStep ==
    ASSUME StorageInv, Discipline, NEW v \in Values, SetMemoryStorage(v)
    PROVE  StorageInv'
<1>1. PICK new : new = New({Areas})[Areas]
  OBVIOUS
<1>2. /\ NoHandles /\ childStorage = NoBuffer
      /\ Places({Areas}) # {}
      /\ tileArray' = [t \in {Areas} |-> [device |-> NoDevice, storage |-> new]]
      /\ heap' = [b \in Buffers |-> IF b = new THEN UserBuffer(v)
                                    ELSE IF b \in AllStorage THEN Free ELSE heap[b]]
      /\ exportedImageStorage' = NotExported
      /\ pointer' = [i \in DOMAIN pointer |-> NoBuffer]
      /\ content' = Uniform(v)
      /\ UNCHANGED <<exportMode, storageMovement, childStorage, handle>>
  BY <1>1 DEF SetMemoryStorage, Discipline, UserBuffer
<1>3. new \in Buffers /\ new # NoBuffer
  BY <1>1, <1>2, NewFresh, DevicesAssumption DEF Fresh
<1>4. /\ Tiles' = {Areas} /\ DOMAIN tileArray' = {Areas} /\ {Areas} \in Layouts
      /\ tileArray'[Areas].device = NoDevice /\ tileArray'[Areas].storage = new
      /\ tileArray' \in [Tiles' -> [device : Device, storage : Buffer]]
  BY <1>2, <1>3, LayoutsAssumption DEF Tiles, Device, Buffer
<1>5. /\ heap \in [Buffers -> [owner : Device \cup {User}, data : Pixels]]
      /\ DOMAIN pointer = {"image", "child"}
  BY DEF StorageInv, TypeOK
<1>6. /\ heap' \in [Buffers -> [owner : Device \cup {User}, data : Pixels]]
      /\ heap'[new].owner = User
      /\ \A a \in Areas : heap'[new].data[a] = v
      /\ \A b \in Buffers : b # new =>
            heap'[b] = IF b \in AllStorage THEN Free ELSE heap[b]
  BY <1>2, <1>3, <1>5, UserBufferFacts
<1>7. TilesSound(tileArray', heap')
  BY <1>3, <1>4, <1>6 DEF TilesSound
<1>8. ASSUME NEW b \in Buffers, ByDevice(heap'[b].owner)
      PROVE  b = new
  <2>1. SUFFICES ASSUME b # new PROVE b \in AllStorage
    BY <1>6, <1>8, UserBufferFacts DEF ByDevice
  <2>2. \A h \in Handles : handle[h].kind # "cobbled"
    BY <1>2, NobodyHolds
  <2>3. ByDevice(heap[b].owner)
    BY <1>6, <1>8, <2>1, UserBufferFacts DEF ByDevice
  <2>4. CASE \E t \in Tiles : tileArray[t].storage = b
    BY <2>4 DEF AllStorage, StorageOf
  <2>5. CASE exportedImageStorage = [storage |-> b, cobbled |-> TRUE]
    <3>1. exportedImageStorage.cobbled /\ exportedImageStorage.storage = b
      BY <2>5
    <3> QED
      BY <3>1 DEF AllStorage, StorageOf
  <2> QED
    BY <2>2, <2>3, <2>4, <2>5 DEF StorageInv, UsedInv
<1>9. ASSUME NEW a \in Areas PROVE PixelAt(tileArray', heap', a) = content'[a]
  <2>1. StorageAt(tileArray', a) = new
    BY <1>4, TileOfIs
  <2> QED
    BY <1>2, <1>3, <1>6, <2>1, UniformPixels DEF PixelAt
<1>10. OnlyTiles
  BY <1>2, <1>4, <1>5, <1>6, <1>7, <1>8, <1>9, UniformPixels DEF OnlyTiles
<1> QED
  BY <1>2, <1>10, OnlyTilesStep

LEMMA SetTileStorageStep ==
    ASSUME StorageInv, NEW v \in Values, NEW t \in Tiles, SetTileStorage(t, v)
    PROVE  StorageInv'
<1>1. PICK new : new = New({t})[t]
  OBVIOUS
<1>2. PICK old : old = tileArray[t].storage
  OBVIOUS
<1>3. /\ NoHandles /\ ~ HasExportedStorage
      /\ Places({t}) # {}
      /\ tileArray' = [tileArray EXCEPT ![t] = [device |-> NoDevice, storage |-> new]]
      /\ heap' = [b \in Buffers |-> IF b = new THEN UserBuffer(v)
                                    ELSE IF b = old THEN Free ELSE heap[b]]
      /\ content' = [a \in Areas |-> IF a \in t THEN v ELSE content[a]]
      /\ UNCHANGED <<exportMode, storageMovement, exportedImageStorage,
                     childStorage, handle, pointer>>
  BY <1>1, <1>2 DEF SetTileStorage, UserBuffer
<1>4. new \in Buffers /\ new # NoBuffer /\ new \notin InUse
  <2>1. Fresh(New({t}), {t})
    BY <1>3, NewFresh
  <2> QED
    BY <1>1, <2>1, DevicesAssumption DEF Fresh
<1>5. /\ Tiles \in Layouts
      /\ DOMAIN tileArray = Tiles
      /\ tileArray \in [Tiles -> [device : Device, storage : Buffer]]
      /\ heap \in [Buffers -> [owner : Device \cup {User}, data : Pixels]]
      /\ content \in Pixels
      /\ \A s \in Tiles : tileArray[s].storage \in InUse
      /\ \A s \in Tiles : s # t /\ tileArray[s].storage # NoBuffer => tileArray[s].storage # old
  BY <1>2 DEF StorageInv, TypeOK, Tiles, InUse, TilesSound
<1>6. /\ Tiles' = Tiles /\ DOMAIN tileArray' = Tiles
      /\ tileArray'[t].device = NoDevice /\ tileArray'[t].storage = new
      /\ \A s \in Tiles \ {t} : tileArray'[s] = tileArray[s]
      /\ tileArray' \in [Tiles -> [device : Device, storage : Buffer]]
  <2>1. [device |-> NoDevice, storage |-> new] \in [device : Device, storage : Buffer]
    BY <1>4 DEF Device, Buffer
  <2> QED
    BY <1>3, <1>5, <2>1 DEF Tiles
<1>7. /\ heap' \in [Buffers -> [owner : Device \cup {User}, data : Pixels]]
      /\ heap'[new].owner = User
      /\ \A a \in Areas : heap'[new].data[a] = v
      /\ \A b \in Buffers : b # new => heap'[b] = IF b = old THEN Free ELSE heap[b]
  BY <1>3, <1>4, <1>5, UserBufferFacts
<1>8. \A s \in Tiles \ {t} : tileArray[s].storage # NoBuffer =>
         /\ tileArray[s].storage \in Buffers
         /\ tileArray[s].storage # new
         /\ heap'[tileArray[s].storage] = heap[tileArray[s].storage]
  BY <1>4, <1>5, <1>7 DEF Buffer
<1>9. TilesSound(tileArray', heap')
  <2>1. \A s \in Tiles :
           /\ tileArray'[s].storage = NoBuffer => tileArray'[s].device = NoDevice
           /\ tileArray'[s].storage # NoBuffer =>
                 heap'[tileArray'[s].storage].owner =
                    IF tileArray'[s].device = NoDevice THEN User ELSE tileArray'[s].device
    BY <1>4, <1>5, <1>6, <1>7, <1>8 DEF StorageInv, TilesSound
  <2>2. \A r, s \in Tiles :
           tileArray'[r].storage = tileArray'[s].storage /\ tileArray'[r].storage # NoBuffer
              => r = s
    BY <1>4, <1>5, <1>6, <1>8 DEF StorageInv, TilesSound
  <2> QED
    BY <1>6, <2>1, <2>2 DEF TilesSound
<1>10. ASSUME NEW b \in Buffers, ByDevice(heap'[b].owner)
       PROVE  \E s \in Tiles' : tileArray'[s].storage = b
  <2>1. CASE b = new
    BY <1>6, <2>1
  <2>2. CASE b # new
    <3>1. b # old /\ ByDevice(heap[b].owner)
      BY <1>7, <1>10, <2>2, UserBufferFacts DEF ByDevice
    <3>2. PICK s \in Tiles : tileArray[s].storage = b
      BY <1>3, <3>1, Unexported
    <3> QED
      BY <1>2, <1>6, <3>1, <3>2
  <2> QED
    BY <2>1, <2>2
<1>11. content' \in Pixels
  BY <1>3, <1>5 DEF Pixels
<1>12. ASSUME NEW a \in Areas, content'[a] # Unknown
       PROVE  PixelAt(tileArray', heap', a) = content'[a]
  <2>1. PICK s \in Tiles : a \in s
    BY <1>5, TileOfArea
  <2>2. StorageAt(tileArray', a) = tileArray'[s].storage /\ StorageAt(tileArray, a) = tileArray[s].storage
    BY <1>5, <1>6, <2>1, TileOfIs
  <2>3. CASE s = t
    BY <1>3, <1>4, <1>6, <1>7, <2>1, <2>2, <2>3 DEF PixelAt
  <2>4. CASE s # t
    <3>1. a \notin t
      BY <1>5, <2>1, <2>4, LayoutFacts
    <3>2. content'[a] = content[a]
      BY <1>3, <3>1
    <3>3. PixelAt(tileArray, heap, a) = content[a]
      BY <1>3, <1>12, <3>2, Unexported
    <3> QED
      BY <1>6, <1>8, <2>2, <2>4, <3>2, <3>3 DEF PixelAt
  <2> QED
    BY <2>3, <2>4
<1>13. OnlyTiles
  BY <1>3, <1>5, <1>6, <1>7, <1>9, <1>10, <1>11, <1>12, Unexported DEF OnlyTiles
<1> QED
  BY <1>3, <1>13, OnlyTilesStep

\* The tiles get another layout before they have any storage.
LEMMA EmptyTileSize ==
    ASSUME StorageInv, NEW l \in Layouts, SetTileSize(l),
           \A t \in Tiles : tileArray[t].storage = NoBuffer
    PROVE  StorageInv'
<1>1. /\ NoHandles /\ tileArray' = EmptyTiles(l) /\ heap' = heap
      /\ UNCHANGED <<exportMode, storageMovement, exportedImageStorage,
                     childStorage, handle, pointer, content>>
  BY DEF SetTileSize
<1>2. /\ Tiles \in Layouts /\ Tiles # {}
      /\ heap \in [Buffers -> [owner : Device \cup {User}, data : Pixels]]
      /\ content \in Pixels
  BY LayoutFacts DEF StorageInv, TypeOK
<1>3. ~ HasExportedStorage
  BY <1>2 DEF StorageInv, ExportedInv, IsOn
<1>4. /\ Tiles' = l /\ DOMAIN tileArray' = l
      /\ \A t \in l : tileArray'[t].device = NoDevice /\ tileArray'[t].storage = NoBuffer
      /\ tileArray' \in [Tiles' -> [device : Device, storage : Buffer]]
  BY <1>1 DEF EmptyTiles, Tiles, Device, Buffer
<1>5. TilesSound(tileArray', heap')
  BY <1>4 DEF TilesSound
<1>6. \A b \in Buffers : ~ByDevice(heap[b].owner)
  BY <1>1, <1>3, Unexported, DevicesAssumption
<1>7. ASSUME NEW a \in Areas PROVE content[a] = Unknown
  <2>1. TileOf(tileArray, a) \in Tiles
    BY <1>2, TileOfArea DEF Tiles
  <2>2. PixelAt(tileArray, heap, a) = Unknown
    BY <2>1 DEF PixelAt, StorageAt
  <2> QED
    BY <1>1, <1>3, <2>2, Unexported
<1>8. OnlyTiles
  BY <1>1, <1>2, <1>3, <1>4, <1>5, <1>6, <1>7, Unexported DEF OnlyTiles
<1> QED
  BY <1>1, <1>8, OnlyTilesStep

\* The new tiles are on one device and show what the old ones did.
LEMMA Reformat ==
    ASSUME StorageInv, NoHandles, NEW l \in Layouts, NEW d \in Devices \cup {Memory},
           \A t \in Tiles : tileArray[t].device = d,
           NEW new, Fresh(new, l),
           tileArray' = [t \in l |-> [device |-> d, storage |-> new[t]]],
           heap' = Reformatted(l, new), ~ HasExportedStorage,
           UNCHANGED <<exportMode, storageMovement, exportedImageStorage,
                       childStorage, handle, pointer, content>>
    PROVE  StorageInv'
<1>1. /\ Tiles \in Layouts /\ DOMAIN tileArray = Tiles
      /\ heap \in [Buffers -> [owner : Device \cup {User}, data : Pixels]]
      /\ content \in Pixels
      /\ \A t \in Tiles : tileArray[t].storage \in Buffer
  BY DEF StorageInv, TypeOK, Tiles
<1>2. d \in Device /\ d # NoDevice
  BY DevicesAssumption DEF Device
<1>3. \A t \in Tiles : tileArray[t].storage # NoBuffer /\ tileArray[t].storage \in Buffers
  BY <1>1, <1>2 DEF StorageInv, TilesSound, Tiles, Buffer
<1>4. /\ \A t \in l : new[t] \in Buffers /\ new[t] # NoBuffer
      /\ \A s, t \in l : new[s] = new[t] => s = t
  BY DevicesAssumption DEF Fresh
<1>5. /\ Tiles' = l /\ DOMAIN tileArray' = l
      /\ \A t \in l : tileArray'[t].device = d /\ tileArray'[t].storage = new[t]
      /\ tileArray' \in [Tiles' -> [device : Device, storage : Buffer]]
  BY <1>2, <1>4 DEF Tiles, Buffer
<1>6. \A a \in Areas : StorageAt(tileArray, a) # NoBuffer /\ StorageAt(tileArray, a) \in Buffers
  BY <1>1, <1>3, TileOfArea DEF StorageAt
<1>7. ASSUME NEW t \in l
      PROVE  /\ heap'[new[t]] \in [owner : Device \cup {User}, data : Pixels]
             /\ heap'[new[t]].owner = d
             /\ \A a \in t : heap'[new[t]].data[a] = PixelAt(tileArray, heap, a)
  <2>1. PICK p : p = [a \in Areas |->
                       IF a \in t THEN heap[StorageAt(tileArray, a)].data[a] ELSE Unknown]
    OBVIOUS
  <2>2. t \in SUBSET Areas /\ t # {}
    <3>1. l \subseteq SUBSET Areas /\ {} \notin l
      BY LayoutFacts
    <3> QED
      BY <3>1
  <2>3. p \in Pixels /\ \A a \in t : p[a] = PixelAt(tileArray, heap, a)
    <3>1. \A a \in t : heap[StorageAt(tileArray, a)].data \in Pixels
      BY <1>1, <1>6, <2>2
    <3>2. \A a \in t : heap[StorageAt(tileArray, a)].data[a] \in Values \cup {Unknown}
      BY <2>2, <3>1 DEF Pixels
    <3> QED
      BY <1>6, <2>1, <2>2, <3>2 DEF Pixels, PixelAt
  <2>4. FirstOf(TilesOf(t)) \in Tiles
    <3>1. TilesOf(t) \in SUBSET Tiles /\ TilesOf(t) # {}
      BY <1>1, <2>2, TilesOfBox
    <3>2. FirstOf(TilesOf(t)) \in TilesOf(t)
      BY <1>1, <3>1, FirstIn
    <3> QED
      BY <3>1, <3>2
  <2>5. (CHOOSE u \in l : new[u] = new[t]) = t
    BY <1>4
  <2>6. heap'[new[t]] = [owner |-> tileArray[FirstOf(TilesOf(t))].device, data |-> p]
    BY <1>4, <2>1, <2>5 DEF Reformatted
  <2>7. heap'[new[t]] = [owner |-> d, data |-> p]
    BY <2>4, <2>6
  <2> QED
    BY <1>2, <2>3, <2>7
<1>8. ASSUME NEW b \in Buffers, \A t \in l : b # new[t]
      PROVE  /\ heap'[b] = Free \/ heap'[b] = heap[b]
             /\ ~ByDevice(heap'[b].owner)
  <2>1. heap'[b] = IF \E t \in Tiles : tileArray[t].storage = b THEN Free ELSE heap[b]
    BY <1>8 DEF Reformatted
  <2> QED
    BY <2>1, Unexported DEF Free, ByDevice
<1>9. heap' \in [Buffers -> [owner : Device \cup {User}, data : Pixels]]
  <2>1. heap' = [b \in Buffers |-> heap'[b]]
    BY DEF Reformatted
  <2>2. Free \in [owner : Device \cup {User}, data : Pixels]
    BY DEF Free, Blank, Device, Pixels
  <2>3. \A b \in Buffers : heap'[b] \in [owner : Device \cup {User}, data : Pixels]
    BY <1>1, <1>7, <1>8, <2>2
  <2> QED
    BY ONLY <2>1, <2>3
<1>10. TilesSound(tileArray', heap')
  BY <1>2, <1>4, <1>5, <1>7 DEF TilesSound
<1>11. \A b \in Buffers : ByDevice(heap'[b].owner) => \E t \in Tiles' : tileArray'[t].storage = b
  BY <1>5, <1>8
<1>12. ASSUME NEW a \in Areas, content[a] # Unknown
       PROVE  PixelAt(tileArray', heap', a) = content[a]
  <2>1. PICK t \in l : a \in t
    BY <1>5, TileOfArea
  <2>2. StorageAt(tileArray', a) = new[t]
    BY <1>5, <2>1, TileOfIs
  <2>3. PixelAt(tileArray, heap, a) = content[a]
    BY <1>12, Unexported
  <2> QED
    BY <1>4, <1>7, <2>1, <2>2, <2>3 DEF PixelAt
<1>13. OnlyTiles
  BY <1>1, <1>5, <1>9, <1>10, <1>11, <1>12, Unexported DEF OnlyTiles
<1> QED
  BY <1>13, OnlyTilesStep

LEMMA SetTileSizeStep ==
    ASSUME StorageInv, Discipline, NEW l \in Layouts, SetTileSize(l)
    PROVE  StorageInv'
<1>1. CASE \A t \in Tiles : tileArray[t].storage = NoBuffer
  BY <1>1, EmptyTileSize
<1>2. CASE ~ \A t \in Tiles : tileArray[t].storage = NoBuffer
  <2>1. PICK d : d = tileArray[FirstOf(Tiles)].device
    OBVIOUS
  <2>2. PICK new : new = New(l)
    OBVIOUS
  <2>3. /\ NoHandles /\ ~ HasExportedStorage
        /\ \A t \in Tiles : tileArray[t].device # NoDevice
        /\ \A s, t \in Tiles : tileArray[s].device = tileArray[t].device
        /\ Places(l) # {}
        /\ tileArray' = [t \in l |-> [device |-> d, storage |-> new[t]]]
        /\ heap' = Reformatted(l, new)
        /\ UNCHANGED <<exportMode, storageMovement, exportedImageStorage,
                       childStorage, handle, pointer, content>>
    BY <1>2, <2>1, <2>2 DEF SetTileSize, Discipline
  <2>4. FirstOf(Tiles) \in Tiles
    <3>1. Tiles \in Layouts
      BY DEF StorageInv, TypeOK
    <3>2. Tiles # {} /\ Tiles \in SUBSET Tiles
      BY <3>1, LayoutFacts
    <3> QED
      BY <3>1, <3>2, FirstIn
  <2>5. d \in Devices \cup {Memory} /\ \A t \in Tiles : tileArray[t].device = d
    BY <2>1, <2>3, <2>4 DEF StorageInv, TypeOK, Device
  <2>6. Fresh(new, l)
    BY <2>2, <2>3, NewFresh
  <2> QED
    BY <2>3, <2>5, <2>6, Reformat
<1> QED
  BY <1>1, <1>2

-----------------------------------------------------------------------------
(* The invariant holds of every behaviour of Spec.                         *)

LEMMA StorageInit ==
    ASSUME Init
    PROVE  StorageInv
<1>1. PICK l \in Layouts : tileArray = EmptyTiles(l)
  BY DEF Init
<1>2. /\ exportMode = "imported" /\ storageMovement = "allow"
      /\ exportedImageStorage = NotExported
      /\ childStorage = NoBuffer
      /\ heap = [b \in Buffers |-> Free]
      /\ handle = [h \in Handles |-> NoHandle]
      /\ pointer = [i \in {"image", "child"} |-> NoBuffer]
      /\ content = Blank
  BY DEF Init
<1>3. /\ Tiles = l /\ DOMAIN tileArray = l
      /\ \A t \in l : tileArray[t].device = NoDevice /\ tileArray[t].storage = NoBuffer
      /\ tileArray \in [Tiles -> [device : Device, storage : Buffer]]
  BY <1>1 DEF EmptyTiles, Tiles, Device, Buffer
<1>4. ~ HasExportedStorage /\ exportedImageStorage \in [storage : Buffer, cobbled : BOOLEAN]
  BY <1>2 DEF HasExportedStorage, NotExported, Buffer
<1>5. /\ Free \in [owner : Device \cup {User}, data : Pixels]
      /\ Blank \in Pixels /\ \A a \in Areas : content[a] = Unknown
      /\ \A b \in Buffers : heap[b].owner = NoDevice
  BY <1>2 DEF Free, Blank, Device, Pixels
<1>6. NoHandle \in HandleType /\ NoHandle.writable = FALSE
  BY DEF NoHandle, HandleType, Device, Buffer
<1>7. TypeOK
  BY <1>2, <1>3, <1>4, <1>5, <1>6 DEF TypeOK, HandleType, Buffer
<1>8. TilesSound(tileArray, heap)
  BY <1>3 DEF TilesSound
<1>9. ExportedInv /\ KeptInv
  BY <1>2, <1>4 DEF ExportedInv, KeptInv
<1>10. HandleInv /\ HandlesApart /\ UsedInv
  BY <1>2, <1>5 DEF HandleInv, HandlesApart, UsedInv, ByDevice
<1>11. ContentKept /\ WriterInv
  BY <1>2, <1>5, <1>6 DEF ContentKept, WriterInv
<1> QED
  BY <1>7, <1>8, <1>9, <1>10, <1>11 DEF StorageInv

LEMMA StorageStutter ==
    ASSUME StorageInv, UNCHANGED vars
    PROVE  StorageInv'
<1>1. ASSUME NEW h \in Handles, HandleOK(h) PROVE HandleOK(h)'
  BY <1>1 DEF vars, HandleOK, HoldsExported, HoldsTile, HoldsTiles, HoldsCobbled,
     HasExportedStorage, TilesOf, Tiles
<1>2. TypeOK' /\ TilesSound(tileArray, heap)' /\ ExportedInv' /\ KeptInv'
  BY DEF StorageInv, vars, TypeOK, TilesSound, ExportedInv, KeptInv, HasExportedStorage, Tiles
<1>3. HandleInv' /\ HandlesApart' /\ UsedInv'
  BY <1>1 DEF StorageInv, vars, HandleInv, HandlesApart, UsedInv, Tiles
<1>4. ContentKept' /\ WriterInv'
  BY DEF StorageInv, vars, ContentKept, WriterInv, Shown, BeingWritten, HeldPixel,
     HasExportedStorage, StorageAt, TileOf
<1> QED
  BY <1>2, <1>3, <1>4 DEF StorageInv

LEMMA StorageNext ==
    ASSUME StorageInv, Discipline, [Next]_vars
    PROVE  StorageInv'
<1>1. CASE ComputeStep
  BY <1>1, GetExportedStorageStep, GetStorageStep, GetTiledStorageStep, ComputePixelStep,
     ReleaseStep DEF ComputeStep
<1>2. CASE ExportStep
  BY <1>2, ExportSteps, ImportStep, GetMemoryStorageStep, WritePixelStep DEF ExportStep
<1>3. CASE ReplaceStep
  BY <1>3, SetMemoryStorageStep, SetTileStorageStep, GetStorageWithCopyStep,
     SetStorageWithCopyStep, SetTileSizeStep DEF ReplaceStep
<1>4. CASE UNCHANGED vars
  BY <1>4, StorageStutter
<1> QED
  BY <1>1, <1>2, <1>3, <1>4 DEF Next

LEMMA StorageAlways ==
    ASSUME Discipline
    PROVE  Spec => []StorageInv
<1>1. Init => StorageInv
  BY StorageInit
<1>2. StorageInv /\ [Next]_vars => StorageInv'
  BY StorageNext
<1> QED
  BY <1>1, <1>2, PTL DEF Spec

-----------------------------------------------------------------------------
(* What follows from the invariant.                                        *)

LEMMA PointersFollow ==
    ASSUME StorageInv
    PROVE  PointersValid
<1>1. SUFFICES ASSUME NEW i \in DOMAIN pointer, pointer[i] # NoBuffer
               PROVE  Live(pointer[i]) /\ pointer[i] = exportedImageStorage.storage
  BY DEF PointersValid
<1>2. pointer[i] = exportedImageStorage.storage
  BY <1>1 DEF StorageInv, KeptInv
<1>3. heap[exportedImageStorage.storage].owner \in {Memory, User}
  BY <1>1, <1>2 DEF StorageInv, ExportedInv, HasExportedStorage
<1> QED
  BY <1>1, <1>2, <1>3, DevicesAssumption DEF Live

LEMMA HandlesFollow ==
    ASSUME StorageInv
    PROVE  HandlesValid /\ StorageAsRequested
<1>1. ASSUME NEW h \in Handles, handle[h] # NoHandle
      PROVE  /\ handle[h].storage # NoBuffer =>
                  /\ heap[handle[h].storage].owner # NoDevice
                  /\ heap[handle[h].storage].owner \in
                        {handle[h].device} \cup IF handle[h].device = Memory THEN {User} ELSE {}
             /\ handle[h].kind = "tile" =>
                  \A a \in handle[h].box : StorageAt(tileArray, a) = handle[h].storage
             /\ handle[h].kind = "tiled" =>
                  \A t \in TilesOf(handle[h].box) : ~ Moves(t, handle[h].device)
  <2>1. HandleOK(h) /\ handle[h].device \in Devices \cup {Memory}
    BY <1>1 DEF StorageInv, HandleInv, HandleOK
  <2>2. CASE HoldsExported(h)
    BY <2>2, DevicesAssumption DEF HoldsExported, StorageInv, ExportedInv
  <2>3. CASE HoldsTile(h)
    <3>1. PICK t \in Tiles : /\ handle[h].box \subseteq t
                             /\ handle[h].storage = tileArray[t].storage
                             /\ IsOn(tileArray[t], handle[h].device)
      BY <2>3 DEF HoldsTile
    <3>2. heap[tileArray[t].storage].owner =
             IF tileArray[t].device = NoDevice THEN User ELSE tileArray[t].device
      BY <3>1 DEF StorageInv, TilesSound, Tiles, IsOn
    <3>3. \A a \in handle[h].box : StorageAt(tileArray, a) = tileArray[t].storage
      BY <3>1, TileOfIs DEF StorageInv, TypeOK, Tiles
    <3>4. handle[h].kind = "tile"
      BY <2>3 DEF HoldsTile
    <3>5. heap[handle[h].storage].owner # NoDevice
      BY <2>1, <3>1, <3>2, DevicesAssumption DEF IsOn
    <3>6. heap[handle[h].storage].owner \in
             {handle[h].device} \cup IF handle[h].device = Memory THEN {User} ELSE {}
      BY <2>1, <3>1, <3>2, DevicesAssumption DEF IsOn
    <3> QED
      BY <3>1, <3>3, <3>4, <3>5, <3>6
  <2>4. CASE HoldsTiles(h)
    <3>1. handle[h].storage = NoBuffer /\ handle[h].kind = "tiled"
      BY <2>4 DEF HoldsTiles
    <3>2. \A t \in TilesOf(handle[h].box) : ~ Moves(t, handle[h].device)
      BY <2>1, <2>4, NotMoved DEF HoldsTiles, TilesOf
    <3> QED
      BY <3>1, <3>2
  <2>5. CASE HoldsCobbled(h)
    BY <2>1, <2>5, DevicesAssumption DEF HoldsCobbled
  <2> QED
    BY <2>1, <2>2, <2>3, <2>4, <2>5 DEF HandleOK
<1>2. \A h \in Handles : handle[h] = NoHandle =>
         handle[h].storage = NoBuffer /\ handle[h].kind = "none"
  BY DEF NoHandle
<1> QED
  BY <1>1, <1>2 DEF HandlesValid, StorageAsRequested, Live

LEMMA AtMostOne ==
    ASSUME NEW S, \A x, y \in S : x = y
    PROVE  Cardinality(S) = IF S = {} THEN 0 ELSE 1
<1>1. CASE S = {}
  BY <1>1, FS_EmptySet
<1>2. CASE S # {}
  <2>1. PICK x \in S : S = {x}
    BY <1>2
  <2> QED
    BY <1>2, <2>1, FS_Singleton
<1> QED
  BY <1>1, <1>2

LEMMA OneUseFollows ==
    ASSUME StorageInv
    PROVE  OneUse
<1>1. SUFFICES ASSUME NEW b \in Buffers
               PROVE  /\ ByDevice(heap[b].owner) => Uses(b) = 1
                      /\ Uses(b) \in {0, 1}
  BY DEF OneUse
<1>2. PICK ts : ts = {t \in Tiles : tileArray[t].storage = b}
  OBVIOUS
<1>3. PICK hs : hs = {h \in Handles : handle[h].kind = "cobbled" /\ handle[h].storage = b}
  OBVIOUS
<1>4. PICK mine \in BOOLEAN : mine <=> exportedImageStorage = [storage |-> b, cobbled |-> TRUE]
  OBVIOUS
<1>5. b # NoBuffer
  BY DevicesAssumption
<1>6. Cardinality(ts) = IF ts = {} THEN 0 ELSE 1
  <2>1. \A s, t \in ts : s = t
    BY <1>2, <1>5 DEF StorageInv, TilesSound, Tiles
  <2> QED
    BY <2>1, AtMostOne
<1>7. \A h \in hs : handle[h] # NoHandle /\ HoldsCobbled(h)
  BY <1>3 DEF StorageInv, HandleInv, HandleOK, HoldsExported, HoldsTile, HoldsTiles,
     HoldsCobbled, NoHandle
<1>8. Cardinality(hs) = IF hs = {} THEN 0 ELSE 1
  <2>1. \A g, h \in hs : g = h
    BY <1>3, <1>7 DEF StorageInv, HandlesApart
  <2> QED
    BY <2>1, AtMostOne
<1>9. mine => HasExportedStorage /\ exportedImageStorage.cobbled /\ exportedImageStorage.storage = b
  BY <1>4, <1>5 DEF HasExportedStorage
<1>10. hs # {} => ts = {} /\ ~ mine
  BY <1>2, <1>3, <1>7, <1>9 DEF HoldsCobbled
<1>11. mine => ts = {}
  BY <1>2, <1>9 DEF StorageInv, ExportedInv
<1>12. ByDevice(heap[b].owner) => ts # {} \/ hs # {} \/ mine
  BY <1>2, <1>3, <1>4 DEF StorageInv, UsedInv
<1>13. PICK n : n = Cardinality(ts) + Cardinality(hs) + (IF mine THEN 1 ELSE 0)
  OBVIOUS
<1>14. n \in {0, 1} /\ (ByDevice(heap[b].owner) => n = 1)
  BY <1>6, <1>8, <1>10, <1>11, <1>12, <1>13
<1>15. Uses(b) = n
  BY <1>2, <1>3, <1>4, <1>13 DEF Uses
<1> QED
  BY <1>14, <1>15

-----------------------------------------------------------------------------
(* What is handed out shows the image.                                     *)

LEMMA Granting ==
    ASSUME StorageInv, NEW k \in Handles, NEW kind, NEW d, NEW s, NEW box, NEW w,
           Grant(k, kind, d, s, box, w)
    PROVE  /\ handle'[k].kind = kind /\ handle'[k].storage = s
           /\ handle'[k].box = box /\ handle'[k].writable = w
           /\ \A g \in Handles : g # k => handle'[g] = handle[g]
<1>1. DOMAIN handle = Handles
  BY DEF StorageInv, TypeOK
<1>2. PICK r : r = [kind |-> kind, device |-> d, storage |-> s, box |-> box, writable |-> w]
  OBVIOUS
<1>3. handle' = [handle EXCEPT ![k] = r]
  BY <1>2 DEF Grant
<1>4. handle'[k] = r /\ \A g \in Handles : g # k => handle'[g] = handle[g]
  BY <1>1, <1>3
<1> QED
  BY <1>2, <1>4

\* The step gives h storage; if that is a copy, it was made from the tiles.
Handed(h) ==
    /\ content' = content
    /\ \A g \in Handles : g # h => handle'[g] = handle[g]
    /\ handle'[h].kind = "cobbled" =>
          /\ ~ HasExportedStorage
          /\ \A a \in handle'[h].box :
                heap'[handle'[h].storage].data[a] = PixelAt(tileArray, heap, a)

LEMMA CopyHanded ==
    ASSUME StorageInv, Discipline, ~ HasExportedStorage, NEW k \in Handles,
           NEW d \in Devices \cup {Memory}, NEW box \in SUBSET Areas, NEW w,
           MoveTiles(box, d, NoTile, TRUE),
           Grant(k, "cobbled", d, CobbledBuffer(box, d), box, w),
           content' = content
    PROVE  Handed(k)
<1>1. TypeOK /\ TilesSound(tileArray, heap) /\ Devices \cap Unreliable = {}
      /\ NoTile \in Outcomes(box, d)
  BY DEF StorageInv, Discipline, Outcomes
<1>2. \A a \in box : heap'[CobbledBuffer(box, d)].data[a] = PixelAt(tileArray, heap, a)
  BY <1>1, MoveTilesStep
<1>3. /\ handle'[k].storage = CobbledBuffer(box, d) /\ handle'[k].box = box
      /\ \A g \in Handles : g # k => handle'[g] = handle[g]
  BY ONLY Granting, StorageInv, k \in Handles,
     Grant(k, "cobbled", d, CobbledBuffer(box, d), box, w)
<1> QED
  BY <1>2, <1>3 DEF Handed

LEMMA GetStorageHands ==
    ASSUME StorageInv, Discipline, NEW k \in Handles, NEW d \in Devices \cup {Memory},
           NEW box \in SUBSET Areas, NEW w \in BOOLEAN, NEW failed,
           GetStorage(k, d, box, w, failed)
    PROVE  Handed(k) \/ UNCHANGED handle
<1>0. Cardinality(TilesOf(box)) \in Nat
  BY TilesOfBox DEF GetStorage, MayAsk, StorageInv, TypeOK
<1>1. PICK many \in BOOLEAN : many <=> Cardinality(TilesOf(box)) > 1
  BY <1>0
<1>2. ~ HasExportedStorage /\ content' = content
  BY DEF GetStorage
<1>3. CASE failed # NoTile
  BY <1>3 DEF GetStorage
<1>4. CASE failed = NoTile /\ many
  <2>1. Grant(k, "cobbled", d, CobbledBuffer(box, d), box, w)
    BY <1>1, <1>4 DEF GetStorage
  <2>2. MoveTiles(box, d, NoTile, (Cardinality(TilesOf(box)) > 1) /\ failed = NoTile)
    BY <1>4 DEF GetStorage
  <2>3. ((Cardinality(TilesOf(box)) > 1) /\ failed = NoTile) = TRUE
    BY <1>0, <1>1, <1>4
  <2> QED
    BY <1>2, <2>1, <2>2, <2>3, CopyHanded
<1>5. CASE failed = NoTile /\ ~ many
  <2>1. PICK s : Grant(k, "tile", d, s, box, w)
    BY <1>1, <1>5 DEF GetStorage
  <2>2. /\ handle'[k].kind = "tile"
        /\ \A g \in Handles : g # k => handle'[g] = handle[g]
    BY ONLY Granting, StorageInv, k \in Handles, <2>1
  <2> QED
    BY <1>2, <2>2 DEF Handed
<1> QED
  BY <1>3, <1>4, <1>5

LEMMA HandedOut ==
    ASSUME StorageInv, Discipline, Next, NEW h \in Handles, handle[h] = NoHandle,
           handle'[h].storage # NoBuffer
    PROVE  Handed(h)
<1>1. DOMAIN handle = Handles /\ NoHandle.storage = NoBuffer /\ handle'[h] # handle[h]
  BY DEF StorageInv, TypeOK, NoHandle
<1>2. ASSUME NEW k \in Handles, Handed(k) \/ UNCHANGED handle PROVE Handed(h)
  BY <1>1, <1>2 DEF Handed
<1>3. CASE ComputeStep
  <2>1. PICK k \in Handles :
           \/ \E d \in Devices \cup {Memory}, box \in SUBSET Areas, w \in BOOLEAN :
                 \/ GetExportedStorage(k, d, box, w)
                 \/ \E f \in Tiles \cup {NoTile} :
                       \/ GetStorage(k, d, box, w, f)
                       \/ GetTiledStorage(k, d, box, w, f)
           \/ \E a \in Areas, v \in Values : Compute(k, a, v)
           \/ ReleaseStorage(k)
    BY <1>3 DEF ComputeStep
  <2>2. ASSUME NEW d \in Devices \cup {Memory}, NEW box \in SUBSET Areas, NEW w \in BOOLEAN,
               GetExportedStorage(k, d, box, w)
        PROVE  Handed(k)
    <3>1. /\ Grant(k, "exported", d, exportedImageStorage.storage, box, w)
          /\ content' = content
      BY <2>2 DEF GetExportedStorage
    <3>2. /\ handle'[k].kind = "exported"
          /\ \A g \in Handles : g # k => handle'[g] = handle[g]
      BY ONLY Granting, StorageInv, k \in Handles, <3>1
    <3> QED
      BY <3>1, <3>2 DEF Handed
  <2>3. ASSUME NEW d \in Devices \cup {Memory}, NEW box \in SUBSET Areas, NEW w \in BOOLEAN,
               NEW f, GetTiledStorage(k, d, box, w, f)
        PROVE  Handed(k) \/ UNCHANGED handle
    <3>1. CASE f # NoTile
      BY <2>3, <3>1 DEF GetTiledStorage
    <3>2. CASE f = NoTile
      <4>1. Grant(k, "tiled", d, NoBuffer, box, w) /\ content' = content
        BY <2>3, <3>2 DEF GetTiledStorage
      <4>2. /\ handle'[k].kind = "tiled"
            /\ \A g \in Handles : g # k => handle'[g] = handle[g]
        BY ONLY Granting, StorageInv, k \in Handles, <4>1
      <4> QED
        BY <4>1, <4>2 DEF Handed
    <3> QED
      BY <3>1, <3>2
  <2>4. ASSUME \E a \in Areas, v \in Values : Compute(k, a, v) PROVE UNCHANGED handle
    BY <2>4 DEF Compute
  <2>5. ~ ReleaseStorage(k)
    <3>1. \/ handle'[k] = NoHandle /\ (k # h => handle'[h] = handle[h])
          \/ ~ ReleaseStorage(k)
      BY <1>1 DEF ReleaseStorage
    <3> QED
      BY <1>1, <3>1
  <2> QED
    BY <1>2, <2>1, <2>2, <2>3, <2>4, <2>5, GetStorageHands
<1>4. CASE ExportStep
  <2>1. UNCHANGED handle
    BY <1>4 DEF ExportStep, Export, Import, SetStorageMovement, GetMemoryStorage,
       GetChildMemoryStorage, WritePixel
  <2> QED
    BY <1>1, <2>1
<1>5. CASE ReplaceStep
  <2>1. PICK f \in Tiles \cup {NoTile}, k \in Handles : GetStorageWithCopy(k, f)
    BY <1>1, <1>5 DEF ReplaceStep, SetMemoryStorage, SetTileStorage, SetStorageWithCopy,
       SetTileSize
  <2>2. f = NoTile
    BY <1>1, <2>1 DEF GetStorageWithCopy
  <2>3. /\ ~ HasExportedStorage /\ content' = content
        /\ MoveTiles(Areas, Memory, NoTile, TRUE)
        /\ Grant(k, "cobbled", Memory, CobbledBuffer(Areas, Memory), Areas, FALSE)
    <3>1. MoveTiles(Areas, Memory, NoTile, f = NoTile) /\ (f = NoTile) = TRUE
      BY <2>1, <2>2 DEF GetStorageWithCopy
    <3> QED
      BY <2>1, <2>2, <3>1 DEF GetStorageWithCopy, Discipline
  <2>4. Areas \in SUBSET Areas /\ Memory \in Devices \cup {Memory}
    OBVIOUS
  <2>5. Handed(k)
    BY <2>3, <2>4, CopyHanded
  <2> QED
    BY <1>2, <2>5
<1> QED
  BY <1>3, <1>4, <1>5 DEF Next

\* What a thread holds that is not a copy is what the image shows.
NoCopyShows ==
    \A h \in Handles : handle[h] # NoHandle /\ handle[h].kind # "cobbled" =>
        \A a \in handle[h].box : HeldPixel(h, a) = Shown(a)

LEMMA NoCopyFollows ==
    ASSUME StorageInv
    PROVE  NoCopyShows
BY HeldIsShown DEF StorageInv, HandleInv, NoCopyShows

HandOut ==
    \A h \in Handles :
        handle[h] = NoHandle /\ handle'[h].storage # NoBuffer =>
            \A a \in handle'[h].box : content[a] # Unknown /\ ~BeingWritten(a)
               => heap'[handle'[h].storage].data[a] = content[a]

LEMMA HandOutStep ==
    ASSUME Discipline, StorageInv, StorageInv', NoCopyShows', [Next]_vars
    PROVE  [HandOut]_vars
<1>1. SUFFICES ASSUME Next,
                      NEW h \in Handles, handle[h] = NoHandle, handle'[h].storage # NoBuffer,
                      NEW a \in handle'[h].box, content[a] # Unknown, ~ BeingWritten(a)
               PROVE  heap'[handle'[h].storage].data[a] = content[a]
  BY DEF HandOut
<1>2. Handed(h)
  BY <1>1, HandedOut
<1>3. /\ handle'[h] # NoHandle /\ a \in Areas
      /\ handle'[h].kind # "tiled"
  <2>1. handle'[h] # NoHandle
    BY <1>1 DEF NoHandle
  <2>2. a \in Areas
    BY DEF StorageInv, TypeOK
  <2>3. HandleOK(h)'
    BY <2>1 DEF StorageInv, HandleInv
  <2> QED
    BY <1>1, <2>1, <2>2, <2>3 DEF HandleOK, HoldsExported, HoldsTile, HoldsTiles, HoldsCobbled
<1>4. HeldPixel(h, a)' = heap'[handle'[h].storage].data[a]
  BY <1>3 DEF HeldPixel
<1>5. content' = content
  BY <1>2 DEF Handed
<1>6. CASE handle'[h].kind = "cobbled"
  <2>1. ~ HasExportedStorage /\ heap'[handle'[h].storage].data[a] = PixelAt(tileArray, heap, a)
    BY <1>2, <1>6 DEF Handed
  <2>2. Shown(a) = content[a]
    BY <1>1, <1>3 DEF StorageInv, ContentKept
  <2> QED
    BY <2>1, <2>2, ShownTiles
<1>7. CASE handle'[h].kind # "cobbled" /\ handle'[h].writable
  BY <1>1, <1>4, <1>5, <1>7 DEF StorageInv, WriterInv
<1>8. CASE handle'[h].kind # "cobbled" /\ ~ handle'[h].writable
  <2>1. ~ BeingWritten(a)'
    BY <1>1, <1>2, <1>8 DEF BeingWritten, Handed
  <2>2. Shown(a)' = content'[a]
    BY <1>1, <1>3, <1>5, <2>1 DEF StorageInv, ContentKept
  <2>3. HeldPixel(h, a)' = Shown(a)'
    BY <1>3, <1>8 DEF NoCopyShows
  <2> QED
    BY <1>4, <1>5, <2>2, <2>3
<1> QED
  BY <1>6, <1>7, <1>8

-----------------------------------------------------------------------------
(* The theorems.                                                           *)

\* Whatever moves between devices (getToDevice()), exports, imports, replaced
\* storage and copies written back by releaseStorage() the pixels go through,
\* the image shows what was last written.
THEOREM ContentCorrect ==
    ASSUME Discipline
    PROVE  Spec => []ContentKept
<1>1. StorageInv => ContentKept
  BY DEF StorageInv
<1> QED
  BY <1>1, StorageAlways, PTL

\* What getMemoryStorage() told the application or its child stays allocated
\* and the storage of the image until import() takes it back.
THEOREM PointersCorrect ==
    ASSUME Discipline
    PROVE  Spec => []PointersValid
BY PointersFollow, StorageAlways, PTL

\* Storage a compute routine has from getStorage() is neither deallocated nor
\* moved before releaseStorage(), whatever the other threads ask for.
THEOREM HandlesCorrect ==
    ASSUME Discipline
    PROVE  Spec => []HandlesValid
BY HandlesFollow, StorageAlways, PTL

\* getStorage() and getTiledStorage() give storage of the device asked for.
THEOREM RequestsCorrect ==
    ASSUME Discipline
    PROVE  Spec => []StorageAsRequested
BY HandlesFollow, StorageAlways, PTL

\* No call forgets a buffer that a device has allocated or gives a buffer two owners, so
\* that deallocateAllStorage() and the destructors deallocate each exactly once.  Only
\* storage set by the user may have no owner any more: a move forgets it.
THEOREM OneUseCorrect ==
    ASSUME Discipline
    PROVE  Spec => []OneUse
BY OneUseFollows, StorageAlways, PTL

\* The device a tile is recorded on is the one that allocated its storage.
THEOREM OwnersCorrect ==
    ASSUME Discipline
    PROVE  Spec => []DeallocatedByOwner
<1>1. StorageInv => DeallocatedByOwner
  BY DEF StorageInv, TilesSound, DeallocatedByOwner, Tiles
<1> QED
  BY <1>1, StorageAlways, PTL

\* Every variable of ImageStorage keeps its type, the tiles stay one of the layouts.
THEOREM StorageTypeCorrect ==
    ASSUME Discipline
    PROVE  Spec => []TypeOK
<1>1. StorageInv => TypeOK
  BY DEF StorageInv
<1> QED
  BY <1>1, StorageAlways, PTL

\* Storage that getStorage() hands out, or the copy an application gets, shows
\* the image as it is then, whichever device the tiles had to be brought to.
THEOREM HandOutCorrect ==
    ASSUME Discipline
    PROVE  Spec => HandsOutContent
<1>1. StorageInv => NoCopyShows
  BY NoCopyFollows
<1>2. StorageInv /\ StorageInv' /\ NoCopyShows' /\ [Next]_vars => [HandOut]_vars
  BY HandOutStep
<1>3. Spec => [][HandOut]_vars
  BY <1>1, <1>2, StorageAlways, PTL DEF Spec
<1> QED
  BY <1>3 DEF HandsOutContent, HandOut
==============================================================================
