---------------------------- MODULE OpFlushProof ----------------------------
(***************************************************************************)
(* Theorems about OpFlush, for any number of threads and tiles, any tile   *)
(* lists and any set of operations.  The argument: a tile never becomes    *)
(* deferred again, so a thread that has marked a list as executing keeps   *)
(* every thread that comes later out of it; and what a thread finds between *)
(* updateStatus() and the marking of its tiles cannot change, because it   *)
(* holds the storage mutex.                                                *)
(*                                                                         *)
(* The second part holds as long as syncForWriting() does not fail and     *)
(* there is memory for tile lists: references are exact.  When moreover    *)
(* every tile is computed by one thread, no tile is left executing and     *)
(* flush() implements FlushContract.                                       *)
(***************************************************************************)
EXTENDS OpFlush, TLAPS, FiniteSetTheorems

Deferred(i) == opStatusOf[i] = "deferred"

\* Threads that have marked the tiles of their list as executing
Marked == {"device", "execute", "relock", "empties", "emptyTile", "emptyList"}

\* The places at which flush() holds the storage mutex
LockInv == \A t \in Threads : pc[t] \in {"scan", "select", "empties"} => mutex = t

\* A thread that finishes a tile without area has one.
EmptyInv == \A t \in Threads : pc[t] = "emptyTile" => empties[t] # <<>>

\* A cached function and its length belong together.
FuncInv == funcDef # 0 => funcLength = funcDef

\* A thread that executes has no deferred tile on its list, and neither has one
\* that tries again after its list's iterator was left in the middle.
ListInv ==
    \A t \in Threads : pc[t] \in Marked \/ (pc[t] = "select" /\ pos[t] # 1)
        => \A n \in DOMAIN TileList(t) : ~Deferred(TileList(t)[n])

\* A thread that sleeps, or has just been woken, waits for a tile of its list.
SleepInv ==
    \A t \in Threads : pc[t] \in {"asleep", "awake"} =>
        /\ pos[t] \in DOMAIN TileList(t)
        /\ ~Deferred(TileList(t)[pos[t]])
        /\ pc[t] = "asleep" => opStatusOf[TileList(t)[pos[t]]] = "executing"

\* A thread on its way to a cached function has found a deferred tile, but a
\* cached molecule that cannot be split has left none, if its list was made.
CacheInv ==
    /\ "list" \notin Failures /\ funcDef > 1 /\ funcDef \in NoSplit
          => \A i \in Tiles : ~Deferred(i)
    /\ \A t \in Threads : pc[t] = "select" /\ funcDef # 0
                            => \E i \in Tiles : Deferred(i)

\* An operation that cannot be split: everybody has the list of all tiles, and
\* one thread is past updateStatus().
WholeInv ==
    1 \in NoSplit =>
        /\ \A t \in Threads : pc[t] \notin {"idle", "returned"} => whole[t]
        /\ \A s, t \in Threads : pc[s] \in InFlush /\ pc[t] \in InFlush => s = t

\* NoSplitRespected, and the step before the execution of a display molecule
ExecInv == "list" \notin Failures =>
    \A t \in Threads :
        pc[t] \in {"device", "execute"} /\ length[t] \in NoSplit => whole[t]

IInv == /\ TypeOK /\ LockInv /\ EmptyInv /\ FuncInv /\ ListInv /\ SleepInv /\ CacheInv
        /\ WholeInv /\ ExecInv
----------------------------------------------------------------------------
\* Helpers

LEMMA OperationTyped ==
  ASSUME TypeOK
  PROVE  /\ operation \in Operation
         /\ Area \in [Tiles -> {"all", "part", "none"}]
         /\ Chains \subseteq 1..MaxLength
         /\ Molecules \subseteq Chains /\ Molecules \subseteq 2..MaxLength
         /\ NoSplit \subseteq 1..MaxLength /\ MayFail \subseteq 1..MaxLength
BY FlushAssumption DEF TypeOK, Operation, Area, Chains, Molecules, NoSplit,
   MayFail

LEMMA ListTyped ==
  ASSUME NEW t \in Threads, NEW all \in BOOLEAN
  PROVE  /\ ListOf(t, all) \in Seq(Tiles)
         /\ Len(ListOf(t, all)) \in Nat
         /\ DOMAIN ListOf(t, all) = 1..Len(ListOf(t, all))
         /\ \A n \in DOMAIN ListOf(t, all) : ListOf(t, all)[n] \in Tiles
         /\ all => \A i \in Tiles : \E n \in DOMAIN ListOf(t, all) :
                                        ListOf(t, all)[n] = i
<1>1. /\ NumTiles \in Nat \ {0} /\ Wants[t] \in Seq(Tiles)
      /\ Len(Wants[t]) = NumTiles
           => \A i \in Tiles : \E n \in DOMAIN Wants[t] : Wants[t][n] = i
  BY FlushAssumption
<1>2. [i \in Tiles |-> i] \in Seq(Tiles)
  BY <1>1 DEF Tiles
<1>3. \A i \in Tiles : \E n \in DOMAIN [j \in Tiles |-> j] : [j \in Tiles |-> j][n] = i
  OBVIOUS
<1>4. ListOf(t, all) \in Seq(Tiles)
  BY <1>1, <1>2 DEF ListOf
<1> QED
  BY <1>1, <1>3, <1>4 DEF ListOf
----------------------------------------------------------------------------
\* Type correctness

LEMMA TypeInit == Init => TypeOK
<1> SUFFICES ASSUME Init PROVE TypeOK
  OBVIOUS
<1>1. operation \in Operation /\ MaxLength \in Nat \ {0} /\ NumTiles \in Nat \ {0}
  BY FlushAssumption DEF Init
<1>2. empties \in [Threads -> Seq(Tiles)]
  BY DEF Init
<1>3. computed \subseteq Tiles
  BY DEF Init
<1>4. /\ pc \in [Threads -> PCs] /\ mutex \in Threads \cup {Nobody}
      /\ whole \in [Threads -> BOOLEAN] /\ failed \in [Threads -> BOOLEAN]
      /\ pos \in [Threads -> Nat \ {0}] /\ length \in [Threads -> {0} \cup Chains]
      /\ answer \in [Threads -> {"none", "success", "failure"}]
  BY DEF Init, PCs
<1>5. /\ opStatusOf \in [Tiles -> {"deferred", "executing", "evaluated"}]
      /\ refCount \in Int /\ funcDef \in {0} \cup Chains
      /\ funcLength \in 0..MaxLength /\ opList \in {0} \cup Molecules
      /\ operation \in Operations
  BY <1>1 DEF Init
<1>6. /\ evaluated \in BOOLEAN /\ alive \in BOOLEAN
      /\ switched \in BOOLEAN /\ valid \in BOOLEAN
  BY DEF Init
<1> QED
  BY <1>2, <1>3, <1>4, <1>5, <1>6 DEF TypeOK

LEMMA StatusTyped ==
  ASSUME TypeOK, NEW S, NEW st \in {"executing", "evaluated"}, SetOpStatus(S, st)
  PROVE  /\ opStatusOf' \in [Tiles -> {"deferred", "executing", "evaluated"}]
         /\ \A i \in Tiles :
              /\ i \in S => opStatusOf'[i] \in {st, "evaluated"}
              /\ i \notin S => opStatusOf'[i] = opStatusOf[i]
              /\ ~Deferred(i) => ~Deferred(i)'
              /\ opStatusOf[i] = "evaluated" => opStatusOf'[i] = "evaluated"
BY DEF TypeOK, SetOpStatus, Deferred

LEMMA GotoTyped ==
  ASSUME TypeOK, NEW t \in Threads, NEW l \in PCs,
         Goto(t, l) \/ BroadcastAndGoto(t, l)
  PROVE  /\ pc' \in [Threads -> PCs]
         /\ pc'[t] = l
         /\ \A s \in Threads \ {t} :
              \/ pc'[s] = pc[s]
              \/ pc[s] = "asleep" /\ pc'[s] = "awake"
<1>1. pc \in [Threads -> PCs] /\ "awake" \in PCs
  BY DEF TypeOK, PCs
<1>2. CASE Goto(t, l)
  BY <1>1, <1>2 DEF Goto
<1>3. CASE BroadcastAndGoto(t, l)
  BY <1>1, <1>3 DEF BroadcastAndGoto
<1> QED
  BY <1>2, <1>3

LEMMA ReleaseTyped ==
  ASSUME TypeOK, NEW b \in BOOLEAN, Release(b)
  PROVE  refCount' \in Int /\ evaluated' \in BOOLEAN /\ alive' \in BOOLEAN
BY DEF TypeOK, Release

LEMMA MarkTyped ==
  ASSUME TypeOK, NEW t \in Threads, NEW n \in {0} \cup Chains, NEW all \in BOOLEAN,
         MarkTilesAndGo(t, n, all)
  PROVE  /\ opStatusOf' \in [Tiles -> {"deferred", "executing", "evaluated"}]
         /\ pos' = [pos EXCEPT ![t] = 1] /\ pos' \in [Threads -> Nat \ {0}]
         /\ whole' = [whole EXCEPT ![t] = all] /\ whole' \in [Threads -> BOOLEAN]
         /\ length' = [length EXCEPT ![t] = n]
         /\ length' \in [Threads -> {0} \cup Chains]
         /\ failed' \in [Threads -> BOOLEAN]
         /\ mutex' = Nobody
         /\ pc' \in [Threads -> PCs]
         /\ pc'[t] \in {"emptyList", "device", "execute"}
         /\ \A s \in Threads \ {t} : pc'[s] = pc[s]
         /\ \A i \in Tiles : ~Deferred(i) => ~Deferred(i)'
         /\ \A i \in Tiles : opStatusOf[i] = "evaluated" => opStatusOf'[i] = "evaluated"
<1>1. PICK S : SetOpStatus(S, "executing")
  BY DEF MarkTilesAndGo
<1>2. /\ opStatusOf' \in [Tiles -> {"deferred", "executing", "evaluated"}]
      /\ \A i \in Tiles : ~Deferred(i) => ~Deferred(i)'
      /\ \A i \in Tiles : opStatusOf[i] = "evaluated" => opStatusOf'[i] = "evaluated"
  BY <1>1, StatusTyped
<1>3. PICK l \in {"emptyList", "device", "execute"} : Goto(t, l)
  BY DEF MarkTilesAndGo
<1>4. /\ pc' \in [Threads -> PCs] /\ pc'[t] \in {"emptyList", "device", "execute"}
      /\ \A s \in Threads \ {t} : pc'[s] = pc[s]
  BY <1>3 DEF Goto, TypeOK, PCs
<1>5. /\ pos' = [pos EXCEPT ![t] = 1] /\ whole' = [whole EXCEPT ![t] = all]
      /\ length' = [length EXCEPT ![t] = n] /\ failed' = [failed EXCEPT ![t] = FALSE]
      /\ mutex' = Nobody
  BY DEF MarkTilesAndGo
<1>6. /\ pos' \in [Threads -> Nat \ {0}] /\ length' \in [Threads -> {0} \cup Chains]
      /\ whole' \in [Threads -> BOOLEAN] /\ failed' \in [Threads -> BOOLEAN]
  BY <1>5 DEF TypeOK
<1> QED
  BY <1>2, <1>4, <1>5, <1>6

\* The fields of the operation and every tile list stay what they are.
LEMMA OperationKept ==
  ASSUME UNCHANGED operation
  PROVE  UNCHANGED <<Area, Chains, Molecules, NoSplit, MayFail>>
BY DEF Area, Chains, Molecules, NoSplit, MayFail

LEMMA TypeStep ==
  ASSUME TypeOK, FuncInv, EmptyInv, [Next]_vars
  PROVE  TypeOK'
<1> USE DEF TypeOK
<1>1. CASE UNCHANGED vars
  BY <1>1, OperationKept DEF vars, threadVars, opVars, funcVars
<1>2. CASE AllReturned
  BY <1>1, <1>2 DEF AllReturned
<1>3. ASSUME NEW t \in Threads, SpuriousWakeup(t) PROVE TypeOK'
  <2>1. pc' \in [Threads -> PCs]
    BY <1>3, GotoTyped DEF SpuriousWakeup, PCs
  <2> QED
    BY <1>3, <2>1, OperationKept DEF SpuriousWakeup, threadVars, opVars, funcVars
<1>4. ASSUME NEW t \in Threads, Step(t) PROVE TypeOK'
  <2> USE DEF threadVars, opVars, funcVars
  <2>1. /\ operation' = operation /\ UNCHANGED <<Area, Chains, Molecules, NoSplit, MayFail>>
    BY <1>4, OperationKept DEF Step
  <2>2. /\ t \in Threads /\ whole[t] \in BOOLEAN
        /\ pos[t] \in Nat \ {0}
        /\ TileList(t) \in Seq(Tiles) /\ DOMAIN TileList(t) = 1..Len(TileList(t))
        /\ \A n \in DOMAIN TileList(t) : TileList(t)[n] \in Tiles
        /\ Len(TileList(t)) \in Nat
    BY ListTyped DEF TileList
  <2>3. /\ MaxLength \in Nat \ {0} /\ NumTiles \in Nat \ {0} /\ 1 \in Tiles
        /\ Chains \subseteq 1..MaxLength /\ Molecules \subseteq Chains
    BY FlushAssumption, OperationTyped DEF Tiles
  <2>4. \A l \in PCs : Goto(t, l) \/ BroadcastAndGoto(t, l) => pc' \in [Threads -> PCs]
    BY GotoTyped
  <2>5. \A p \in Nat \ {0} : [pos EXCEPT ![t] = p] \in [Threads -> Nat \ {0}]
    OBVIOUS
  <2>6. /\ [pos EXCEPT ![t] = 1] \in [Threads -> Nat \ {0}]
         /\ [pos EXCEPT ![t] = @ + 1] \in [Threads -> Nat \ {0}]
    BY <2>2, <2>5
  <2>7. CASE Enter(t)
    <3>1. pc' \in [Threads -> PCs]
      BY <2>4, <2>7 DEF Enter, PCs
    <3>2. whole' \in [Threads -> BOOLEAN]
      <4>1. (1 \in NoSplit) \in BOOLEAN
        OBVIOUS
      <4>2. \A b \in BOOLEAN : [whole EXCEPT ![t] = b] \in [Threads -> BOOLEAN]
        OBVIOUS
      <4>3. whole' = [whole EXCEPT ![t] = (1 \in NoSplit)] \/ whole' = whole
        BY <2>7 DEF Enter
      <4> QED
        BY <4>1, <4>2, <4>3
    <3>3. /\ answer' \in [Threads -> {"none", "success", "failure"}]
          /\ mutex' \in Threads \cup {Nobody}
      BY <2>7 DEF Enter, Return
    <3> QED
      BY <2>1, <2>7, <3>1, <3>2, <3>3 DEF Enter
  <2>8. CASE NothingToFlush(t)
    <3>1. pc' \in [Threads -> PCs]
      BY <2>4, <2>8 DEF NothingToFlush, PCs
    <3> QED
      BY <2>1, <2>8, <2>6, <3>1 DEF NothingToFlush, Return
  <2>9. CASE FoundDeferred(t)
    <3>1. pc' \in [Threads -> PCs]
      BY <2>4, <2>9 DEF FoundDeferred, PCs
    <3> QED
      BY <2>1, <2>9, <2>6, <3>1 DEF FoundDeferred, Aquire
  <2>10. CASE FoundExecuting(t)
    <3>1. pc' \in [Threads -> PCs]
      BY <2>4, <2>10 DEF FoundExecuting, PCs
    <3>2. pos' \in [Threads -> Nat \ {0}]
      BY <2>2, <2>10 DEF FoundExecuting
    <3> QED
      BY <2>1, <2>10, <3>1, <3>2 DEF FoundExecuting, Aquire
  <2>11. CASE Wake(t)
    <3>1. pc' \in [Threads -> PCs]
      BY <2>4, <2>11 DEF Wake, PCs
    <3>2. refCount' \in Int /\ evaluated' \in BOOLEAN /\ alive' \in BOOLEAN
      BY <2>11, ReleaseTyped DEF Wake
    <3>3. pos' \in [Threads -> Nat \ {0}]
      BY <2>6, <2>11 DEF Wake
    <3>4. mutex' \in Threads \cup {Nobody}
      BY <2>11 DEF Wake
    <3> QED
      BY <2>1, <2>11, <3>1, <3>2, <3>3, <3>4 DEF Wake
  <2>12. CASE UseFunction(t)
    <3>1. funcLength \in {0} \cup Chains
      BY <2>12 DEF UseFunction, FuncInv
    <3> QED
      BY <2>1, <2>2, <2>12, <3>1, MarkTyped DEF UseFunction
  <2>13. CASE FindFunction(t)
    <3>1. PICK n \in Molecules \cup {1} :
             /\ LongestOpChain(n)
             /\ funcDef' = n /\ funcLength' = n
             /\ opList' = IF n > 1 THEN n ELSE opList
             /\ MarkTilesAndGo(t, n, NeedsWhole(t, n))
      BY <2>13 DEF FindFunction
    <3>2. n \in Chains /\ NeedsWhole(t, n) \in BOOLEAN
      BY <2>2, <3>1 DEF LongestOpChain, NeedsWhole
    <3>3. n \in 0..MaxLength /\ opList' \in {0} \cup Molecules
      BY <2>3, <3>1, <3>2
    <3> QED
      BY <2>1, <2>13, <3>1, <3>2, <3>3, MarkTyped DEF FindFunction
  <2>27. CASE NoListForMolecule(t)
    <3>1. pc' \in [Threads -> PCs]
      BY <2>4, <2>27 DEF NoListForMolecule, PCs
    <3>2. PICK n \in Molecules \cap NoSplit :
             funcDef' = n /\ funcLength' = n /\ opList' = n
      BY <2>27 DEF NoListForMolecule
    <3>3. /\ funcDef' \in {0} \cup Chains /\ funcLength' \in 0..MaxLength
          /\ opList' \in {0} \cup Molecules
      BY <2>3, <3>2
    <3>4. answer' \in [Threads -> {"none", "success", "failure"}]
      BY <2>27 DEF NoListForMolecule, Return
    <3> QED
      BY <2>1, <2>27, <3>1, <3>3, <3>4 DEF NoListForMolecule
  <2>14. CASE RejectMolecule(t)
    <3>1. funcLength' \in 0..MaxLength
      BY <2>3, <2>14 DEF RejectMolecule
    <3> QED
      BY <2>1, <2>14, <3>1 DEF RejectMolecule
  <2>15. CASE SwitchToAlternateOp(t)
    BY <2>1, <2>3, <2>15 DEF SwitchToAlternateOp
  <2>16. CASE GiveUp(t)
    <3>1. pc' \in [Threads -> PCs]
      BY <2>4, <2>16 DEF GiveUp, PCs
    <3>2. refCount' \in Int /\ evaluated' \in BOOLEAN /\ alive' \in BOOLEAN
      BY <2>16, ReleaseTyped DEF GiveUp
    <3>3. opStatusOf' \in [Tiles -> {"deferred", "executing", "evaluated"}]
      BY <2>16, StatusTyped DEF GiveUp
    <3>4. funcLength' \in 0..MaxLength
      BY <2>3, <2>16 DEF GiveUp
    <3>5. valid' \in BOOLEAN /\ pos' \in [Threads -> Nat \ {0}]
      BY <2>16, <2>6 DEF GiveUp
    <3>6. /\ mutex' \in Threads \cup {Nobody}
          /\ answer' \in [Threads -> {"none", "success", "failure"}]
      BY <2>16 DEF GiveUp, Return
    <3> QED
      BY <2>1, <2>16, <3>1, <3>2, <3>3, <3>4, <3>5, <3>6 DEF GiveUp
  <2>17. CASE SyncDevice(t)
    <3>1. pc' \in [Threads -> PCs]
      BY <2>4, <2>17 DEF SyncDevice, PCs
    <3>2. /\ refCount' \in Int /\ evaluated' \in BOOLEAN /\ alive' \in BOOLEAN
          /\ answer' \in [Threads -> {"none", "success", "failure"}]
      BY <2>17, ReleaseTyped DEF SyncDevice, Return
    <3> QED
      BY <2>1, <2>17, <3>1, <3>2 DEF SyncDevice
  <2>18. CASE ExecuteTile(t)
    <3>1. TileList(t)[pos[t]] \in Tiles
      BY <2>2, <2>18 DEF ExecuteTile
    <3>2. pc' \in [Threads -> PCs]
      BY <2>4, <2>18 DEF ExecuteTile, PCs
    <3>3. pos' \in [Threads -> Nat \ {0}]
      BY <2>18, <2>6 DEF ExecuteTile
    <3>5. failed' \in [Threads -> BOOLEAN] /\ computed' \subseteq Tiles
      BY <2>18, <3>1 DEF ExecuteTile, Succeeds, Fails
    <3>4. empties' \in [Threads -> Seq(Tiles)]
      <4>1. Append(empties[t], TileList(t)[pos[t]]) \in Seq(Tiles)
        BY <3>1
      <4> QED
        BY <2>18, <4>1 DEF ExecuteTile
    <3> QED
      BY <2>1, <2>18, <3>2, <3>3, <3>4, <3>5 DEF ExecuteTile
  <2>19. CASE EndOfList(t)
    <3>1. pc' \in [Threads -> PCs]
      BY <2>4, <2>19 DEF EndOfList, PCs
    <3> QED
      BY <2>1, <2>19, <2>6, <3>1 DEF EndOfList
  <2>20. CASE ExecuteWhole(t)
    <3>1. pc' \in [Threads -> PCs]
      BY <2>4, <2>20 DEF ExecuteWhole, PCs
    <3>2. failed' \in [Threads -> BOOLEAN] /\ computed' \subseteq Tiles
      BY <2>20 DEF ExecuteWhole, Succeeds, Fails
    <3>3. empties' \in [Threads -> Seq(Tiles)]
      <4>1. <<1>> \in Seq(Tiles)
        BY <2>3
      <4> QED
        BY <2>20, <4>1 DEF ExecuteWhole
    <3> QED
      BY <2>1, <2>20, <3>1, <3>2, <3>3 DEF ExecuteWhole
  <2>21. CASE Relock(t)
    <3>1. pc' \in [Threads -> PCs]
      BY <2>4, <2>21 DEF Relock, PCs
    <3> QED
      BY <2>1, <2>21, <3>1 DEF Relock
  <2>22. CASE NextEmptyTile(t)
    <3>1. pc' \in [Threads -> PCs]
      BY <2>4, <2>22 DEF NextEmptyTile, PCs
    <3> QED
      BY <2>1, <2>22, <3>1 DEF NextEmptyTile
  <2>23. CASE FinishEmptyTile(t)
    <3>1. pc' \in [Threads -> PCs]
      BY <2>4, <2>23 DEF FinishEmptyTile, PCs
    <3>2. /\ refCount' \in Int /\ evaluated' \in BOOLEAN /\ alive' \in BOOLEAN
          /\ failed' \in [Threads -> BOOLEAN]
      BY <2>23, ReleaseTyped DEF FinishEmptyTile, AllTilesDone
    <3>3. opStatusOf' \in [Tiles -> {"deferred", "executing", "evaluated"}]
      BY <2>23, StatusTyped DEF FinishEmptyTile
    <3>4. empties' \in [Threads -> Seq(Tiles)]
      <4>1. Tail(empties[t]) \in Seq(Tiles)
        BY <2>23 DEF FinishEmptyTile, EmptyInv
      <4> QED
        BY <2>23, <4>1 DEF FinishEmptyTile
    <3> QED
      BY <2>1, <2>23, <3>1, <3>2, <3>3, <3>4 DEF FinishEmptyTile
  <2>24. CASE FinishEmptyList(t)
    <3>1. pc' \in [Threads -> PCs]
      BY <2>4, <2>24 DEF FinishEmptyList, PCs
    <3>2. /\ refCount' \in Int /\ evaluated' \in BOOLEAN /\ alive' \in BOOLEAN
          /\ answer' \in [Threads -> {"none", "success", "failure"}]
      BY <2>24, ReleaseTyped DEF FinishEmptyList, AllTilesDone, Return
    <3>3. opStatusOf' \in [Tiles -> {"deferred", "executing", "evaluated"}]
      BY <2>24, StatusTyped DEF FinishEmptyList
    <3> QED
      BY <2>1, <2>24, <3>1, <3>2, <3>3 DEF FinishEmptyList
  <2>25. CASE Retry(t)
    <3>1. pc' \in [Threads -> PCs]
      BY <2>4, <2>25 DEF Retry, PCs
    <3>2. funcLength' \in 0..MaxLength
      BY <2>3, <2>25 DEF Retry, Shorter
    <3> QED
      BY <2>1, <2>25, <3>1, <3>2 DEF Retry
  <2>26. CASE Finish(t)
    <3>1. pc' \in [Threads -> PCs]
      BY <2>4, <2>26 DEF Finish, PCs
    <3>2. /\ refCount' \in Int /\ evaluated' \in BOOLEAN /\ alive' \in BOOLEAN
      BY <2>26, ReleaseTyped DEF Finish, AllTilesDone
    <3>3. opStatusOf' \in [Tiles -> {"deferred", "executing", "evaluated"}]
      BY <2>26, StatusTyped DEF Finish
    <3> QED
      BY <2>1, <2>26, <2>6, <3>1, <3>2, <3>3 DEF Finish, Return
  <2> QED
    BY <1>4, <2>7, <2>8, <2>9, <2>10, <2>11, <2>12, <2>13, <2>14, <2>15, <2>16,
       <2>17, <2>18, <2>19, <2>20, <2>21, <2>22, <2>23, <2>24, <2>25, <2>26, <2>27
       DEF Step, UpdateStatus, SelectFunction, Execute, Conclude
<1> QED
  BY <1>1, <1>2, <1>3, <1>4 DEF Next
----------------------------------------------------------------------------
\* What a step of one thread does to the others

LEMMA OthersKept ==
  ASSUME TypeOK, NEW t \in Threads, Step(t), NEW s \in Threads \ {t}
  PROVE  /\ pc'[s] = pc[s] \/ (pc[s] = "asleep" /\ pc'[s] = "awake")
         /\ whole'[s] = whole[s] /\ pos'[s] = pos[s] /\ length'[s] = length[s]
         /\ empties'[s] = empties[s] /\ failed'[s] = failed[s] /\ answer'[s] = answer[s]
         /\ TileList(s)' = TileList(s)
<1> USE DEF threadVars, opVars, funcVars
<1>1. /\ whole'[s] = whole[s] /\ pos'[s] = pos[s] /\ length'[s] = length[s]
      /\ empties'[s] = empties[s] /\ failed'[s] = failed[s] /\ answer'[s] = answer[s]
  <2>1. CASE UpdateStatus(t)
    BY <2>1 DEF TypeOK, UpdateStatus, Enter, NothingToFlush, FoundDeferred,
       FoundExecuting, Wake, Return
  <2>2. CASE SelectFunction(t)
    BY <2>2 DEF TypeOK, SelectFunction, UseFunction, FindFunction,
       RejectMolecule, NoListForMolecule, SwitchToAlternateOp, GiveUp, SyncDevice,
       MarkTilesAndGo, Return
  <2>3. CASE Execute(t)
    BY <2>3 DEF TypeOK, Execute, ExecuteTile, EndOfList, ExecuteWhole, Relock,
       Succeeds, Fails
  <2>4. CASE Conclude(t)
    BY <2>4 DEF TypeOK, Conclude, NextEmptyTile, FinishEmptyTile,
       FinishEmptyList, Retry, Finish, Return
  <2> QED
    BY <2>1, <2>2, <2>3, <2>4 DEF Step
<1>2. pc'[s] = pc[s] \/ (pc[s] = "asleep" /\ pc'[s] = "awake")
  <2>1. CASE UpdateStatus(t)
    BY <2>1 DEF TypeOK, UpdateStatus, Enter, NothingToFlush, FoundDeferred,
       FoundExecuting, Wake, Goto
  <2>2. CASE SelectFunction(t)
    BY <2>2 DEF TypeOK, SelectFunction, UseFunction, FindFunction,
       RejectMolecule, NoListForMolecule, SwitchToAlternateOp, GiveUp, SyncDevice,
       MarkTilesAndGo,
       Goto, BroadcastAndGoto
  <2>3. CASE Execute(t)
    BY <2>3 DEF TypeOK, Execute, ExecuteTile, EndOfList, ExecuteWhole, Relock,
       Goto
  <2>4. CASE Conclude(t)
    BY <2>4 DEF TypeOK, Conclude, NextEmptyTile, FinishEmptyTile,
       FinishEmptyList, Retry, Finish, Goto, BroadcastAndGoto
  <2> QED
    BY <2>1, <2>2, <2>3, <2>4 DEF Step
<1>3. TileList(s)' = TileList(s)
  BY <1>1 DEF TileList, ListOf
<1> QED
  BY <1>1, <1>2, <1>3

\* No tile becomes deferred again, and none that is evaluated is touched.
LEMMA StatusMonotone ==
  ASSUME TypeOK, NEW t \in Threads, Step(t), NEW i \in Tiles
  PROVE  /\ ~Deferred(i) => ~Deferred(i)'
         /\ opStatusOf[i] = "evaluated" => opStatusOf'[i] = "evaluated"
<1>1. ASSUME UNCHANGED opStatusOf PROVE ~Deferred(i) => ~Deferred(i)'
  BY <1>1 DEF Deferred
<1>2. CASE UpdateStatus(t)
  BY <1>1, <1>2 DEF UpdateStatus, Enter, NothingToFlush, FoundDeferred,
     FoundExecuting, Wake
<1>3. CASE SelectFunction(t)
  <2>1. ASSUME \/ UNCHANGED opStatusOf
               \/ \E S : SetOpStatus(S, "executing") \/ SetOpStatus(S, "evaluated")
        PROVE  /\ ~Deferred(i) => ~Deferred(i)'
               /\ opStatusOf[i] = "evaluated" => opStatusOf'[i] = "evaluated"
    BY <1>1, <2>1, StatusTyped
  <2> QED
    BY <1>3, <2>1 DEF SelectFunction, UseFunction, FindFunction,
       RejectMolecule, NoListForMolecule, SwitchToAlternateOp, GiveUp, SyncDevice,
       MarkTilesAndGo
<1>4. CASE Execute(t)
  BY <1>1, <1>4 DEF Execute, ExecuteTile, EndOfList, ExecuteWhole, Relock
<1>5. CASE Conclude(t)
  <2>1. UNCHANGED opStatusOf \/ \E S : SetOpStatus(S, "evaluated")
    BY <1>5 DEF Conclude, NextEmptyTile, FinishEmptyTile, FinishEmptyList,
       Retry, Finish
  <2> QED
    BY <1>1, <2>1, StatusTyped
<1> QED
  BY <1>2, <1>3, <1>4, <1>5 DEF Step

\* While another thread holds the storage mutex, a thread can only execute
\* outside of it: neither the mutex, the tiles nor the function changes.
LEMMA MutexExcludes ==
  ASSUME TypeOK, NEW t \in Threads, Step(t), mutex \in Threads \ {t}
  PROVE  /\ ExecuteTile(t) \/ EndOfList(t) \/ ExecuteWhole(t)
         /\ UNCHANGED <<mutex, opStatusOf, funcDef, funcLength>>
<1>1. mutex # t /\ mutex # Nobody
  BY FlushAssumption
<1>2. ExecuteTile(t) \/ EndOfList(t) \/ ExecuteWhole(t)
  <2>1. CASE UpdateStatus(t)
    BY <1>1, <2>1 DEF UpdateStatus, Enter, NothingToFlush, FoundDeferred,
       FoundExecuting, Wake
  <2>2. CASE SelectFunction(t)
    BY <1>1, <2>2 DEF SelectFunction, UseFunction, FindFunction,
       RejectMolecule, NoListForMolecule, SwitchToAlternateOp, GiveUp, SyncDevice
  <2>3. CASE Execute(t)
    BY <1>1, <2>3 DEF Execute, Relock
  <2>4. CASE Conclude(t)
    BY <1>1, <2>4 DEF Conclude, NextEmptyTile, FinishEmptyTile,
       FinishEmptyList, Retry, Finish
  <2> QED
    BY <2>1, <2>2, <2>3, <2>4 DEF Step
<1> QED
  BY <1>2 DEF ExecuteTile, EndOfList, ExecuteWhole, funcVars

\* Whoever takes a tile out of the executing state wakes all sleepers.
LEMMA BroadcastWakes ==
  ASSUME TypeOK, NEW t \in Threads, Step(t), NEW i \in Tiles,
         opStatusOf[i] = "executing", opStatusOf'[i] # "executing"
  PROVE  \A s \in Threads \ {t} : pc'[s] # "asleep"
<1> USE DEF threadVars, opVars, funcVars
<1>1. opStatusOf' # opStatusOf
  OBVIOUS
<1>2. \A S : ~SetOpStatus(S, "executing")
  BY DEF TypeOK, SetOpStatus
<1>3. ASSUME NEW l \in PCs, BroadcastAndGoto(t, l)
      PROVE  \A s \in Threads \ {t} : pc'[s] # "asleep"
  BY <1>3 DEF BroadcastAndGoto, TypeOK
<1>4. CASE UpdateStatus(t)
  BY <1>1, <1>4 DEF UpdateStatus, Enter, NothingToFlush, FoundDeferred,
     FoundExecuting, Wake
<1>5. CASE SelectFunction(t)
  BY <1>1, <1>2, <1>3, <1>5 DEF SelectFunction, UseFunction, FindFunction,
     RejectMolecule, NoListForMolecule, SwitchToAlternateOp, GiveUp, SyncDevice,
     MarkTilesAndGo, PCs
<1>6. CASE Execute(t)
  BY <1>1, <1>6 DEF Execute, ExecuteTile, EndOfList, ExecuteWhole, Relock
<1>7. CASE Conclude(t)
  BY <1>1, <1>3, <1>7 DEF Conclude, NextEmptyTile, FinishEmptyTile,
     FinishEmptyList, Retry, Finish, PCs
<1> QED
  BY <1>4, <1>5, <1>6, <1>7 DEF Step

\* What a thread finds and with what it goes to the scheduler
LEMMA SelectedFunction ==
  ASSUME TypeOK, FuncInv, NEW t \in Threads, UseFunction(t) \/ FindFunction(t)
  PROVE  \E n \in {0} \cup Chains, all \in BOOLEAN :
            /\ MarkTilesAndGo(t, n, all)
            /\ funcDef' = n /\ n # 0
            /\ funcDef # 0 => funcDef = n /\ all = whole[t]
            /\ whole[t] => all
            /\ funcDef = 0 /\ n > 1 /\ n \in NoSplit => all
<1>1. CASE UseFunction(t)
  <2>1. /\ funcLength \in {0} \cup Chains /\ whole[t] \in BOOLEAN
        /\ funcLength # 0 /\ funcDef # 0
        /\ funcDef' = funcLength /\ funcDef = funcLength
    BY <1>1 DEF UseFunction, FuncInv, TypeOK, funcVars
  <2>2. MarkTilesAndGo(t, funcLength, whole[t])
    BY <1>1 DEF UseFunction
  <2> QED
    BY <2>1, <2>2, Zenon
<1>2. CASE FindFunction(t)
  <2>1. PICK n \in Molecules \cup {1} :
           LongestOpChain(n) /\ funcDef' = n /\ MarkTilesAndGo(t, n, NeedsWhole(t, n))
    BY <1>2 DEF FindFunction
  <2>2. /\ n \in {0} \cup Chains /\ NeedsWhole(t, n) \in BOOLEAN
        /\ funcDef = 0 /\ n # 0
    BY <1>2, <2>1, OperationTyped DEF FindFunction, LongestOpChain, NeedsWhole, TypeOK
  <2>3. whole[t] => NeedsWhole(t, n)
    BY DEF NeedsWhole
  <2>4. n > 1 /\ n \in NoSplit => NeedsWhole(t, n)
    BY DEF NeedsWhole
  <2> QED
    BY <2>1, <2>2, <2>3, <2>4, Zenon
<1> QED
  BY <1>1, <1>2

LEMMA SelectMarks ==
  ASSUME TypeOK, FuncInv, NEW t \in Threads, UseFunction(t) \/ FindFunction(t)
  PROVE  /\ \E n \in {0} \cup Chains, all \in BOOLEAN : MarkTilesAndGo(t, n, all)
         /\ pc'[t] \in {"emptyList", "device", "execute"}
<1>1. PICK n \in {0} \cup Chains, all \in BOOLEAN : MarkTilesAndGo(t, n, all)
  BY SelectedFunction
<1>2. pc'[t] \in {"emptyList", "device", "execute"}
  BY <1>1, MarkTyped
<1> QED
  BY <1>1, <1>2

\* The list a thread goes to the scheduler with has no deferred tile left.
LEMMA Marking ==
  ASSUME TypeOK, ListInv, NEW t \in Threads, pc[t] = "select",
         NEW n \in {0} \cup Chains, NEW all \in BOOLEAN, MarkTilesAndGo(t, n, all)
  PROVE  \A k \in DOMAIN TileList(t)' : ~Deferred(TileList(t)[k])'
<1> DEFINE new == ListOf(t, all)
<1>1. TileList(t)' = new
  <2>1. whole'[t] = all
    BY MarkTyped DEF TypeOK
  <2> QED
    BY <2>1 DEF TileList, ListOf
<1>2. /\ DOMAIN new = 1..Len(new) /\ Len(new) \in Nat
      /\ \A k \in DOMAIN new : new[k] \in Tiles
  BY ListTyped
<1>3. \A i \in Tiles : ~Deferred(i) => ~Deferred(i)'
  BY MarkTyped
<1>4. CASE new # TileList(t)
  <2>1. SetOpStatus(Tiles, "executing")
    BY <1>4 DEF MarkTilesAndGo
  <2>2. \A i \in Tiles : ~Deferred(i)'
    BY <2>1, StatusTyped DEF Deferred
  <2> QED
    BY <1>1, <1>2, <2>2
<1>5. CASE new = TileList(t)
  <2>1. SetOpStatus(Remaining(t), "executing")
    BY <1>5 DEF MarkTilesAndGo
  <2>2. \A i \in Remaining(t) \cap Tiles : ~Deferred(i)'
    BY <2>1, StatusTyped DEF Deferred
  <2>3. ASSUME NEW k \in DOMAIN new PROVE ~Deferred(new[k])'
    <3>1. CASE pos[t] = 1
      BY <1>2, <1>5, <2>2, <3>1 DEF Remaining
    <3>2. CASE pos[t] # 1
      BY <1>2, <1>3, <1>5, <3>2 DEF ListInv
    <3> QED
      BY <3>1, <3>2
  <2> QED
    BY <1>1, <2>3
<1> QED
  BY <1>4, <1>5
----------------------------------------------------------------------------
\* The parts of the invariant

LEMMA LockStep ==
  ASSUME TypeOK, LockInv, FuncInv, NEW t \in Threads, Step(t)
  PROVE  LockInv'
<1> SUFFICES ASSUME NEW s \in Threads, pc'[s] \in {"scan", "select", "empties"}
             PROVE  mutex' = s
  BY DEF LockInv
<1>1. CASE s # t
  <2>1. pc[s] = pc'[s]
    BY <1>1, OthersKept
  <2> QED
    BY <1>1, <2>1, MutexExcludes DEF LockInv
<1>2. CASE s = t
  <2>1. CASE UpdateStatus(t)
    BY <1>2, <2>1 DEF TypeOK, LockInv, UpdateStatus, Enter, NothingToFlush,
       FoundDeferred, FoundExecuting, Wake, Goto
  <2>2. CASE SelectFunction(t)
    <3>1. ~UseFunction(t) /\ ~FindFunction(t)
      BY <1>2, SelectMarks
    <3>2. CASE RejectMolecule(t) \/ SwitchToAlternateOp(t)
      BY <1>2, <3>2 DEF LockInv, RejectMolecule, SwitchToAlternateOp
    <3>3. CASE GiveUp(t) \/ SyncDevice(t) \/ NoListForMolecule(t)
      BY <1>2, <3>3 DEF TypeOK, GiveUp, SyncDevice, NoListForMolecule, Goto,
         BroadcastAndGoto
    <3> QED
      BY <2>2, <3>1, <3>2, <3>3 DEF SelectFunction
  <2>3. CASE Execute(t)
    BY <1>2, <2>3 DEF TypeOK, LockInv, Execute, ExecuteTile, EndOfList,
       ExecuteWhole, Relock, Goto
  <2>4. CASE Conclude(t)
    BY <1>2, <2>4 DEF TypeOK, LockInv, Conclude, NextEmptyTile,
       FinishEmptyTile, FinishEmptyList, Retry, Finish, Goto, BroadcastAndGoto
  <2> QED
    BY <2>1, <2>2, <2>3, <2>4 DEF Step
<1> QED
  BY <1>1, <1>2

LEMMA EmptyStep ==
  ASSUME TypeOK, EmptyInv, NEW t \in Threads, Step(t)
  PROVE  EmptyInv'
<1> SUFFICES ASSUME NEW s \in Threads, pc'[s] = "emptyTile"
             PROVE  empties'[s] # <<>>
  BY DEF EmptyInv
<1>1. CASE s # t
  BY <1>1, OthersKept DEF EmptyInv
<1>2. CASE s = t
  <2>1. CASE UpdateStatus(t)
    BY <1>2, <2>1 DEF TypeOK, UpdateStatus, Enter, NothingToFlush,
       FoundDeferred, FoundExecuting, Wake, Goto
  <2>2. CASE SelectFunction(t)
    BY <1>2, <2>2 DEF TypeOK, SelectFunction, UseFunction, FindFunction,
       RejectMolecule, NoListForMolecule, SwitchToAlternateOp, GiveUp, SyncDevice,
       MarkTilesAndGo,
       Goto, BroadcastAndGoto
  <2>3. CASE Execute(t)
    BY <1>2, <2>3 DEF TypeOK, Execute, ExecuteTile, EndOfList, ExecuteWhole,
       Relock, Goto
  <2>4. CASE Conclude(t)
    BY <1>2, <2>4 DEF TypeOK, Conclude, NextEmptyTile, FinishEmptyTile,
       FinishEmptyList, Retry, Finish, Goto, BroadcastAndGoto, threadVars
  <2> QED
    BY <2>1, <2>2, <2>3, <2>4 DEF Step
<1> QED
  BY <1>1, <1>2

LEMMA FuncStep ==
  ASSUME TypeOK, FuncInv, NEW t \in Threads, Step(t)
  PROVE  FuncInv'
<1> USE DEF funcVars, FuncInv
<1>1. CASE UpdateStatus(t)
  BY <1>1 DEF UpdateStatus, Enter, NothingToFlush, FoundDeferred,
     FoundExecuting, Wake
<1>2. CASE SelectFunction(t)
  <2>1. CASE UseFunction(t) \/ FindFunction(t) \/ NoListForMolecule(t)
    BY <2>1 DEF UseFunction, FindFunction, NoListForMolecule
  <2>2. CASE RejectMolecule(t) \/ SwitchToAlternateOp(t) \/ GiveUp(t) \/ SyncDevice(t)
    BY <2>2 DEF RejectMolecule, SwitchToAlternateOp, GiveUp, SyncDevice
  <2> QED
    BY <1>2, <2>1, <2>2 DEF SelectFunction
<1>3. CASE Execute(t)
  BY <1>3 DEF Execute, ExecuteTile, EndOfList, ExecuteWhole, Relock
<1>4. CASE Conclude(t)
  BY <1>4 DEF Conclude, NextEmptyTile, FinishEmptyTile, FinishEmptyList,
     Retry, Finish
<1> QED
  BY <1>1, <1>2, <1>3, <1>4 DEF Step

\* Only a thread that selects a function or enters changes its list.
LEMMA OwnList ==
  ASSUME TypeOK, NEW t \in Threads, Step(t), ~Enter(t), pc[t] # "select"
  PROVE  whole'[t] = whole[t] /\ TileList(t)' = TileList(t)
<1> USE DEF threadVars
<1>1. CASE UpdateStatus(t)
  BY <1>1 DEF UpdateStatus, NothingToFlush, FoundDeferred, FoundExecuting, Wake,
     TileList, ListOf
<1>2. CASE SelectFunction(t)
  BY <1>2 DEF SelectFunction, UseFunction, FindFunction, RejectMolecule, NoListForMolecule,
     SwitchToAlternateOp, GiveUp, SyncDevice, TileList, ListOf
<1>3. CASE Execute(t)
  BY <1>3 DEF Execute, ExecuteTile, EndOfList, ExecuteWhole, Relock, TileList,
     ListOf
<1>4. CASE Conclude(t)
  BY <1>4 DEF Conclude, NextEmptyTile, FinishEmptyTile, FinishEmptyList, Retry,
     Finish, TileList, ListOf
<1> QED
  BY <1>1, <1>2, <1>3, <1>4 DEF Step

LEMMA ListStep ==
  ASSUME TypeOK, FuncInv, ListInv, NEW t \in Threads, Step(t)
  PROVE  ListInv'
<1> SUFFICES ASSUME NEW s \in Threads,
                    pc'[s] \in Marked \/ (pc'[s] = "select" /\ pos'[s] # 1)
             PROVE  \A k \in DOMAIN TileList(s)' : ~Deferred(TileList(s)[k])'
  BY DEF ListInv
<1>1. \A k \in DOMAIN TileList(s) : TileList(s)[k] \in Tiles
  BY ListTyped DEF TypeOK, TileList
<1>2. ASSUME pc[s] \in Marked \/ (pc[s] = "select" /\ pos[s] # 1),
             TileList(s)' = TileList(s)
      PROVE  \A k \in DOMAIN TileList(s)' : ~Deferred(TileList(s)[k])'
  BY <1>1, <1>2, StatusMonotone DEF ListInv
<1>3. CASE s # t
  <2>1. /\ pc'[s] = pc[s] \/ pc'[s] = "awake"
        /\ pos'[s] = pos[s] /\ TileList(s)' = TileList(s)
    BY <1>3, OthersKept
  <2> QED
    BY <1>2, <2>1 DEF Marked
<1>4. CASE s = t
  <2>1. CASE UseFunction(t) \/ FindFunction(t)
    <3>1. pc[t] = "select"
      BY <2>1 DEF UseFunction, FindFunction
    <3>2. PICK n \in {0} \cup Chains, all \in BOOLEAN : MarkTilesAndGo(t, n, all)
      BY <2>1, SelectMarks
    <3> QED
      BY <1>4, <3>1, <3>2, Marking
  <2>2. CASE RejectMolecule(t) \/ SwitchToAlternateOp(t)
    <3>1. UNCHANGED <<pc, pos, whole>>
      BY <2>2 DEF RejectMolecule, SwitchToAlternateOp, threadVars
    <3>2. TileList(s)' = TileList(s)
      BY <3>1 DEF TileList, ListOf
    <3> QED
      BY <1>2, <3>1, <3>2
  <2>3. CASE UpdateStatus(t)
    BY <1>4, <2>3 DEF TypeOK, UpdateStatus, Enter, NothingToFlush, FoundDeferred,
       FoundExecuting, Wake, Goto, Marked
  <2>4. CASE GiveUp(t) \/ NoListForMolecule(t)
    BY <1>4, <2>4 DEF TypeOK, GiveUp, NoListForMolecule, Goto, BroadcastAndGoto, Marked
  <2>5. CASE SyncDevice(t) \/ Execute(t) \/ Conclude(t)
    <3>1. pc[t] \in Marked /\ ~Enter(t) /\ pc[t] # "select"
      BY <2>5 DEF SyncDevice, Execute, ExecuteTile, EndOfList, ExecuteWhole,
         Relock, Conclude, NextEmptyTile, FinishEmptyTile, FinishEmptyList,
         Retry, Finish, Enter, Marked
    <3>2. TileList(t)' = TileList(t)
      BY <3>1, OwnList
    <3> QED
      BY <1>2, <1>4, <3>1, <3>2
  <2> QED
    BY <2>1, <2>2, <2>3, <2>4, <2>5 DEF Step, SelectFunction
<1> QED
  BY <1>3, <1>4

LEMMA SleepStep ==
  ASSUME TypeOK, SleepInv, FuncInv, NEW t \in Threads, Step(t)
  PROVE  SleepInv'
<1> SUFFICES ASSUME NEW s \in Threads, pc'[s] \in {"asleep", "awake"}
             PROVE  /\ pos'[s] \in DOMAIN TileList(s)'
                    /\ ~Deferred(TileList(s)[pos[s]])'
                    /\ pc'[s] = "asleep"
                         => opStatusOf'[TileList(s)'[pos'[s]]] = "executing"
  BY DEF SleepInv
<1> DEFINE i == TileList(s)[pos[s]]
<1>1. /\ TileList(s) \in Seq(Tiles) /\ DOMAIN TileList(s) = 1..Len(TileList(s))
      /\ \A k \in DOMAIN TileList(s) : TileList(s)[k] \in Tiles
  BY ListTyped DEF TypeOK, TileList
<1>2. CASE s # t
  <2>1. /\ pc[s] \in {"asleep", "awake"}
        /\ pc'[s] = "asleep" => pc[s] = "asleep"
        /\ pos'[s] = pos[s] /\ TileList(s)' = TileList(s)
    BY <1>2, OthersKept
  <2>2. pos[s] \in DOMAIN TileList(s) /\ ~Deferred(i) /\ i \in Tiles
    BY <1>1, <2>1 DEF SleepInv
  <2>3. opStatusOf'[i] # "deferred"
    BY <2>2, StatusMonotone DEF Deferred
  <2>4. ASSUME pc'[s] = "asleep" PROVE opStatusOf'[i] = "executing"
    <3>1. opStatusOf[i] = "executing"
      BY <2>1, <2>4 DEF SleepInv
    <3> QED
      BY <1>2, <2>2, <2>4, <3>1, BroadcastWakes
  <2> QED
    BY <2>1, <2>2, <2>3, <2>4 DEF Deferred
<1>3. CASE s = t
  <2>1. FoundExecuting(t) \/ Wake(t)
    <3>1. CASE UpdateStatus(t)
      BY <1>3, <3>1 DEF TypeOK, UpdateStatus, Enter, NothingToFlush,
         FoundDeferred, Goto
    <3>2. CASE SelectFunction(t)
      <4>1. ~UseFunction(t) /\ ~FindFunction(t)
        BY <1>3, SelectMarks
      <4> QED
        BY <1>3, <3>2, <4>1 DEF TypeOK, SelectFunction, RejectMolecule, NoListForMolecule,
           SwitchToAlternateOp, GiveUp, SyncDevice, Goto, BroadcastAndGoto
    <3>3. CASE Execute(t)
      BY <1>3, <3>3 DEF TypeOK, Execute, ExecuteTile, EndOfList, ExecuteWhole,
         Relock, Goto
    <3>4. CASE Conclude(t)
      BY <1>3, <3>4 DEF TypeOK, Conclude, NextEmptyTile, FinishEmptyTile,
         FinishEmptyList, Retry, Finish, Goto, BroadcastAndGoto
    <3> QED
      BY <3>1, <3>2, <3>3, <3>4 DEF Step
  <2>2. UNCHANGED <<whole, opStatusOf>> /\ TileList(s)' = TileList(s)
    BY <2>1 DEF FoundExecuting, Wake, TileList, ListOf
  <2>3. CASE FoundExecuting(t)
    <3>1. PICK k \in DOMAIN TileList(t) :
             opStatusOf[TileList(t)[k]] = "executing" /\ pos' = [pos EXCEPT ![t] = k]
      BY <2>3 DEF FoundExecuting
    <3>2. pos'[t] = k
      BY <3>1 DEF TypeOK
    <3> QED
      BY <1>3, <2>2, <3>1, <3>2 DEF Deferred
  <2>4. CASE Wake(t)
    <3>1. pc[t] = "awake" /\ opStatusOf[i] # "evaluated" /\ pos'[t] = pos[t]
      BY <1>3, <2>4 DEF Wake, Goto, TypeOK
    <3>2. pos[t] \in DOMAIN TileList(t) /\ ~Deferred(i) /\ i \in Tiles
      BY <1>1, <1>3, <3>1 DEF SleepInv
    <3>3. opStatusOf[i] = "executing"
      BY <3>1, <3>2 DEF TypeOK, Deferred
    <3> QED
      BY <1>3, <2>2, <3>1, <3>2, <3>3 DEF Deferred
  <2> QED
    BY <2>1, <2>3, <2>4
<1> QED
  BY <1>2, <1>3

\* The list of all tiles names every tile.
LEMMA WholeList ==
  ASSUME TypeOK, ListInv, NEW t \in Threads, pc[t] \in Marked, whole[t],
         NEW i \in Tiles
  PROVE  ~Deferred(i)
<1>1. \E k \in DOMAIN TileList(t) : TileList(t)[k] = i
  BY ListTyped DEF TypeOK, TileList
<1> QED
  BY <1>1 DEF ListInv

LEMMA CacheStep ==
  ASSUME TypeOK, LockInv, FuncInv, ListInv, CacheInv, NEW t \in Threads, Step(t)
  PROVE  CacheInv'
<1> USE DEF funcVars
<1>1. UNCHANGED NoSplit
  BY OperationKept DEF Step
<1>2. ASSUME "list" \notin Failures, funcDef' > 1, funcDef' \in NoSplit, NEW i \in Tiles
      PROVE  ~Deferred(i)'
  <2>1. CASE UseFunction(t) \/ FindFunction(t)
    <3>1. PICK n \in {0} \cup Chains, all \in BOOLEAN :
             /\ MarkTilesAndGo(t, n, all)
             /\ funcDef' = n
             /\ funcDef # 0 => funcDef = n
             /\ funcDef = 0 /\ n > 1 /\ n \in NoSplit => all
      BY <2>1, SelectedFunction
    <3>2. CASE funcDef # 0
      BY <1>2, <3>1, <3>2, StatusMonotone DEF CacheInv
    <3>3. CASE funcDef = 0
      <4>1. all /\ pc[t] = "select"
        BY <1>2, <2>1, <3>1, <3>3 DEF UseFunction, FindFunction
      <4>2. \A k \in DOMAIN TileList(t)' : ~Deferred(TileList(t)[k])'
        BY <3>1, <4>1, Marking
      <4>3. whole'[t] = TRUE
        BY <3>1, <4>1, MarkTyped DEF TypeOK
      <4>4. TileList(t)' = ListOf(t, TRUE)
        BY <4>3 DEF TileList, ListOf
      <4>5. \E k \in DOMAIN ListOf(t, TRUE) : ListOf(t, TRUE)[k] = i
        BY ListTyped
      <4> QED
        BY <4>2, <4>4, <4>5
    <3> QED
      BY <3>2, <3>3
  <2>2. CASE ~UseFunction(t) /\ ~FindFunction(t)
    <3>1. funcDef' \in {funcDef, 0}
      BY <1>2, <2>2 DEF Step, UpdateStatus, Enter, NothingToFlush, FoundDeferred,
         FoundExecuting, Wake, SelectFunction, RejectMolecule, NoListForMolecule,
         NoListOfAll, SwitchToAlternateOp, GiveUp, SyncDevice, Execute, ExecuteTile,
         EndOfList, ExecuteWhole, Relock, Conclude, NextEmptyTile,
         FinishEmptyTile, FinishEmptyList, Retry, Finish
    <3> QED
      BY <1>2, <3>1, StatusMonotone DEF CacheInv
  <2> QED
    BY <2>1, <2>2
<1>3. ASSUME NEW s \in Threads, pc'[s] = "select", funcDef' # 0
      PROVE  \E i \in Tiles : Deferred(i)'
  <2>1. CASE s # t
    <3>1. pc[s] = "select" /\ mutex = s
      BY <1>3, <2>1, OthersKept DEF LockInv
    <3>2. UNCHANGED <<opStatusOf, funcDef>>
      BY <2>1, <3>1, MutexExcludes
    <3> QED
      BY <1>3, <3>1, <3>2 DEF CacheInv, Deferred
  <2>2. CASE s = t
    <3>1. CASE FoundDeferred(t)
      <4>1. PICK k \in DOMAIN TileList(t) : NeedsFlush(t, k)
        BY <3>1 DEF FoundDeferred
      <4>2. TileList(t)[k] \in Tiles
        BY ListTyped DEF TypeOK, TileList
      <4> QED
        BY <3>1, <4>1, <4>2 DEF FoundDeferred, NeedsFlush, Deferred
    <3>2. CASE UpdateStatus(t) /\ ~FoundDeferred(t)
      BY <1>3, <2>2, <3>2 DEF TypeOK, UpdateStatus, Enter, NothingToFlush,
         FoundExecuting, Wake, Goto
    <3>3. CASE SelectFunction(t)
      <4>1. ~UseFunction(t) /\ ~FindFunction(t)
        BY <1>3, <2>2, SelectMarks
      <4> QED
        BY <1>3, <2>2, <3>3, <4>1 DEF TypeOK, SelectFunction, RejectMolecule,
           NoListForMolecule,
           SwitchToAlternateOp, GiveUp, SyncDevice, Goto, BroadcastAndGoto
    <3>4. CASE Execute(t)
      BY <1>3, <2>2, <3>4 DEF TypeOK, Execute, ExecuteTile, EndOfList,
         ExecuteWhole, Relock, Goto
    <3>5. CASE Conclude(t)
      BY <1>3, <2>2, <3>5 DEF TypeOK, Conclude, NextEmptyTile, FinishEmptyTile,
         FinishEmptyList, Retry, Finish, Goto, BroadcastAndGoto
    <3> QED
      BY <3>1, <3>2, <3>3, <3>4, <3>5 DEF Step
  <2> QED
    BY <2>1, <2>2
<1> QED
  BY <1>1, <1>2, <1>3 DEF CacheInv

LEMMA WholeStep ==
  ASSUME TypeOK, LockInv, FuncInv, ListInv, WholeInv, NEW t \in Threads, Step(t)
  PROVE  WholeInv'
<1>1. UNCHANGED NoSplit
  BY OperationKept DEF Step
<1> SUFFICES ASSUME 1 \in NoSplit
             PROVE  /\ \A s \in Threads : pc'[s] \notin {"idle", "returned"} => whole'[s]
                    /\ \A s, u \in Threads : pc'[s] \in InFlush /\ pc'[u] \in InFlush
                                                => s = u
  BY <1>1 DEF WholeInv
<1>2. ASSUME NEW s \in Threads, pc'[s] \notin {"idle", "returned"} PROVE whole'[s]
  <2>1. CASE s # t
    <3>1. whole'[s] = whole[s] /\ pc[s] \notin {"idle", "returned"}
      BY <1>2, <2>1, OthersKept
    <3> QED
      BY <3>1 DEF WholeInv
  <2>2. CASE s = t
    <3>1. CASE Enter(t)
      BY <1>2, <2>2, <3>1 DEF Enter, Goto, TypeOK
    <3>2. CASE UseFunction(t) \/ FindFunction(t)
      <4>1. PICK n \in {0} \cup Chains, all \in BOOLEAN :
               MarkTilesAndGo(t, n, all) /\ (whole[t] => all)
        BY <3>2, SelectedFunction
      <4>2. whole[t]
        BY <3>2 DEF UseFunction, FindFunction, WholeInv
      <4>3. whole' = [whole EXCEPT ![t] = all]
        BY <4>1 DEF MarkTilesAndGo
      <4> QED
        BY <2>2, <4>1, <4>2, <4>3 DEF TypeOK
    <3>3. CASE ~Enter(t) /\ ~UseFunction(t) /\ ~FindFunction(t)
      <4>1. whole' = whole /\ pc[t] \notin {"idle", "returned"}
        BY <3>3 DEF Step, UpdateStatus, NothingToFlush, FoundDeferred,
         FoundExecuting, Wake, SelectFunction, RejectMolecule, NoListForMolecule,
         SwitchToAlternateOp, GiveUp, SyncDevice, Execute, ExecuteTile,
         EndOfList, ExecuteWhole, Relock, Conclude, NextEmptyTile,
         FinishEmptyTile, FinishEmptyList, Retry, Finish, threadVars
      <4> QED
        BY <2>2, <4>1 DEF WholeInv
    <3> QED
      BY <3>1, <3>2, <3>3
  <2> QED
    BY <2>1, <2>2
<1>3. ASSUME NEW u \in Threads \ {t}, pc'[t] \in InFlush, pc'[u] \in InFlush
      PROVE  FALSE
  <2>1. pc[u] \in InFlush
    BY <1>3, OthersKept DEF InFlush
  <2>2. pc[t] \notin InFlush
    BY <2>1 DEF WholeInv
  <2>3. FoundDeferred(t)
    <3>1. CASE UpdateStatus(t)
      BY <1>3, <3>1 DEF TypeOK, UpdateStatus, Enter, NothingToFlush,
         FoundExecuting, Wake, Goto, InFlush
    <3>2. CASE SelectFunction(t) \/ Execute(t) \/ Conclude(t)
      BY <2>2, <3>2 DEF InFlush, SelectFunction, UseFunction, FindFunction,
         RejectMolecule, NoListForMolecule, SwitchToAlternateOp, GiveUp, SyncDevice,
         Execute,
         ExecuteTile, EndOfList, ExecuteWhole, Relock, Conclude, NextEmptyTile,
         FinishEmptyTile, FinishEmptyList, Retry, Finish
    <3> QED
      BY <3>1, <3>2 DEF Step
  <2>4. PICK k \in DOMAIN TileList(t) : NeedsFlush(t, k)
    BY <2>3 DEF FoundDeferred
  <2>5. TileList(t)[k] \in Tiles /\ Deferred(TileList(t)[k])
    BY <2>4, ListTyped DEF TypeOK, TileList, NeedsFlush, Deferred
  <2>6. CASE pc[u] = "select"
    BY <2>3, <2>6 DEF LockInv, FoundDeferred
  <2>7. CASE pc[u] # "select"
    <3>1. pc[u] \in Marked /\ whole[u]
      BY <2>1, <2>7 DEF InFlush, Marked, WholeInv
    <3> QED
      BY <2>5, <3>1, WholeList
  <2> QED
    BY <2>6, <2>7
<1>4. ASSUME NEW s \in Threads \ {t}, NEW u \in Threads \ {t},
             pc'[s] \in InFlush, pc'[u] \in InFlush
      PROVE  s = u
  <2>1. pc[s] \in InFlush /\ pc[u] \in InFlush
    BY <1>4, OthersKept DEF InFlush
  <2> QED
    BY <2>1 DEF WholeInv
<1> QED
  BY <1>2, <1>3, <1>4

LEMMA ExecStep ==
  ASSUME TypeOK, FuncInv, CacheInv, WholeInv, ExecInv, NEW t \in Threads, Step(t)
  PROVE  ExecInv'
<1>1. UNCHANGED NoSplit
  BY OperationKept DEF Step
<1> SUFFICES ASSUME "list" \notin Failures,
                    NEW s \in Threads, pc'[s] \in {"device", "execute"},
                    length'[s] \in NoSplit
             PROVE  whole'[s]
  BY <1>1 DEF ExecInv
<1>2. CASE s # t
  BY <1>2, OthersKept DEF ExecInv
<1>3. CASE s = t /\ (UseFunction(t) \/ FindFunction(t))
  <2>1. PICK n \in {0} \cup Chains, all \in BOOLEAN :
            /\ MarkTilesAndGo(t, n, all)
            /\ n # 0
            /\ funcDef # 0 => funcDef = n /\ all = whole[t]
            /\ whole[t] => all
            /\ funcDef = 0 /\ n > 1 /\ n \in NoSplit => all
    BY <1>3, SelectedFunction
  <2>2. length' = [length EXCEPT ![t] = n] /\ whole' = [whole EXCEPT ![t] = all]
    BY <2>1 DEF MarkTilesAndGo
  <2>3. n \in NoSplit /\ pc[t] = "select"
    BY <1>3, <2>2 DEF TypeOK, UseFunction, FindFunction
  <2>4. all
    <3>1. CASE n = 1
      BY <2>1, <2>3, <3>1 DEF WholeInv
    <3>2. CASE n > 1
      BY <2>1, <2>3, <3>2 DEF CacheInv
    <3>3. n \in Nat
      BY <2>1, OperationTyped, FlushAssumption
    <3> QED
      BY <2>1, <3>1, <3>2, <3>3
  <2> QED
    BY <1>3, <2>2, <2>4 DEF TypeOK
<1>4. CASE s = t /\ ~UseFunction(t) /\ ~FindFunction(t)
  <2>1. pc[t] \in {"device", "execute"} /\ UNCHANGED <<length, whole>>
    <3>1. CASE UpdateStatus(t)
      BY <1>4, <3>1 DEF TypeOK, UpdateStatus, Enter, NothingToFlush,
         FoundDeferred, FoundExecuting, Wake, Goto
    <3>2. CASE SelectFunction(t)
      BY <1>4, <3>2 DEF TypeOK, SelectFunction, RejectMolecule, NoListForMolecule,
         SwitchToAlternateOp, GiveUp, SyncDevice, Goto, BroadcastAndGoto
    <3>3. CASE Execute(t)
      BY <1>4, <3>3 DEF TypeOK, Execute, ExecuteTile, EndOfList, ExecuteWhole,
         Relock, Goto
    <3>4. CASE Conclude(t)
      BY <1>4, <3>4 DEF TypeOK, Conclude, NextEmptyTile, FinishEmptyTile,
         FinishEmptyList, Retry, Finish, Goto, BroadcastAndGoto
    <3> QED
      BY <3>1, <3>2, <3>3, <3>4 DEF Step
  <2> QED
    BY <1>4, <2>1 DEF ExecInv
<1> QED
  BY <1>2, <1>3, <1>4
----------------------------------------------------------------------------
\* The invariant

LEMMA InvInit == Init => IInv
<1> SUFFICES ASSUME Init PROVE IInv
  OBVIOUS
<1>1. TypeOK
  BY TypeInit
<1>2. \A t \in Threads : pc[t] = "idle"
  BY DEF Init
<1>3. funcDef = 0
  BY DEF Init
<1>4. LockInv /\ EmptyInv /\ FuncInv /\ ListInv /\ SleepInv /\ ExecInv
  BY <1>2, <1>3 DEF LockInv, EmptyInv, FuncInv, ListInv, SleepInv, ExecInv, Marked
<1>5. CacheInv
  BY <1>2, <1>3 DEF CacheInv
<1>6. WholeInv
  BY <1>2 DEF WholeInv, InFlush
<1> QED
  BY <1>1, <1>4, <1>5, <1>6 DEF IInv

\* A wakeup without a broadcast changes where the thread is, nothing else.
LEMMA SpuriousStep ==
  ASSUME IInv, NEW t \in Threads, SpuriousWakeup(t), TypeOK'
  PROVE  IInv'
<1> USE DEF IInv
<1>1. /\ UNCHANGED <<operation, mutex, whole, pos, length, empties, opStatusOf,
                     funcDef, funcLength>>
      /\ pc'[t] = "awake" /\ pc[t] = "asleep"
      /\ \A s \in Threads \ {t} : pc'[s] = pc[s]
  BY DEF SpuriousWakeup, threadVars, funcVars, Goto, TypeOK
<1>2. UNCHANGED NoSplit /\ \A s : TileList(s)' = TileList(s)
  BY <1>1, OperationKept DEF TileList, ListOf
<1>3. LockInv'
  BY <1>1 DEF LockInv
<1>4. EmptyInv' /\ FuncInv'
  BY <1>1 DEF EmptyInv, FuncInv
<1>5. ListInv'
  BY <1>1, <1>2 DEF ListInv, Marked, Deferred
<1>6. SleepInv'
  BY <1>1, <1>2 DEF SleepInv, Deferred
<1>7. CacheInv'
  BY <1>1, <1>2 DEF CacheInv, Deferred
<1>8. WholeInv'
  BY <1>1, <1>2 DEF WholeInv, InFlush
<1>9. ExecInv'
  BY <1>1, <1>2 DEF ExecInv
<1> QED
  BY <1>3, <1>4, <1>5, <1>6, <1>7, <1>8, <1>9

LEMMA InvStep ==
  ASSUME IInv, [Next]_vars
  PROVE  IInv'
<1>1. TypeOK'
  BY TypeStep DEF IInv
<1>2. CASE UNCHANGED vars
  <2>1. UNCHANGED <<operation, pc, mutex, whole, pos, length, empties,
                    opStatusOf, funcDef, funcLength>>
    BY <1>2 DEF vars, threadVars, funcVars
  <2>2. UNCHANGED NoSplit /\ \A s : TileList(s)' = TileList(s)
    BY <2>1, OperationKept DEF TileList, ListOf
  <2> QED
    BY <1>1, <2>1, <2>2 DEF IInv, LockInv, EmptyInv, FuncInv, ListInv, SleepInv,
       CacheInv, WholeInv, ExecInv, Deferred
<1>3. ASSUME NEW t \in Threads, Step(t) PROVE IInv'
  BY <1>1, <1>3, LockStep, EmptyStep, FuncStep, ListStep, SleepStep, CacheStep,
     WholeStep, ExecStep DEF IInv
<1>4. ASSUME NEW t \in Threads, SpuriousWakeup(t) PROVE IInv'
  BY <1>1, <1>4, SpuriousStep
<1> QED
  BY <1>2, <1>3, <1>4 DEF Next, AllReturned

\* The inductive invariant holds in every behaviour of flush().
THEOREM InvCorrect == Spec => []IInv
<1>1. Init => IInv
  BY InvInit
<1>2. IInv /\ [Next]_vars => IInv'
  BY InvStep
<1> QED
  BY <1>1, <1>2, PTL DEF Spec

\* The variables of flush() keep their types, for any number of threads,
\* tiles and functions.
THEOREM TypeCorrect == Spec => []TypeOK
<1>1. IInv => TypeOK
  BY DEF IInv
<1> QED
  BY <1>1, InvCorrect, PTL

\* can_be_split in flush(): a function that cannot be split is executed for
\* the whole destination, also by a thread that uses what another has found, as
\* long as there is memory for the list of all tiles.
THEOREM NoSplitCorrect ==
  ASSUME "list" \notin Failures
  PROVE  Spec => []NoSplitRespected
<1>1. IInv => NoSplitRespected
  BY DEF IInv, ExecInv, NoSplitRespected
<1> QED
  BY <1>1, InvCorrect, PTL

\* makeTileListForEntireDst() and updateStatus(): an operation that cannot be
\* split is executed by one thread at a time.
THEOREM OneExecutesWholeCorrect == Spec => []OneExecutesWhole
<1>1. IInv => OneExecutesWhole
  BY DEF IInv, WholeInv, OneExecutesWhole, InFlush
<1> QED
  BY <1>1, InvCorrect, PTL

\* setOpStatus(), getOpStatus() and opStatusCondVar: no thread sleeps for a
\* tile that is not being executed.
THEOREM SleepersCorrect == Spec => []SleepersHaveReason
<1>1. IInv => SleepersHaveReason
  BY DEF IInv, SleepInv, SleepersHaveReason
<1> QED
  BY <1>1, InvCorrect, PTL
----------------------------------------------------------------------------
\* References, one thread for every tile, and the contract of flush()

\* The places at which a thread holds a reference to the operation
Held == InFlush \cup {"asleep", "awake"}
Holders == {t \in Threads : pc[t] \in Held}

LEMMA HolderStep ==
  ASSUME TypeOK, FuncInv, "sync" \notin Failures, "list" \notin Failures,
         NEW t \in Threads, Step(t)
  PROVE  \/ pc[t] \notin Held /\ pc'[t] \in Held /\ refCount' = refCount + 1
         \/ pc[t] \in Held /\ pc'[t] \notin Held /\ refCount' = refCount - 1
         \/ (pc[t] \in Held <=> pc'[t] \in Held) /\ refCount' = refCount
<1> USE DEF Held, InFlush, opVars
<1>1. CASE UpdateStatus(t)
  BY <1>1 DEF TypeOK, UpdateStatus, Enter, NoListOfAll, NothingToFlush, FoundDeferred,
     FoundExecuting, Wake, Goto, Aquire, Release
<1>2. CASE UseFunction(t) \/ FindFunction(t)
  <2>1. pc[t] = "select" /\ refCount' = refCount
    BY <1>2 DEF UseFunction, FindFunction
  <2> QED
    BY <1>2, <2>1, SelectMarks
<1>3. CASE SelectFunction(t) /\ ~UseFunction(t) /\ ~FindFunction(t)
  BY <1>3 DEF TypeOK, SelectFunction, RejectMolecule, NoListForMolecule, NoListOfAll,
     SwitchToAlternateOp,
     GiveUp, SyncDevice, Goto, BroadcastAndGoto, Release
<1>4. CASE Execute(t)
  BY <1>4 DEF TypeOK, Execute, ExecuteTile, EndOfList, ExecuteWhole, Relock, Goto
<1>5. CASE Conclude(t)
  BY <1>5 DEF TypeOK, Conclude, NextEmptyTile, FinishEmptyTile,
     FinishEmptyList, Retry, Finish, Goto, BroadcastAndGoto, Release
<1> QED
  BY <1>1, <1>2, <1>3, <1>4, <1>5 DEF Step

LEMMA ReferencesStep ==
  ASSUME TypeOK, FuncInv, ReferencesExact, "sync" \notin Failures,
         "list" \notin Failures, [Next]_vars
  PROVE  ReferencesExact'
<1>1. /\ IsFiniteSet(Threads) /\ Holders \in SUBSET Threads /\ refCount \in Int
      /\ refCount = Cardinality(Holders)
  BY FlushAssumption DEF Holders, Held, ReferencesExact, TypeOK
<1>2. IsFiniteSet(Holders) /\ Cardinality(Holders) \in Nat
  BY <1>1, FS_Subset, FS_CardinalityType
<1> SUFFICES refCount' = Cardinality(Holders')
  BY DEF Holders, Held, ReferencesExact
<1>3. CASE UNCHANGED vars
  BY <1>1, <1>3 DEF vars, opVars, Holders
<1>4. ASSUME NEW t \in Threads, SpuriousWakeup(t)
      PROVE  refCount' = Cardinality(Holders')
  <2>1. Holders' = Holders
    BY <1>4 DEF Holders, Held, SpuriousWakeup, Goto, TypeOK
  <2> QED
    BY <1>1, <1>4, <2>1 DEF SpuriousWakeup, opVars
<1>5. ASSUME NEW t \in Threads, Step(t)
      PROVE  refCount' = Cardinality(Holders')
  <2>1. \A s \in Threads \ {t} : pc'[s] \in Held <=> pc[s] \in Held
    BY <1>5, OthersKept DEF Held
  <2>2. CASE pc[t] \notin Held /\ pc'[t] \in Held /\ refCount' = refCount + 1
    <3>1. Holders' = Holders \cup {t} /\ t \notin Holders
      BY <2>1, <2>2 DEF Holders
    <3> QED
      BY <1>1, <1>2, <2>2, <3>1, FS_AddElement
  <2>3. CASE pc[t] \in Held /\ pc'[t] \notin Held /\ refCount' = refCount - 1
    <3>1. Holders' = Holders \ {t} /\ t \in Holders
      BY <2>1, <2>3 DEF Holders
    <3> QED
      BY <1>1, <1>2, <2>3, <3>1, FS_RemoveElement
  <2>4. CASE (pc[t] \in Held <=> pc'[t] \in Held) /\ refCount' = refCount
    <3>1. Holders' = Holders
      BY <2>1, <2>4 DEF Holders
    <3> QED
      BY <1>1, <2>4, <3>1
  <2> QED
    BY <1>5, <2>2, <2>3, <2>4, HolderStep
<1> QED
  BY <1>3, <1>4, <1>5 DEF Next, AllReturned

\* aquire() and release() in updateStatus(), flush() and finishEmptyFlush():
\* the reference count is the number of threads that hold a reference, unless
\* syncForWriting() fails or there is no memory for the list of all tiles.
THEOREM ReferencesCorrect ==
  ASSUME "sync" \notin Failures, "list" \notin Failures
  PROVE  Spec => []ReferencesExact
<1>1. Init => ReferencesExact
  <2>1. Init => Holders = {} /\ refCount = 0
    BY DEF Init, Holders, Held, InFlush
  <2> QED
    BY <2>1, FS_EmptySet DEF ReferencesExact, Holders, Held
<1>2. IInv /\ ReferencesExact /\ [Next]_vars => ReferencesExact'
  BY ReferencesStep DEF IInv
<1> QED
  BY <1>1, <1>2, InvCorrect, PTL DEF Spec
----------------------------------------------------------------------------
\* No tile is left executing

Listed(t) == {TileList(t)[n] : n \in DOMAIN TileList(t)}

\* A thread that does not walk through its list is at the beginning of it.
PosInv ==
    \A t \in Threads :
        pc[t] \in {"idle"} \cup (InFlush \ {"execute"}) \/ (pc[t] = "execute" /\ whole[t])
            => pos[t] = 1

LEMMA TileListTyped ==
  ASSUME TypeOK, NEW t \in Threads
  PROVE  /\ TileList(t) \in Seq(Tiles) /\ Len(TileList(t)) \in Nat
         /\ DOMAIN TileList(t) = 1..Len(TileList(t))
         /\ DOMAIN TileList(t) \subseteq Nat \ {0}
         /\ \A k \in DOMAIN TileList(t) : TileList(t)[k] \in Tiles
         /\ pos[t] \in Nat \ {0}
<1>1. whole[t] \in BOOLEAN /\ pos[t] \in Nat \ {0}
  BY DEF TypeOK
<1>2. /\ TileList(t) \in Seq(Tiles) /\ Len(TileList(t)) \in Nat
      /\ DOMAIN TileList(t) = 1..Len(TileList(t))
      /\ \A k \in DOMAIN TileList(t) : TileList(t)[k] \in Tiles
  BY <1>1, ListTyped DEF TileList
<1> QED
  BY <1>1, <1>2

LEMMA RemainingListed ==
  ASSUME TypeOK, NEW t \in Threads, pos[t] = 1
  PROVE  Remaining(t) = Listed(t)
BY ListTyped DEF TypeOK, Remaining, Listed, TileList

LEMMA ListedTyped ==
  ASSUME TypeOK, NEW t \in Threads
  PROVE  Listed(t) \subseteq Tiles /\ (whole[t] => Listed(t) = Tiles)
<1>1. whole[t] \in BOOLEAN
  BY DEF TypeOK
<1>2. \A n \in DOMAIN TileList(t) : TileList(t)[n] \in Tiles
  BY <1>1, ListTyped DEF TileList
<1>3. whole[t] => \A i \in Tiles : \E n \in DOMAIN TileList(t) : TileList(t)[n] = i
  BY <1>1, ListTyped DEF TileList
<1> QED
  BY <1>2, <1>3 DEF Listed

\* The list a thread goes to the scheduler with names all tiles the former one
\* did and every tile the thread marks.
LEMMA MarkListed ==
  ASSUME TypeOK, FuncInv, NEW t \in Threads, pos[t] = 1,
         UseFunction(t) \/ FindFunction(t)
  PROVE  /\ Listed(t) \subseteq Listed(t)'
         /\ \A i \in Tiles : opStatusOf'[i] # opStatusOf[i] => i \in Listed(t)'
         /\ pos'[t] = 1
<1>1. PICK n \in {0} \cup Chains, all \in BOOLEAN :
         MarkTilesAndGo(t, n, all) /\ (whole[t] => all)
  BY SelectedFunction
<1>2. whole'[t] = all /\ pos'[t] = 1 /\ TileList(t)' = ListOf(t, all)
  <2>1. whole'[t] = all /\ pos'[t] = 1
    BY <1>1, MarkTyped DEF TypeOK
  <2> QED
    BY <2>1 DEF TileList, ListOf
<1>3. CASE all
  <2>1. \A i \in Tiles : \E k \in DOMAIN ListOf(t, all) : ListOf(t, all)[k] = i
    BY <1>3, ListTyped
  <2> QED
    BY <1>2, <2>1, ListedTyped DEF Listed
<1>4. CASE ~all
  <2>1. ListOf(t, all) = TileList(t)
    BY <1>1, <1>4 DEF TileList, TypeOK
  <2>2. SetOpStatus(Listed(t), "executing")
    BY <1>1, <2>1, RemainingListed DEF MarkTilesAndGo
  <2>3. \A i \in Tiles \ Listed(t) : opStatusOf'[i] = opStatusOf[i]
    BY <2>2, StatusTyped
  <2>4. Listed(t)' = Listed(t)
    BY <1>2, <2>1 DEF Listed
  <2> QED
    BY <1>2, <2>3, <2>4
<1> QED
  BY <1>3, <1>4

LEMMA PosStep ==
  ASSUME TypeOK, FuncInv, PosInv, ~Split, NEW t \in Threads, Step(t)
  PROVE  PosInv'
<1> SUFFICES ASSUME NEW s \in Threads,
                    \/ pc'[s] \in {"idle"} \cup (InFlush \ {"execute"})
                    \/ pc'[s] = "execute" /\ whole'[s]
             PROVE  pos'[s] = 1
  BY DEF PosInv
<1> USE DEF PosInv, InFlush, threadVars
<1>1. CASE s # t
  <2>1. pc'[s] = pc[s] /\ whole'[s] = whole[s] /\ pos'[s] = pos[s]
    BY <1>1, OthersKept
  <2> QED
    BY <2>1
<1>2. CASE s = t
  <2>1. CASE UpdateStatus(t)
    BY <1>2, <2>1 DEF TypeOK, UpdateStatus, Enter, NothingToFlush, FoundDeferred,
       FoundExecuting, Wake, Goto
  <2>2. CASE UseFunction(t) \/ FindFunction(t)
    <3>1. pos[t] = 1
      BY <2>2 DEF UseFunction, FindFunction
    <3> QED
      BY <1>2, <2>2, <3>1, MarkListed
  <2>3. CASE SelectFunction(t) /\ ~UseFunction(t) /\ ~FindFunction(t)
    BY <1>2, <2>3 DEF TypeOK, SelectFunction, RejectMolecule, NoListForMolecule,
       SwitchToAlternateOp, GiveUp, SyncDevice, Goto, BroadcastAndGoto
  <2>4. CASE Execute(t)
    BY <1>2, <2>4 DEF TypeOK, Execute, ExecuteTile, EndOfList, ExecuteWhole,
       Relock, Goto
  <2>5. CASE Conclude(t)
    BY <1>2, <2>5 DEF TypeOK, Conclude, NextEmptyTile, FinishEmptyTile,
       FinishEmptyList, Retry, Finish, Goto, BroadcastAndGoto
  <2> QED
    BY <2>1, <2>2, <2>3, <2>4, <2>5 DEF Step
<1> QED
  BY <1>1, <1>2

\* A flush ends by marking all of its list as evaluated.
LEMMA LeaveMarks ==
  ASSUME TypeOK, FuncInv, PosInv, Failures = {}, NEW t \in Threads, Step(t),
         pc[t] \in InFlush, pc'[t] \notin InFlush
  PROVE  /\ GiveUp(t) \/ FinishEmptyList(t) \/ Finish(t)
         /\ \A i \in Listed(t) : opStatusOf'[i] = "evaluated"
<1>1. GiveUp(t) \/ FinishEmptyList(t) \/ Finish(t)
  <2>1. CASE UpdateStatus(t)
    BY <2>1 DEF UpdateStatus, Enter, NoListOfAll, NothingToFlush, FoundDeferred,
       FoundExecuting, Wake, InFlush
  <2>2. CASE SelectFunction(t)
    <3>1. ~UseFunction(t) /\ ~FindFunction(t)
      BY SelectMarks DEF InFlush
    <3> QED
      BY <2>2, <3>1 DEF TypeOK, SelectFunction, RejectMolecule, NoListForMolecule,
         NoListOfAll,
         SwitchToAlternateOp, SyncDevice, Goto, InFlush
  <2>3. CASE Execute(t)
    BY <2>3 DEF TypeOK, Execute, ExecuteTile, EndOfList, ExecuteWhole, Relock,
       Goto, InFlush
  <2>4. CASE Conclude(t)
    BY <2>4 DEF TypeOK, Conclude, NextEmptyTile, FinishEmptyTile, Retry, Goto,
       BroadcastAndGoto, InFlush
  <2> QED
    BY <2>1, <2>2, <2>3, <2>4 DEF Step
<1>2. pos[t] = 1
  BY <1>1 DEF PosInv, GiveUp, FinishEmptyList, Finish, InFlush
<1>3. SetOpStatus(Listed(t), "evaluated")
  BY <1>1, <1>2, RemainingListed DEF GiveUp, FinishEmptyList, Finish
<1> QED
  BY <1>1, <1>3, StatusTyped, ListedTyped

LEMMA OrphanStep ==
  ASSUME TypeOK, FuncInv, PosInv, NoOrphanTile, Failures = {},
         NEW t \in Threads, Step(t)
  PROVE  NoOrphanTile'
<1> SUFFICES ASSUME NEW i \in Tiles, opStatusOf'[i] = "executing"
             PROVE  \E s \in Threads : pc'[s] \in InFlush /\ i \in Listed(s)'
  BY DEF NoOrphanTile, Listed
<1>1. CASE opStatusOf[i] = "executing"
  <2>1. PICK s \in Threads : pc[s] \in InFlush /\ i \in Listed(s)
    BY <1>1 DEF NoOrphanTile, Listed
  <2>2. CASE s # t
    <3>1. pc'[s] = pc[s] /\ TileList(s)' = TileList(s)
      BY <2>1, <2>2, OthersKept DEF InFlush
    <3> QED
      BY <2>1, <3>1 DEF Listed
  <2>3. CASE s = t
    <3>1. pc'[t] \in InFlush
      BY <2>1, <2>3, LeaveMarks
    <3>2. i \in Listed(t)'
      <4>1. CASE UseFunction(t) \/ FindFunction(t)
        <5>1. pos[t] = 1
          BY <4>1 DEF UseFunction, FindFunction, PosInv, InFlush
        <5> QED
          BY <2>1, <2>3, <4>1, <5>1, MarkListed
      <4>2. CASE RejectMolecule(t) \/ SwitchToAlternateOp(t) \/ GiveUp(t)
                 \/ NoListForMolecule(t)
        <5>1. whole' = whole
          BY <4>2 DEF RejectMolecule, NoListForMolecule, NoListOfAll,
             SwitchToAlternateOp, GiveUp, threadVars
        <5> QED
          BY <2>1, <2>3, <5>1 DEF Listed, TileList, ListOf
      <4>3. CASE pc[t] # "select"
        <5>1. ~Enter(t)
          BY <2>1, <2>3 DEF Enter, InFlush
        <5> QED
          BY <2>1, <2>3, <4>3, <5>1, OwnList DEF Listed
      <4>4. CASE pc[t] = "select" /\ ~SelectFunction(t)
        BY <4>4 DEF Step, UpdateStatus, Enter, NoListOfAll, NothingToFlush, FoundDeferred,
           FoundExecuting, Wake, Execute, ExecuteTile, EndOfList, ExecuteWhole,
           Relock, Conclude, NextEmptyTile, FinishEmptyTile, FinishEmptyList,
           Retry, Finish
      <4>5. CASE SyncDevice(t)
        BY <4>3, <4>5 DEF SyncDevice
      <4> QED
        BY <4>1, <4>2, <4>3, <4>4, <4>5 DEF SelectFunction
    <3> QED
      BY <3>1, <3>2
  <2> QED
    BY <2>2, <2>3
<1>2. CASE opStatusOf[i] # "executing"
  <2>1. \A S : ~SetOpStatus(S, "evaluated") /\ ~UNCHANGED opStatusOf
    BY <1>2 DEF SetOpStatus
  <2>2. UseFunction(t) \/ FindFunction(t)
    BY <2>1 DEF Step, UpdateStatus, Enter, NoListOfAll, NothingToFlush, FoundDeferred,
       FoundExecuting, Wake, SelectFunction, RejectMolecule, NoListForMolecule, NoListOfAll,
       SwitchToAlternateOp, GiveUp, SyncDevice, Execute, ExecuteTile,
       EndOfList, ExecuteWhole, Relock, Conclude, NextEmptyTile,
       FinishEmptyTile, FinishEmptyList, Retry, Finish
  <2>3. pos[t] = 1
    BY <2>2 DEF UseFunction, FindFunction, PosInv, InFlush
  <2>4. i \in Listed(t)'
    BY <1>2, <2>2, <2>3, MarkListed
  <2> QED
    BY <2>2, <2>4, SelectMarks DEF InFlush
<1> QED
  BY <1>1, <1>2

LEMMA PosOrphanStep ==
  ASSUME TypeOK, FuncInv, PosInv, NoOrphanTile, ~Split, Failures = {}, [Next]_vars
  PROVE  PosInv' /\ NoOrphanTile'
<1>1. CASE UNCHANGED vars
  BY <1>1 DEF vars, threadVars, PosInv, NoOrphanTile, TileList, ListOf
<1>2. ASSUME NEW t \in Threads, SpuriousWakeup(t) PROVE PosInv' /\ NoOrphanTile'
  <2>1. /\ UNCHANGED <<whole, pos, opStatusOf>>
        /\ pc'[t] = "awake" /\ pc[t] = "asleep"
        /\ \A s \in Threads \ {t} : pc'[s] = pc[s]
    BY <1>2 DEF SpuriousWakeup, threadVars, Goto, TypeOK
  <2>2. PosInv'
    BY <2>1 DEF PosInv, InFlush
  <2>3. NoOrphanTile'
    BY <2>1 DEF NoOrphanTile, InFlush, TileList, ListOf
  <2> QED
    BY <2>2, <2>3
<1>3. ASSUME NEW t \in Threads, Step(t) PROVE PosInv' /\ NoOrphanTile'
  BY <1>3, PosStep, OrphanStep
<1> QED
  BY <1>1, <1>2, <1>3 DEF Next, AllReturned

LEMMA PosOrphanInit == Init => PosInv /\ NoOrphanTile
BY DEF Init, PosInv, NoOrphanTile

\* setOpStatus() at the end of flush() and finishEmptyFlush(): a tile that is
\* executing has a thread that will mark it as evaluated, when tiles are not
\* split among threads and syncForWriting() and generateBoxList() do not fail.
THEOREM NoOrphanCorrect ==
  ASSUME ~Split, Failures = {}
  PROVE  Spec => []NoOrphanTile
<1>1. Init => PosInv /\ NoOrphanTile
  BY PosOrphanInit
<1>2. IInv /\ PosInv /\ NoOrphanTile /\ [Next]_vars => PosInv' /\ NoOrphanTile'
  BY PosOrphanStep DEF IInv
<1> QED
  BY <1>1, <1>2, InvCorrect, PTL DEF Spec
----------------------------------------------------------------------------
\* flush() implements FlushContract

Ev == {i \in Tiles : opStatusOf[i] = "evaluated"}

\* Tiles another flush has taken care of, or that this one has computed
Done(i) == i \in Ev \/ i \in computed

\* A tile without area has nothing to compute.
AreaInv == \A i \in Tiles : Area[i] = "none" => i \in computed

\* The tiles behind a thread that executes without a failure are done, and all
\* are done when it comes back.
DoneInv ==
    \A t \in Threads : ~failed[t] =>
        /\ pc[t] = "execute" /\ ~whole[t]
             => \A k \in DOMAIN TileList(t) : k < pos[t] => Done(TileList(t)[k])
        /\ pc[t] \in {"relock", "empties", "emptyTile"}
             => \A i \in Listed(t) : Done(i)

\* Tiles on the emptyFlushList have nothing left to compute.
EmptiesInv ==
    \A t \in Threads : /\ \A k \in DOMAIN empties[t] : empties[t][k] \in computed
                       /\ pc[t] = "emptyList" => Tiles \subseteq computed

\* Whoever waits has left only evaluated tiles behind.
ScanInv ==
    \A t \in Threads : pc[t] \in {"scan", "asleep", "awake"} =>
        \A k \in DOMAIN TileList(t) : k < pos[t] => TileList(t)[k] \in Ev

\* An evaluated operation of a valid image has evaluated tiles only.
EvalInv == valid /\ (evaluated \/ ~alive) => Ev = Tiles

AnswerInv == \A t \in Threads : pc[t] # "returned" => answer[t] = "none"

ContractInv == /\ IInv /\ PosInv /\ AreaInv /\ DoneInv /\ EmptiesInv /\ ScanInv
               /\ EvalInv /\ AnswerInv

LEMMA EvMonotone ==
  ASSUME TypeOK, NEW t \in Threads, Step(t)
  PROVE  Ev \subseteq Ev' /\ computed \subseteq computed'
<1>1. Ev \subseteq Ev'
  BY StatusMonotone DEF Ev
<1>2. computed \subseteq computed'
  <2>1. CASE UpdateStatus(t)
    BY <2>1 DEF UpdateStatus, Enter, NothingToFlush, FoundDeferred,
       FoundExecuting, Wake
  <2>2. CASE SelectFunction(t)
    BY <2>2 DEF SelectFunction, UseFunction, FindFunction, RejectMolecule,
       NoListForMolecule,
       SwitchToAlternateOp, GiveUp, SyncDevice
  <2>3. CASE Execute(t)
    BY <2>3 DEF Execute, ExecuteTile, EndOfList, ExecuteWhole, Relock,
       Succeeds, Fails
  <2>4. CASE Conclude(t)
    BY <2>4 DEF Conclude, NextEmptyTile, FinishEmptyTile, FinishEmptyList,
       Retry, Finish
  <2> QED
    BY <2>1, <2>2, <2>3, <2>4 DEF Step
<1> QED
  BY <1>1, <1>2

LEMMA EvAfter ==
  ASSUME TypeOK, NEW S, SetOpStatus(S, "evaluated")
  PROVE  Ev' = Ev \cup (S \cap Tiles)
BY DEF TypeOK, SetOpStatus, Ev

LEMMA MarkKeepsEv ==
  ASSUME TypeOK, NEW t \in Threads, UseFunction(t) \/ FindFunction(t)
  PROVE  Ev' = Ev
<1>1. PICK S : SetOpStatus(S, "executing")
  BY DEF UseFunction, FindFunction, MarkTilesAndGo
<1> QED
  BY <1>1 DEF TypeOK, SetOpStatus, Ev

\* A flush goes to finishEmptyFlush(tile_list) only when there is no area.
LEMMA MarkEmpty ==
  ASSUME TypeOK, NEW t \in Threads, UseFunction(t) \/ FindFunction(t),
         pc'[t] = "emptyList"
  PROVE  \A i \in Tiles : Area[i] = "none"
<1>1. PICK n, all : MarkTilesAndGo(t, n, all)
  BY DEF UseFunction, FindFunction
<1>2. ASSUME ~\A i \in Tiles : Area[i] = "none"
      PROVE  \E l \in {"device", "execute"} : Goto(t, l)
  BY <1>1, <1>2 DEF MarkTilesAndGo
<1> QED
  BY <1>2 DEF Goto, TypeOK

LEMMA AreaStep ==
  ASSUME TypeOK, AreaInv, NEW t \in Threads, Step(t)
  PROVE  AreaInv'
BY EvMonotone, OperationKept DEF AreaInv, Step

LEMMA DoneStep ==
  ASSUME TypeOK, FuncInv, ListInv, PosInv, AreaInv, DoneInv, ~Split,
         Failures = {}, NEW t \in Threads, Step(t)
  PROVE  DoneInv'
<1>1. \A i : Done(i) => Done(i)'
  BY EvMonotone DEF Done
<1> SUFFICES ASSUME NEW s \in Threads, ~failed'[s]
             PROVE  /\ pc'[s] = "execute" /\ ~whole'[s]
                         => \A k \in DOMAIN TileList(s)' : k < pos'[s]
                              => Done(TileList(s)[k])'
                    /\ pc'[s] \in {"relock", "empties", "emptyTile"}
                         => \A i \in Listed(s)' : Done(i)'
  BY DEF DoneInv
<1>2. CASE s # t
  <2>1. /\ pc'[s] = pc[s] \/ pc'[s] = "awake"
        /\ whole'[s] = whole[s] /\ pos'[s] = pos[s] /\ failed'[s] = failed[s]
        /\ TileList(s)' = TileList(s) /\ Listed(s)' = Listed(s)
    BY <1>2, OthersKept DEF Listed
  <2> QED
    BY <1>1, <2>1 DEF DoneInv, Done
<1>3. CASE s = t
  <2>1. CASE UpdateStatus(t)
    BY <1>3, <2>1 DEF TypeOK, UpdateStatus, Enter, NoListOfAll, NothingToFlush,
       FoundDeferred,
       FoundExecuting, Wake, Goto
  <2>2. CASE UseFunction(t) \/ FindFunction(t)
    <3>1. pos[t] = 1
      BY <2>2 DEF UseFunction, FindFunction, PosInv, InFlush
    <3>2. pos'[t] = 1 /\ pc'[t] \notin {"relock", "empties", "emptyTile"}
      BY <2>2, <3>1, MarkListed, SelectMarks
    <3>3. DOMAIN TileList(t)' \subseteq Nat \ {0}
      <4>1. PICK n \in {0} \cup Chains, all \in BOOLEAN : MarkTilesAndGo(t, n, all)
        BY <2>2, SelectMarks
      <4>2. whole'[t] = all
        BY <4>1 DEF MarkTilesAndGo, TypeOK
      <4>3. TileList(t)' = ListOf(t, all)
        BY <4>2 DEF TileList, ListOf
      <4> QED
        BY <4>3, ListTyped
    <3> QED
      BY <1>3, <3>2, <3>3
  <2>3. CASE SelectFunction(t) /\ ~UseFunction(t) /\ ~FindFunction(t)
    <3>1. CASE SyncDevice(t)
      <4>1. pos[t] = 1 /\ UNCHANGED <<pos, whole>> /\ pc'[t] = "execute"
        BY <3>1 DEF SyncDevice, PosInv, InFlush, Goto, TypeOK
      <4>2. TileList(t)' = TileList(t)
        BY <4>1 DEF TileList, ListOf
      <4>3. DOMAIN TileList(t) \subseteq Nat \ {0}
        BY TileListTyped
      <4> QED
        BY <1>3, <4>1, <4>2, <4>3
    <3>2. CASE ~SyncDevice(t)
      BY <1>3, <2>3, <3>2 DEF TypeOK, SelectFunction, RejectMolecule,
         NoListForMolecule, NoListOfAll,
         SwitchToAlternateOp, GiveUp, Goto, BroadcastAndGoto
    <3> QED
      BY <3>1, <3>2
  <2>4. CASE Execute(t)
    <3>1. UNCHANGED <<whole, opStatusOf>> /\ TileList(t)' = TileList(t)
      BY <2>4 DEF Execute, ExecuteTile, EndOfList, ExecuteWhole, Relock,
         threadVars, TileList, ListOf
    <3>2. /\ TileList(t) \in Seq(Tiles) /\ DOMAIN TileList(t) = 1..Len(TileList(t))
          /\ Len(TileList(t)) \in Nat /\ pos[t] \in Nat \ {0}
          /\ \A k \in DOMAIN TileList(t) : TileList(t)[k] \in Tiles
      BY TileListTyped
    <3>3. CASE ExecuteTile(t)
      <4> DEFINE i == TileList(t)[pos[t]]
      <4>1. /\ pos[t] \in DOMAIN TileList(t) /\ i \in Tiles
            /\ pc[t] = "execute" /\ ~whole[t]
        BY <3>2, <3>3 DEF ExecuteTile
      <4>2. i \in Ev \/ i \in computed' \/ failed'[t]
        <5>1. CASE opStatusOf[i] # "executing"
          BY <4>1, <5>1 DEF ListInv, Marked, Deferred, Ev, TypeOK
        <5>2. CASE Area[i] = "none"
          BY <4>1, <5>2, EvMonotone DEF AreaInv
        <5>3. CASE opStatusOf[i] = "executing" /\ Area[i] # "none"
          <6>1. Succeeds(t, {i}) \/ Fails(t)
            BY <3>3, <5>3 DEF ExecuteTile
          <6> QED
            BY <6>1 DEF Succeeds, Fails, TypeOK
        <5> QED
          BY <5>1, <5>2, <5>3
      <4>3. Ev' = Ev /\ pos'[t] = pos[t] + 1 /\ pc'[t] = pc[t]
        BY <3>1, <3>3 DEF ExecuteTile, TypeOK, Ev
      <4>4. failed[t] => failed'[t]
        BY <3>3 DEF ExecuteTile, Succeeds, Fails, TypeOK
      <4>5. ASSUME NEW k \in DOMAIN TileList(t), k < pos[t] + 1
            PROVE  TileList(t)[k] \in Ev \/ TileList(t)[k] \in computed'
        <5>1. CASE k = pos[t]
          BY <1>3, <4>2, <5>1
        <5>2. CASE k < pos[t]
          BY <1>3, <4>1, <4>4, <5>2, EvMonotone DEF DoneInv, Done
        <5> QED
          BY <3>2, <4>5, <5>1, <5>2
      <4> QED
        BY <1>3, <3>1, <4>1, <4>3, <4>5 DEF Done
    <3>4. CASE EndOfList(t)
      <4>1. pc[t] = "execute" /\ ~whole[t] /\ ~failed[t] /\ pc'[t] = "relock"
        BY <1>3, <3>4 DEF EndOfList, Goto, TypeOK
      <4>2. \A k \in DOMAIN TileList(t) : Done(TileList(t)[k])
        BY <3>2, <3>4, <4>1 DEF EndOfList, DoneInv
      <4> QED
        BY <1>1, <1>3, <3>1, <4>1, <4>2 DEF Listed, Done
    <3>5. CASE ExecuteWhole(t)
      <4>1. Succeeds(t, Tiles) /\ pc'[t] = "relock"
        BY <1>3, <3>5 DEF ExecuteWhole, Fails, Goto, TypeOK
      <4>2. \A k \in DOMAIN TileList(t) : TileList(t)[k] \in computed'
        BY <3>2, <4>1 DEF Succeeds
      <4> QED
        BY <1>3, <3>1, <4>1, <4>2 DEF Listed, Done
    <3>6. CASE Relock(t)
      <4>1. pc[t] = "relock" /\ pc'[t] = "empties" /\ ~failed[t]
        BY <1>3, <3>6 DEF Relock, Goto, TypeOK, threadVars
      <4> QED
        BY <1>1, <1>3, <3>1, <4>1 DEF DoneInv, Listed, Done
    <3> QED
      BY <2>4, <3>3, <3>4, <3>5, <3>6 DEF Execute
  <2>5. CASE Conclude(t)
    <3>1. UNCHANGED whole /\ TileList(t)' = TileList(t)
      BY <2>5 DEF Conclude, NextEmptyTile, FinishEmptyTile, FinishEmptyList,
         Retry, Finish, threadVars, TileList, ListOf
    <3>2. CASE NextEmptyTile(t) \/ FinishEmptyTile(t)
      <4>1. /\ pc[t] \in {"empties", "emptyTile"} /\ pc'[t] \in {"empties", "emptyTile"}
            /\ ~failed[t]
        BY <1>3, <3>2 DEF NextEmptyTile, FinishEmptyTile, Goto, BroadcastAndGoto,
           TypeOK, threadVars
      <4> QED
        BY <1>1, <1>3, <3>1, <4>1 DEF DoneInv, Listed, Done
    <3>3. CASE FinishEmptyList(t) \/ Retry(t) \/ Finish(t)
      BY <1>3, <3>3 DEF FinishEmptyList, Retry, Finish, Goto, BroadcastAndGoto,
         TypeOK
    <3> QED
      BY <2>5, <3>2, <3>3 DEF Conclude
  <2> QED
    BY <2>1, <2>2, <2>3, <2>4, <2>5 DEF Step
<1> QED
  BY <1>2, <1>3

LEMMA EmptiesStep ==
  ASSUME TypeOK, FuncInv, EmptyInv, AreaInv, EmptiesInv, ~Split,
         Failures = {}, NEW t \in Threads, Step(t)
  PROVE  EmptiesInv'
<1> SUFFICES ASSUME NEW s \in Threads
             PROVE  /\ \A k \in DOMAIN empties'[s] : empties'[s][k] \in computed'
                    /\ pc'[s] = "emptyList" => Tiles \subseteq computed'
  BY DEF EmptiesInv
<1>1. CASE s # t
  BY <1>1, OthersKept, EvMonotone DEF EmptiesInv
<1>2. CASE s = t
  <2>1. \A k \in DOMAIN empties'[t] : empties'[t][k] \in computed'
    <3>1. CASE ExecuteTile(t)
      <4> DEFINE i == TileList(t)[pos[t]]
      <4>1. i \in Tiles
        BY <3>1, TileListTyped DEF ExecuteTile
      <4>2. \/ empties'[t] = empties[t]
            \/ empties'[t] = Append(empties[t], i) /\ Area[i] = "none"
        BY <3>1 DEF ExecuteTile, TypeOK
      <4>3. CASE empties'[t] = empties[t]
        BY <4>3, EvMonotone DEF EmptiesInv
      <4>4. CASE empties'[t] = Append(empties[t], i) /\ Area[i] = "none"
        <5>1. i \in computed' /\ empties[t] \in Seq(Tiles)
          BY <4>1, <4>4, EvMonotone DEF AreaInv, TypeOK
        <5> QED
          BY <4>1, <4>4, <5>1, EvMonotone DEF EmptiesInv
      <4> QED
        BY <4>2, <4>3, <4>4
    <3>2. CASE FinishEmptyTile(t)
      <4>1. /\ empties'[t] = Tail(empties[t]) /\ empties[t] \in Seq(Tiles)
            /\ empties[t] # <<>>
        BY <3>2 DEF FinishEmptyTile, TypeOK, EmptyInv
      <4>2. /\ DOMAIN Tail(empties[t]) = 1..(Len(empties[t]) - 1)
            /\ \A k \in DOMAIN Tail(empties[t]) :
                  k + 1 \in DOMAIN empties[t] /\ Tail(empties[t])[k] = empties[t][k + 1]
        BY <4>1
      <4> QED
        BY <4>1, <4>2, EvMonotone DEF EmptiesInv
    <3>3. CASE ~ExecuteTile(t) /\ ~FinishEmptyTile(t)
      <4>1. empties' = empties
        BY <3>3 DEF Step, UpdateStatus, Enter, NoListOfAll, NothingToFlush, FoundDeferred,
           FoundExecuting, Wake, SelectFunction, UseFunction, FindFunction,
           RejectMolecule, NoListForMolecule, NoListOfAll, SwitchToAlternateOp, GiveUp,
           SyncDevice, Execute,
           EndOfList, ExecuteWhole, Relock, Conclude, NextEmptyTile,
           FinishEmptyList, Retry, Finish, threadVars
      <4> QED
        BY <4>1, EvMonotone DEF EmptiesInv
    <3> QED
      BY <3>1, <3>2, <3>3
  <2>2. ASSUME pc'[t] = "emptyList" PROVE Tiles \subseteq computed'
    <3>1. UseFunction(t) \/ FindFunction(t)
      <4>1. CASE UpdateStatus(t)
        BY <2>2, <4>1 DEF TypeOK, UpdateStatus, Enter, NoListOfAll, NothingToFlush,
           FoundDeferred, FoundExecuting, Wake, Goto
      <4>2. CASE SelectFunction(t) /\ ~UseFunction(t) /\ ~FindFunction(t)
        BY <2>2, <4>2 DEF TypeOK, SelectFunction, RejectMolecule, NoListForMolecule,
           NoListOfAll,
           SwitchToAlternateOp, GiveUp, SyncDevice, Goto, BroadcastAndGoto
      <4>3. CASE Execute(t)
        BY <2>2, <4>3 DEF TypeOK, Execute, ExecuteTile, EndOfList, ExecuteWhole,
           Relock, Goto
      <4>4. CASE Conclude(t)
        BY <2>2, <4>4 DEF TypeOK, Conclude, NextEmptyTile, FinishEmptyTile,
           FinishEmptyList, Retry, Finish, Goto, BroadcastAndGoto
      <4> QED
        BY <4>1, <4>2, <4>3, <4>4 DEF Step, SelectFunction
    <3> QED
      BY <2>2, <3>1, MarkEmpty, EvMonotone DEF AreaInv
  <2> QED
    BY <1>2, <2>1, <2>2
<1> QED
  BY <1>1, <1>2

LEMMA ScanStep ==
  ASSUME TypeOK, FuncInv, SleepInv, PosInv, ScanInv, NEW t \in Threads, Step(t)
  PROVE  ScanInv'
<1> SUFFICES ASSUME NEW s \in Threads, pc'[s] \in {"scan", "asleep", "awake"},
                    NEW k \in DOMAIN TileList(s)', k < pos'[s]
             PROVE  (TileList(s)[k] \in Ev)'
  BY DEF ScanInv
<1>1. Ev \subseteq Ev'
  BY EvMonotone
<1>2. CASE s # t
  BY <1>1, <1>2, OthersKept DEF ScanInv
<1>3. CASE s = t
  <2>1. CASE Enter(t)
    <3>1. pos'[t] = 1
      BY <2>1 DEF Enter, PosInv
    <3>2. DOMAIN TileList(t)' \subseteq Nat \ {0}
      <4>1. PICK b \in BOOLEAN : TileList(t)' = ListOf(t, b)
        BY <2>1 DEF TileList, ListOf, Enter
      <4> QED
        BY <4>1, ListTyped
    <3> QED
      BY <1>3, <3>1, <3>2
  <2>2. CASE FoundExecuting(t) \/ Wake(t)
    <3>1. UNCHANGED <<whole, opStatusOf>> /\ TileList(t)' = TileList(t)
      BY <2>2 DEF FoundExecuting, Wake, TileList, ListOf
    <3>2. /\ DOMAIN TileList(t) = 1..Len(TileList(t)) /\ Len(TileList(t)) \in Nat
          /\ \A j \in DOMAIN TileList(t) : TileList(t)[j] \in Tiles
          /\ pos[t] \in Nat \ {0}
      BY TileListTyped
    <3>3. CASE k < pos[t]
      BY <1>1, <1>3, <2>2, <3>1, <3>3 DEF ScanInv, FoundExecuting, Wake
    <3>4. CASE ~(k < pos[t]) /\ FoundExecuting(t)
      <4>1. PICK i \in DOMAIN TileList(t) :
                OpenEntry(t, i) /\ pos' = [pos EXCEPT ![t] = i]
        BY <3>4 DEF FoundExecuting
      <4>2. k \in pos[t]..i-1
        BY <1>3, <3>1, <3>2, <3>4, <4>1 DEF TypeOK
      <4>3. opStatusOf[TileList(t)[k]] = "evaluated" /\ TileList(t)[k] \in Tiles
        BY <1>3, <3>1, <3>2, <4>1, <4>2 DEF OpenEntry
      <4> QED
        BY <1>1, <1>3, <3>1, <4>3 DEF Ev
    <3>5. CASE ~(k < pos[t]) /\ Wake(t)
      <4>1. pos'[t] = pos[t] \/ (pos'[t] = pos[t] + 1
                                  /\ opStatusOf[TileList(t)[pos[t]]] = "evaluated")
        BY <3>5 DEF Wake, TypeOK
      <4>2. k = pos[t] /\ opStatusOf[TileList(t)[k]] = "evaluated"
        BY <1>3, <3>1, <3>2, <3>5, <4>1
      <4> QED
        BY <1>1, <1>3, <3>1, <3>2, <4>2 DEF Ev
    <3> QED
      BY <2>2, <3>3, <3>4, <3>5
  <2>3. CASE NothingToFlush(t) \/ FoundDeferred(t)
    BY <1>3, <2>3 DEF TypeOK, NothingToFlush, FoundDeferred, Goto
  <2>4. CASE SelectFunction(t)
    <3>1. ~UseFunction(t) /\ ~FindFunction(t)
      BY <1>3, SelectMarks
    <3> QED
      BY <1>3, <2>4, <3>1 DEF TypeOK, SelectFunction, RejectMolecule, NoListForMolecule,
         SwitchToAlternateOp, GiveUp, SyncDevice, Goto, BroadcastAndGoto
  <2>5. CASE Execute(t)
    BY <1>3, <2>5 DEF TypeOK, Execute, ExecuteTile, EndOfList, ExecuteWhole,
       Relock, Goto
  <2>6. CASE Conclude(t)
    BY <1>3, <2>6 DEF TypeOK, Conclude, NextEmptyTile, FinishEmptyTile,
       FinishEmptyList, Retry, Finish, Goto, BroadcastAndGoto
  <2> QED
    BY <2>1, <2>2, <2>3, <2>4, <2>5, <2>6 DEF Step, UpdateStatus
<1> QED
  BY <1>2, <1>3

LEMMA EvalStep ==
  ASSUME TypeOK, EvalInv, Failures = {}, NEW t \in Threads, Step(t)
  PROVE  EvalInv'
<1>1. ASSUME AllTilesDone PROVE Ev' = Tiles
  BY <1>1 DEF AllTilesDone, Ev
<1>2. Ev \subseteq Ev' /\ Ev' \subseteq Tiles
  BY EvMonotone DEF Ev
<1>3. valid' /\ (evaluated' \/ ~alive')
        => AllTilesDone \/ (valid /\ (evaluated \/ ~alive))
  <2> USE DEF opVars, TypeOK
  <2>1. CASE UpdateStatus(t)
    BY <2>1 DEF UpdateStatus, Enter, NoListOfAll, NothingToFlush, FoundDeferred,
       FoundExecuting, Wake, Aquire, Release
  <2>2. CASE SelectFunction(t)
    BY <2>2 DEF SelectFunction, UseFunction, FindFunction, RejectMolecule,
       NoListForMolecule, NoListOfAll,
       SwitchToAlternateOp, GiveUp, SyncDevice
  <2>3. CASE Execute(t)
    BY <2>3 DEF Execute, ExecuteTile, EndOfList, ExecuteWhole, Relock
  <2>4. CASE Conclude(t)
    BY <2>4 DEF Conclude, NextEmptyTile, FinishEmptyTile, FinishEmptyList,
       Retry, Finish, Release
  <2> QED
    BY <2>1, <2>2, <2>3, <2>4 DEF Step
<1> QED
  BY <1>1, <1>2, <1>3 DEF EvalInv

LEMMA AnswerStep ==
  ASSUME TypeOK, FuncInv, AnswerInv, Failures = {}, NEW t \in Threads, Step(t)
  PROVE  AnswerInv'
<1> SUFFICES ASSUME NEW s \in Threads, pc'[s] # "returned" PROVE answer'[s] = "none"
  BY DEF AnswerInv
<1>1. CASE s # t
  BY <1>1, OthersKept DEF AnswerInv
<1>2. CASE s = t
  <2>1. CASE UpdateStatus(t)
    BY <1>2, <2>1 DEF TypeOK, AnswerInv, UpdateStatus, Enter, NoListOfAll, NothingToFlush,
       FoundDeferred, FoundExecuting, Wake, Goto
  <2>2. CASE SelectFunction(t)
    BY <1>2, <2>2 DEF TypeOK, AnswerInv, SelectFunction, UseFunction,
       FindFunction, RejectMolecule, NoListForMolecule, NoListOfAll,
       SwitchToAlternateOp, GiveUp, SyncDevice,
       Goto, BroadcastAndGoto, threadVars
  <2>3. CASE Execute(t)
    BY <1>2, <2>3 DEF AnswerInv, Execute, ExecuteTile, EndOfList, ExecuteWhole,
       Relock, threadVars
  <2>4. CASE Conclude(t)
    BY <1>2, <2>4 DEF TypeOK, AnswerInv, Conclude, NextEmptyTile,
       FinishEmptyTile, FinishEmptyList, Retry, Finish, Goto, BroadcastAndGoto,
       threadVars
  <2> QED
    BY <2>1, <2>2, <2>3, <2>4 DEF Step
<1> QED
  BY <1>1, <1>2
----------------------------------------------------------------------------
LEMMA ContractInvInit == Init => ContractInv
<1> SUFFICES ASSUME Init PROVE ContractInv
  OBVIOUS
<1>1. IInv /\ PosInv
  BY InvInit, PosOrphanInit
<1>2. /\ \A t \in Threads : pc[t] = "idle" /\ answer[t] = "none" /\ empties[t] = <<>>
      /\ ~evaluated /\ alive
  BY DEF Init
<1>3. AreaInv
  BY DEF Init, AreaInv
<1>4. DoneInv /\ ScanInv /\ EvalInv /\ AnswerInv
  BY <1>2 DEF DoneInv, ScanInv, EvalInv, AnswerInv
<1>5. EmptiesInv
  BY <1>2 DEF EmptiesInv
<1> QED
  BY <1>1, <1>3, <1>4, <1>5 DEF ContractInv

LEMMA ContractInvStep ==
  ASSUME ContractInv, ~Split, Failures = {}, [Next]_vars
  PROVE  ContractInv'
<1> USE DEF ContractInv
<1>1. IInv'
  BY InvStep
<1>2. CASE UNCHANGED vars \/ \E t \in Threads : SpuriousWakeup(t)
  <2>1. /\ UNCHANGED <<operation, whole, pos, failed, empties, answer, opStatusOf,
                       evaluated, alive, valid, computed>>
        /\ \A s \in Threads : pc'[s] = pc[s] \/ (pc[s] = "asleep" /\ pc'[s] = "awake")
    BY <1>2 DEF vars, threadVars, opVars, SpuriousWakeup, Goto, IInv, TypeOK
  <2>2. UNCHANGED Area /\ \A s : TileList(s)' = TileList(s) /\ Listed(s)' = Listed(s)
    BY <2>1, OperationKept DEF TileList, ListOf, Listed
  <2>3. PosInv' /\ AreaInv' /\ EvalInv'
    BY <2>1, <2>2 DEF PosInv, InFlush, AreaInv, EvalInv, Ev
  <2>4. DoneInv' /\ ScanInv'
    BY <2>1, <2>2 DEF DoneInv, ScanInv, Done, Ev
  <2>5. EmptiesInv' /\ AnswerInv'
    BY <2>1 DEF EmptiesInv, AnswerInv
  <2> QED
    BY <1>1, <2>3, <2>4, <2>5
<1>3. ASSUME NEW t \in Threads, Step(t) PROVE ContractInv'
  <2> USE DEF IInv
  <2>1. PosInv' /\ AreaInv' /\ EmptiesInv'
    BY <1>3, PosStep, AreaStep, EmptiesStep
  <2>2. DoneInv' /\ ScanInv' /\ EvalInv' /\ AnswerInv'
    BY <1>3, DoneStep, ScanStep, EvalStep, AnswerStep
  <2> QED
    BY <1>1, <2>1, <2>2
<1> QED
  BY <1>2, <1>3 DEF Next, AllReturned

\* A thread whose list is evaluated has what it came for.
LEMMA NeedsListed ==
  ASSUME TypeOK, NEW t \in Threads
  PROVE  {Wants[t][n] : n \in DOMAIN Wants[t]} \subseteq Listed(t)
<1>1. Wants[t] \in Seq(Tiles)
  BY FlushAssumption
<1>2. CASE whole[t]
  BY <1>1, <1>2, ListedTyped
<1>3. CASE ~whole[t]
  BY <1>3 DEF Listed, TileList, ListOf
<1> QED
  BY <1>2, <1>3

\* Every step of a flush is a step of the contract or changes nothing of it.
LEMMA ContractStep ==
  ASSUME ContractInv, ~Split, Failures = {}, NEW t \in Threads, Step(t)
  PROVE  Contract!Next \/ UNCHANGED Contract!vars
<1> DEFINE needs == [s \in Threads |-> {Wants[s][n] : n \in DOMAIN Wants[s]}]
<1> USE DEF ContractInv, IInv
<1>1. ASSUME UNCHANGED <<computed, valid, answer>>, Ev' = Ev
      PROVE  UNCHANGED Contract!vars
  BY <1>1 DEF Contract!vars, Ev
<1>2. ASSUME NEW S \in SUBSET Tiles, computed' = computed \cup S, Ev' = Ev,
             UNCHANGED <<valid, answer>>
      PROVE  Contract!Next
  BY <1>2 DEF Contract!Next, Contract!Compute, Ev
<1>3. ASSUME NEW S \in SUBSET Tiles, S \subseteq computed, Ev' = Ev \cup S,
             UNCHANGED <<computed, valid, answer>>
      PROVE  Contract!Next
  BY <1>3 DEF Contract!Next, Contract!Evaluate, Ev
<1>4. ASSUME NEW S \in SUBSET Tiles, S \subseteq computed, Ev' = Ev \cup S,
             pc[t] # "returned", Return(t, "success"),
             needs[t] \subseteq Ev' \/ ~valid, UNCHANGED <<computed, valid>>
      PROVE  Contract!Next
  <2>1. answer[t] = "none" /\ answer' = [answer EXCEPT ![t] = "success"]
    BY <1>4 DEF AnswerInv, Return
  <2>2. Contract!Succeed(t, S)
    BY <1>4, <2>1 DEF Contract!Succeed, Contract!Evaluate, Ev
  <2> QED
    BY <2>2 DEF Contract!Next
<1>5. ASSUME NEW S \in SUBSET Tiles, Ev' = Ev \cup S, pc[t] # "returned",
             Return(t, "failure"), valid' = FALSE, UNCHANGED computed
      PROVE  Contract!Next
  <2>1. answer[t] = "none" /\ answer' = [answer EXCEPT ![t] = "failure"]
    BY <1>5 DEF AnswerInv, Return
  <2>2. Contract!Fail(t, S)
    BY <1>5, <2>1 DEF Contract!Fail, Ev
  <2> QED
    BY <2>2 DEF Contract!Next
<1>6. ASSUME UNCHANGED opStatusOf PROVE Ev' = Ev
  BY <1>6 DEF Ev
<1>7. /\ needs[t] \subseteq Listed(t) /\ Listed(t) \subseteq Tiles
      /\ needs[t] \subseteq Tiles
  BY NeedsListed, ListedTyped
<1>8. CASE UpdateStatus(t)
  <2>1. CASE Enter(t)
    <3>1. CASE alive
      BY <1>1, <1>6, <2>1, <3>1 DEF Enter, NoListOfAll
    <3>2. CASE ~alive
      <4>1. needs[t] \subseteq Ev \/ ~valid
        BY <1>7, <3>2 DEF EvalInv
      <4>2. Ev' = Ev \cup {}
        BY <1>6, <2>1 DEF Enter, NoListOfAll
      <4> QED
        BY <1>4, <2>1, <3>2, <4>1, <4>2 DEF Enter, NoListOfAll
    <3> QED
      BY <3>1, <3>2
  <2>2. CASE NothingToFlush(t)
    <3>1. Listed(t) \subseteq Ev
      <4>1. ASSUME NEW k \in DOMAIN TileList(t) PROVE TileList(t)[k] \in Ev
        <5>1. CASE k < pos[t]
          BY <2>2, <5>1 DEF NothingToFlush, ScanInv
        <5>2. CASE k \in pos[t]..Len(TileList(t))
          BY <2>2, <5>2, TileListTyped DEF NothingToFlush, AllEvaluated, Remaining, Ev
        <5> QED
          BY <5>1, <5>2, TileListTyped
      <4> QED
        BY <4>1 DEF Listed
    <3>2. Ev' = Ev \cup {}
      BY <1>6, <2>2 DEF NothingToFlush
    <3> QED
      BY <1>4, <1>7, <2>2, <3>1, <3>2 DEF NothingToFlush
  <2>3. CASE FoundDeferred(t) \/ FoundExecuting(t) \/ Wake(t)
    BY <1>1, <1>6, <2>3 DEF FoundDeferred, FoundExecuting, Wake
  <2> QED
    BY <1>8, <2>1, <2>2, <2>3 DEF UpdateStatus
<1>9. CASE SelectFunction(t)
  <2>1. CASE UseFunction(t) \/ FindFunction(t)
    BY <1>1, <2>1, MarkKeepsEv DEF UseFunction, FindFunction
  <2>2. CASE RejectMolecule(t) \/ SwitchToAlternateOp(t) \/ SyncDevice(t)
             \/ NoListForMolecule(t)
    BY <1>1, <1>6, <2>2 DEF RejectMolecule, NoListForMolecule, NoListOfAll,
       SwitchToAlternateOp, SyncDevice,
       threadVars
  <2>3. CASE GiveUp(t)
    <3>1. Remaining(t) = Listed(t)
      BY <2>3, RemainingListed DEF GiveUp, PosInv, InFlush
    <3>2. Ev' = Ev \cup Listed(t)
      BY <1>7, <2>3, <3>1, EvAfter DEF GiveUp
    <3> QED
      BY <1>5, <1>7, <2>3, <3>2 DEF GiveUp
  <2> QED
    BY <1>9, <2>1, <2>2, <2>3 DEF SelectFunction
<1>10. CASE Execute(t)
  <2>1. UNCHANGED <<valid, answer, opStatusOf>>
    BY <1>10 DEF Execute, ExecuteTile, EndOfList, ExecuteWhole, Relock, threadVars
  <2>2. computed' = computed \/ \E S \in SUBSET Tiles : computed' = computed \cup S
    <3>1. CASE ExecuteTile(t)
      <4>1. {TileList(t)[pos[t]]} \in SUBSET Tiles
        BY <3>1, TileListTyped DEF ExecuteTile
      <4> QED
        BY <3>1, <4>1 DEF ExecuteTile, Succeeds, Fails
    <3>2. CASE EndOfList(t) \/ ExecuteWhole(t) \/ Relock(t)
      BY <3>2 DEF EndOfList, ExecuteWhole, Relock, Succeeds, Fails
    <3> QED
      BY <1>10, <3>1, <3>2 DEF Execute
  <2> QED
    BY <1>1, <1>2, <1>6, <2>1, <2>2
<1>11. CASE Conclude(t)
  <2>1. CASE NextEmptyTile(t) \/ Retry(t)
    BY <1>1, <1>6, <2>1 DEF NextEmptyTile, Retry, threadVars
  <2>2. CASE FinishEmptyTile(t)
    <3>1. Head(empties[t]) \in computed /\ Head(empties[t]) \in Tiles
      BY <2>2 DEF FinishEmptyTile, EmptyInv, EmptiesInv, TypeOK
    <3>2. Ev' = Ev \cup {Head(empties[t])}
      BY <2>2, <3>1, EvAfter DEF FinishEmptyTile
    <3>3. UNCHANGED <<computed, valid, answer>>
      BY <2>2 DEF FinishEmptyTile
    <3>4. {Head(empties[t])} \in SUBSET Tiles /\ {Head(empties[t])} \subseteq computed
      BY <3>1
    <3> QED
      BY <1>3, <3>2, <3>3, <3>4
  <2>3. CASE FinishEmptyList(t)
    <3>1. Remaining(t) = Listed(t)
      BY <2>3, RemainingListed DEF FinishEmptyList, PosInv, InFlush
    <3>2. Ev' = Ev \cup Listed(t) /\ Listed(t) \subseteq computed
      BY <1>7, <2>3, <3>1, EvAfter DEF FinishEmptyList, EmptiesInv
    <3> QED
      BY <1>4, <1>7, <2>3, <3>2 DEF FinishEmptyList
  <2>4. CASE Finish(t)
    <3>1. Remaining(t) = Listed(t)
      BY <2>4, RemainingListed DEF Finish, PosInv, InFlush
    <3>2. Ev' = Ev \cup Listed(t)
      BY <1>7, <2>4, <3>1, EvAfter DEF Finish
    <3>3. Listed(t) \ Ev \subseteq computed
      BY <2>4 DEF Finish, DoneInv, Done
    <3>4. Ev' = Ev \cup (Listed(t) \ Ev)
      BY <3>2
    <3> QED
      BY <1>4, <1>7, <2>4, <3>2, <3>3, <3>4 DEF Finish
  <2> QED
    BY <1>11, <2>1, <2>2, <2>3, <2>4 DEF Conclude
<1> QED
  BY <1>8, <1>9, <1>10, <1>11 DEF Step

\* flush() keeps its promise to the threads that call it, when tiles are not
\* split among threads and syncForWriting() and generateBoxList() do not fail:
\* every step maps to a step of FlushContract or a stutter.
THEOREM ContractCorrect ==
  ASSUME ~Split, Failures = {}
  PROVE  Spec => KeepsContract
<1>1. Init => ContractInv
  BY ContractInvInit
<1>2. ContractInv /\ [Next]_vars => ContractInv'
  BY ContractInvStep
<1>3. Init => Contract!Init
  BY DEF Init, Contract!Init
<1>4. ContractInv /\ [Next]_vars => [Contract!Next]_(Contract!vars)
  <2>1. UNCHANGED vars \/ (\E t \in Threads : SpuriousWakeup(t))
          => UNCHANGED Contract!vars
    BY DEF vars, threadVars, SpuriousWakeup, Contract!vars
  <2> QED
    BY <2>1, ContractStep DEF Next, AllReturned
<1> QED
  BY <1>1, <1>2, <1>3, <1>4, PTL DEF Spec, KeepsContract, Contract!Spec
----------------------------------------------------------------------------
\* What the contract is worth to a thread: as long as the destination is valid
\* evaluated tiles are computed, and a success covers all the tiles wanted.
PromiseInv ==
    valid => /\ Ev \subseteq computed
             /\ \A t \in Threads : answer[t] = "success" =>
                    {Wants[t][n] : n \in DOMAIN Wants[t]} \subseteq Ev

LEMMA PromiseStep ==
  ASSUME TypeOK, TypeOK', PromiseInv, [Contract!Next]_(Contract!vars)
  PROVE  PromiseInv'
<1>1. CASE UNCHANGED Contract!vars
  BY <1>1 DEF Contract!vars, PromiseInv, Ev
<1>2. ASSUME NEW S \in SUBSET Tiles, Contract!Compute(S) PROVE PromiseInv'
  BY <1>2 DEF Contract!Compute, PromiseInv, Ev
<1>3. ASSUME NEW S \in SUBSET Tiles, Contract!Evaluate(S)
      PROVE  /\ valid' = valid /\ computed' = computed
             /\ Ev \subseteq Ev' /\ (Ev \subseteq computed => Ev' \subseteq computed)
  BY <1>3 DEF Contract!Evaluate, Ev
<1>4. ASSUME NEW S \in SUBSET Tiles, Contract!Evaluate(S), UNCHANGED answer
      PROVE  PromiseInv'
  BY <1>3, <1>4 DEF PromiseInv
<1>5. ASSUME NEW S \in SUBSET Tiles, NEW t \in Threads, Contract!Succeed(t, S)
      PROVE  PromiseInv'
  <2>1. Contract!Evaluate(S)
    BY <1>5 DEF Contract!Succeed
  <2>2. valid => {Wants[t][n] : n \in DOMAIN Wants[t]} \subseteq Ev'
    BY <1>5 DEF Contract!Succeed, Ev
  <2>3. \A s \in Threads \ {t} : answer'[s] = answer[s]
    BY <1>5 DEF Contract!Succeed, TypeOK
  <2> QED
    BY <1>3, <2>1, <2>2, <2>3 DEF PromiseInv
<1>6. ASSUME NEW S \in SUBSET Tiles, NEW t \in Threads, Contract!Fail(t, S)
      PROVE  PromiseInv'
  BY <1>6 DEF Contract!Fail, PromiseInv
<1> QED
  BY <1>1, <1>2, <1>4, <1>5, <1>6 DEF Contract!Next

\* A flush that returns XIL_SUCCESS leaves every tile of its list evaluated and
\* computed unless the destination has been marked as invalid, when tiles are
\* not split among threads and syncForWriting() and generateBoxList() do not
\* fail (flush_partial.cfg shows what happens when tiles are split).
THEOREM SuccessCorrect ==
  ASSUME ~Split, Failures = {}
  PROVE  Spec => []SuccessMeansComputed
<1>1. Init => PromiseInv
  BY DEF Init, PromiseInv, Ev
<1>2. TypeOK /\ TypeOK' /\ PromiseInv /\ [Contract!Next]_(Contract!vars) => PromiseInv'
  BY PromiseStep
<1>3. TypeOK /\ PromiseInv => SuccessMeansComputed
  <2> SUFFICES ASSUME TypeOK, PromiseInv, valid, NEW t \in Threads,
                      answer[t] = "success", NEW n \in DOMAIN Wants[t]
               PROVE  /\ opStatusOf[Wants[t][n]] = "evaluated"
                      /\ Wants[t][n] \in computed
    BY DEF SuccessMeansComputed
  <2> QED
    BY DEF PromiseInv, Ev
<1>4. IInv => TypeOK
  BY DEF IInv
<1>5. KeepsContract => [][Contract!Next]_(Contract!vars)
  BY PTL DEF KeepsContract, Contract!Spec
<1> QED
  BY <1>1, <1>2, <1>3, <1>4, <1>5, InvCorrect, ContractCorrect, PTL DEF Spec

-----------------------------------------------------------------------------
(***************************************************************************)
(* Theorems about OpFlush for threads that come for the same tiles, as the *)
(* strips of one downstream operation that needs its whole source do, or   *)
(* for operations that cannot be split: one flush() of them all executes   *)
(* the operation, so what XilOp shares among its flushes (funcDef,         *)
(* funcLength, opList, the last reference) belongs to that one.  For other *)
(* lists the statements are false: README, section 6.                      *)
(***************************************************************************)
Needs(t) == {Wants[t][n] : n \in DOMAIN Wants[t]}

OneTileSet ==
    \/ \A op \in Operations : 1 \in op.noSplit
    \/ \A s, t \in Threads : Needs(s) = Needs(t)

\* Every operation has a function that never fails.
AllExecutable == \A op \in Operations : 1 \in op.chains \ op.mayFail

\* The tiles updateStatus() looks at
Base(t) == IF 1 \in NoSplit THEN Tiles ELSE Needs(t)

\* From the choice of a function until the list is given back
Executing == {"device", "execute", "relock", "empties", "emptyTile"}

\* updateStatus() works on the list the operation itself asks for.
ScanWholeInv ==
    \A t \in Threads : pc[t] \in {"scan", "asleep", "awake"} => (whole[t] <=> 1 \in NoSplit)

OneFlushInv == \A s, t \in Threads : pc[s] \in InFlush /\ pc[t] \in InFlush => s = t

\* As long as there is a function for the operation, a flush has marked the
\* tiles that all want, and a thread in search of a function finds none.
CoverInv == funcDef # 0 => \A t \in Threads : \A i \in Base(t) : ~Deferred(i)
SelectInv == \A t \in Threads : pc[t] = "select" => funcDef = 0

\* The function a thread executes is the one of the operation.
ExecutingInv ==
    \A t \in Threads : pc[t] \in Executing =>
        /\ funcDef = length[t] /\ length[t] # 0
        /\ length[t] > 1 => opList = length[t]

TogetherInv == /\ IInv /\ ScanWholeInv /\ OneFlushInv /\ CoverInv /\ SelectInv
               /\ ExecutingInv
----------------------------------------------------------------------------
LEMMA BaseSame ==
  ASSUME TypeOK, OneTileSet, NEW s \in Threads, NEW t \in Threads
  PROVE  Base(s) = Base(t)
<1>1. (\A op \in Operations : 1 \in op.noSplit) => 1 \in NoSplit
  BY DEF TypeOK, NoSplit
<1> QED
  BY <1>1 DEF OneTileSet, Base

LEMMA ListCovers ==
  ASSUME NEW t \in Threads, NEW all \in BOOLEAN
  PROVE  /\ Needs(t) \subseteq {ListOf(t, all)[k] : k \in DOMAIN ListOf(t, all)}
         /\ all => {ListOf(t, all)[k] : k \in DOMAIN ListOf(t, all)} = Tiles
         /\ ~all => {ListOf(t, all)[k] : k \in DOMAIN ListOf(t, all)} = Needs(t)
<1>1. Wants[t] \in Seq(Tiles)
  BY FlushAssumption
<1>2. Needs(t) \subseteq Tiles
  BY <1>1 DEF Needs
<1>3. all => {ListOf(t, all)[k] : k \in DOMAIN ListOf(t, all)} = Tiles
  BY ListTyped
<1>4. ~all => {ListOf(t, all)[k] : k \in DOMAIN ListOf(t, all)} = Needs(t)
  BY DEF ListOf, Needs
<1> QED
  BY <1>2, <1>3, <1>4

\* A list in updateStatus() is exactly the tiles looked at; one in flush()
\* names them all.
LEMMA ScanListed ==
  ASSUME TypeOK, ScanWholeInv, NEW t \in Threads,
         pc[t] \in {"scan", "asleep", "awake"}
  PROVE  Listed(t) = Base(t)
<1>1. whole[t] \in BOOLEAN /\ (whole[t] <=> 1 \in NoSplit)
  BY DEF TypeOK, ScanWholeInv
<1> QED
  BY <1>1, ListCovers DEF Listed, TileList, Base

LEMMA BaseListed ==
  ASSUME TypeOK, WholeInv, NEW t \in Threads, pc[t] \notin {"idle", "returned"}
  PROVE  Base(t) \subseteq Listed(t)
<1>1. whole[t] \in BOOLEAN /\ (1 \in NoSplit => whole[t])
  BY DEF TypeOK, WholeInv
<1> QED
  BY <1>1, ListCovers DEF Listed, TileList, Base

\* What a step of flush() that does not find a function does to the function.
LEMMA FunctionKept ==
  ASSUME TypeOK, NEW t \in Threads, Step(t), ~UseFunction(t), ~FindFunction(t)
  PROVE  /\ UNCHANGED length
         /\ pc'[t] \in Executing => pc[t] \in Executing
         /\ pc'[t] = "select" => \/ FoundDeferred(t) \/ Retry(t)
                                 \/ RejectMolecule(t) \/ SwitchToAlternateOp(t)
         /\ Retry(t) \/ NoListForMolecule(t) \/ UNCHANGED <<funcDef, opList>>
         /\ \/ Retry(t) \/ RejectMolecule(t) \/ SwitchToAlternateOp(t) \/ GiveUp(t)
            \/ NoListForMolecule(t) \/ UNCHANGED funcLength
<1> USE DEF Executing, threadVars, funcVars
<1>1. CASE UpdateStatus(t)
  BY <1>1 DEF TypeOK, UpdateStatus, Enter, NothingToFlush, FoundDeferred,
     FoundExecuting, Wake, Goto
<1>2. CASE SelectFunction(t)
  BY <1>2 DEF TypeOK, SelectFunction, RejectMolecule, NoListForMolecule,
     SwitchToAlternateOp,
     GiveUp, SyncDevice, Goto, BroadcastAndGoto
<1>3. CASE Execute(t)
  BY <1>3 DEF TypeOK, Execute, ExecuteTile, EndOfList, ExecuteWhole, Relock, Goto
<1>4. CASE Conclude(t)
  BY <1>4 DEF TypeOK, Conclude, NextEmptyTile, FinishEmptyTile,
     FinishEmptyList, Retry, Finish, Goto, BroadcastAndGoto
<1> QED
  BY <1>1, <1>2, <1>3, <1>4 DEF Step

\* A thread begins a flush only with a deferred tile in its list.
LEMMA DeferredFound ==
  ASSUME TypeOK, ScanWholeInv, NEW t \in Threads, FoundDeferred(t)
  PROVE  \E i \in Base(t) : i \in Tiles /\ Deferred(i)
<1>1. PICK k \in DOMAIN TileList(t) : NeedsFlush(t, k)
  BY DEF FoundDeferred
<1>2. TileList(t)[k] \in Tiles /\ Deferred(TileList(t)[k])
  BY <1>1, TileListTyped DEF NeedsFlush, Deferred
<1>3. TileList(t)[k] \in Base(t)
  BY ScanListed DEF FoundDeferred, Listed
<1> QED
  BY <1>2, <1>3

LEMMA MarkedNotDeferred ==
  ASSUME TypeOK, WholeInv, ListInv, NEW t \in Threads, pc[t] \in Marked,
         NEW i \in Base(t)
  PROVE  ~Deferred(i)
BY BaseListed DEF Marked, ListInv, Listed
----------------------------------------------------------------------------
LEMMA ScanWholeStep ==
  ASSUME TypeOK, ScanWholeInv, FuncInv, NEW t \in Threads, Step(t)
  PROVE  ScanWholeInv'
<1>1. UNCHANGED NoSplit
  BY OperationKept DEF Step
<1> SUFFICES ASSUME NEW s \in Threads, pc'[s] \in {"scan", "asleep", "awake"}
             PROVE  whole'[s] <=> 1 \in NoSplit
  BY <1>1 DEF ScanWholeInv
<1>2. CASE s # t
  BY <1>2, OthersKept DEF ScanWholeInv
<1>3. CASE s = t
  <2>1. CASE UpdateStatus(t)
    BY <1>3, <2>1 DEF TypeOK, ScanWholeInv, UpdateStatus, Enter, NothingToFlush,
       FoundDeferred, FoundExecuting, Wake, Goto
  <2>2. CASE UseFunction(t) \/ FindFunction(t)
    BY <1>3, <2>2, SelectMarks
  <2>3. CASE SelectFunction(t) /\ ~UseFunction(t) /\ ~FindFunction(t)
    <3>1. CASE RejectMolecule(t) \/ SwitchToAlternateOp(t)
      BY <1>3, <3>1 DEF RejectMolecule, SwitchToAlternateOp
    <3>2. CASE GiveUp(t) \/ SyncDevice(t) \/ NoListForMolecule(t)
      BY <1>3, <3>2 DEF TypeOK, GiveUp, SyncDevice, NoListForMolecule, Goto,
         BroadcastAndGoto
    <3> QED
      BY <2>3, <3>1, <3>2 DEF SelectFunction
  <2>4. CASE Execute(t)
    BY <1>3, <2>4 DEF TypeOK, Execute, ExecuteTile, EndOfList, ExecuteWhole,
       Relock, Goto
  <2>5. CASE Conclude(t)
    BY <1>3, <2>5 DEF TypeOK, Conclude, NextEmptyTile, FinishEmptyTile,
       FinishEmptyList, Retry, Finish, Goto, BroadcastAndGoto
  <2> QED
    BY <2>1, <2>2, <2>3, <2>4, <2>5 DEF Step
<1> QED
  BY <1>2, <1>3

LEMMA EnterFlush ==
  ASSUME TypeOK, NEW t \in Threads, Step(t), pc[t] \notin InFlush, pc'[t] \in InFlush
  PROVE  FoundDeferred(t)
<1>1. CASE UpdateStatus(t)
  BY <1>1 DEF TypeOK, UpdateStatus, Enter, NothingToFlush, FoundExecuting, Wake,
     Goto, InFlush
<1>2. CASE SelectFunction(t) \/ Execute(t) \/ Conclude(t)
  BY <1>2 DEF InFlush, SelectFunction, UseFunction, FindFunction,
     RejectMolecule, NoListForMolecule, SwitchToAlternateOp, GiveUp, SyncDevice, Execute,
     ExecuteTile, EndOfList, ExecuteWhole, Relock, Conclude, NextEmptyTile,
     FinishEmptyTile, FinishEmptyList, Retry, Finish
<1> QED
  BY <1>1, <1>2 DEF Step

LEMMA OneFlushStep ==
  ASSUME TogetherInv, OneTileSet, NEW t \in Threads, Step(t)
  PROVE  OneFlushInv'
<1> USE DEF TogetherInv, IInv
<1>1. ASSUME NEW u \in Threads \ {t}, pc'[t] \in InFlush, pc'[u] \in InFlush
      PROVE  FALSE
  <2>1. pc[u] \in InFlush
    BY <1>1, OthersKept DEF InFlush
  <2>2. FoundDeferred(t)
    BY <1>1, <2>1, EnterFlush DEF OneFlushInv
  <2>3. PICK i \in Base(t) : Deferred(i)
    BY <2>2, DeferredFound
  <2>4. i \in Base(u)
    BY <2>3, BaseSame
  <2>5. CASE pc[u] = "select"
    BY <2>2, <2>5 DEF LockInv, FoundDeferred
  <2>6. CASE pc[u] # "select"
    BY <2>1, <2>3, <2>4, <2>6, MarkedNotDeferred DEF InFlush, Marked
  <2> QED
    BY <2>5, <2>6
<1>2. ASSUME NEW s \in Threads \ {t}, NEW u \in Threads \ {t},
             pc'[s] \in InFlush, pc'[u] \in InFlush
      PROVE  s = u
  <2>1. pc[s] \in InFlush /\ pc[u] \in InFlush
    BY <1>2, OthersKept DEF InFlush
  <2> QED
    BY <2>1 DEF OneFlushInv
<1> QED
  BY <1>1, <1>2 DEF OneFlushInv

LEMMA CoverStep ==
  ASSUME TogetherInv, OneTileSet, "list" \notin Failures, NEW t \in Threads, Step(t)
  PROVE  CoverInv'
<1> USE DEF TogetherInv, IInv
<1>1. \A s : Base(s)' = Base(s)
  BY OperationKept DEF Step, Base
<1> SUFFICES ASSUME funcDef' # 0, NEW s \in Threads, NEW i \in Base(s)
             PROVE  ~Deferred(i)'
  BY <1>1 DEF CoverInv
<1>2. i \in Tiles
  BY FlushAssumption DEF Base, Needs
<1>3. CASE funcDef # 0
  BY <1>2, <1>3, StatusMonotone DEF CoverInv
<1>4. CASE funcDef = 0
  <2>1. UseFunction(t) \/ FindFunction(t)
    BY <1>4, FunctionKept DEF Retry, NoListForMolecule, NoListOfAll
  <2>2. PICK n \in {0} \cup Chains, all \in BOOLEAN :
           MarkTilesAndGo(t, n, all) /\ (whole[t] => all)
    BY <2>1, SelectedFunction
  <2>3. pc[t] = "select" /\ (1 \in NoSplit => all)
    BY <2>1, <2>2 DEF UseFunction, FindFunction, WholeInv
  <2>4. whole'[t] = all
    BY <2>2, MarkTyped DEF TypeOK
  <2>5. TileList(t)' = ListOf(t, all)
    BY <2>4 DEF TileList, ListOf
  <2>6. \A k \in DOMAIN ListOf(t, all) : ~Deferred(ListOf(t, all)[k])'
    BY <2>2, <2>3, <2>5, Marking
  <2>7. i \in Base(t)
    BY BaseSame
  <2>8. \E k \in DOMAIN ListOf(t, all) : ListOf(t, all)[k] = i
    BY <2>3, <2>7, <1>2, ListCovers DEF Base
  <2> QED
    BY <2>6, <2>8
<1> QED
  BY <1>3, <1>4

LEMMA SelectStep ==
  ASSUME TogetherInv, NEW t \in Threads, Step(t)
  PROVE  SelectInv'
<1> USE DEF TogetherInv, IInv
<1> SUFFICES ASSUME NEW s \in Threads, pc'[s] = "select" PROVE funcDef' = 0
  BY DEF SelectInv
<1>1. CASE s # t
  <2>1. pc[s] = "select" /\ mutex = s
    BY <1>1, OthersKept DEF LockInv
  <2> QED
    BY <1>1, <2>1, MutexExcludes DEF SelectInv
<1>2. CASE s = t
  <2>1. ~UseFunction(t) /\ ~FindFunction(t)
    BY <1>2, SelectMarks
  <2>2. CASE FoundDeferred(t)
    BY <2>2, DeferredFound DEF CoverInv, FoundDeferred, funcVars
  <2>3. CASE Retry(t) \/ RejectMolecule(t) \/ SwitchToAlternateOp(t)
    BY <2>3 DEF Retry, RejectMolecule, NoListForMolecule, SwitchToAlternateOp
  <2> QED
    BY <1>2, <2>1, <2>2, <2>3, FunctionKept
<1> QED
  BY <1>1, <1>2

\* The thread that finds a function is the only one in flush().
LEMMA FunctionFound ==
  ASSUME TogetherInv, NEW t \in Threads, UseFunction(t) \/ FindFunction(t)
  PROVE  \E n \in Chains :
            /\ n \in Molecules \cup {1} /\ n # 0
            /\ funcDef' = n /\ funcLength' = n /\ length'[t] = n
            /\ n > 1 => opList' = n
            /\ ~failed'[t]
<1> USE DEF TogetherInv, IInv
<1>1. FindFunction(t)
  BY DEF UseFunction, SelectInv
<1>2. PICK n \in Molecules \cup {1} :
        /\ LongestOpChain(n) /\ funcDef' = n /\ funcLength' = n
        /\ opList' = IF n > 1 THEN n ELSE opList
        /\ MarkTilesAndGo(t, n, NeedsWhole(t, n))
  BY <1>1 DEF FindFunction
<1>3. n \in Chains /\ n # 0
  BY <1>2, OperationTyped DEF LongestOpChain
<1>4. length'[t] = n /\ ~failed'[t]
  BY <1>2 DEF MarkTilesAndGo, TypeOK
<1> QED
  BY <1>2, <1>3, <1>4

LEMMA ExecutingStep ==
  ASSUME TogetherInv, NEW t \in Threads, Step(t)
  PROVE  ExecutingInv'
<1> USE DEF TogetherInv, IInv
<1> SUFFICES ASSUME NEW s \in Threads, pc'[s] \in Executing
             PROVE  /\ funcDef' = length'[s] /\ length'[s] # 0
                    /\ length'[s] > 1 => opList' = length'[s]
  BY DEF ExecutingInv
<1>1. CASE s # t
  <2>1. pc[s] \in Executing /\ length'[s] = length[s]
    BY <1>1, OthersKept DEF Executing
  <2>2. pc[t] \notin InFlush
    BY <1>1, <2>1 DEF OneFlushInv, Executing, InFlush
  <2>3. ~UseFunction(t) /\ ~FindFunction(t) /\ ~Retry(t) /\ ~NoListForMolecule(t)
    BY <2>2 DEF UseFunction, FindFunction, Retry, NoListForMolecule, InFlush
  <2> QED
    BY <2>1, <2>3, FunctionKept DEF ExecutingInv
<1>2. CASE s = t
  <2>1. CASE UseFunction(t) \/ FindFunction(t)
    BY <1>2, <2>1, FunctionFound
  <2>2. CASE ~UseFunction(t) /\ ~FindFunction(t)
    <3>1. pc[t] \in Executing /\ UNCHANGED length
      BY <1>2, <2>2, FunctionKept
    <3>2. ~Retry(t) /\ ~NoListForMolecule(t)
      BY <1>2 DEF Retry, NoListForMolecule, Goto, TypeOK, Executing
    <3> QED
      BY <1>2, <2>2, <3>1, <3>2, FunctionKept DEF ExecutingInv
  <2> QED
    BY <2>1, <2>2
<1> QED
  BY <1>1, <1>2

LEMMA TogetherInit == Init => TogetherInv
<1> SUFFICES ASSUME Init PROVE TogetherInv
  OBVIOUS
<1>1. IInv
  BY InvInit
<1>2. (\A t \in Threads : pc[t] = "idle") /\ funcDef = 0
  BY DEF Init
<1> QED
  BY <1>1, <1>2 DEF TogetherInv, ScanWholeInv, OneFlushInv, CoverInv, SelectInv,
     ExecutingInv, Executing, InFlush

LEMMA TogetherStep ==
  ASSUME TogetherInv, OneTileSet, "list" \notin Failures, [Next]_vars
  PROVE  TogetherInv'
<1>1. IInv'
  BY InvStep DEF TogetherInv
<1>2. CASE UNCHANGED vars \/ \E t \in Threads : SpuriousWakeup(t)
  <2>1. /\ UNCHANGED <<operation, whole, length, opStatusOf, funcDef, opList>>
        /\ \A s \in Threads : pc'[s] = pc[s] \/ (pc[s] = "asleep" /\ pc'[s] = "awake")
    BY <1>2 DEF vars, threadVars, funcVars, SpuriousWakeup, Goto, TogetherInv,
       IInv, TypeOK
  <2>2. UNCHANGED NoSplit /\ \A s : Base(s)' = Base(s)
    BY <2>1, OperationKept DEF Base
  <2>3. ScanWholeInv' /\ OneFlushInv' /\ SelectInv'
    BY <2>1, <2>2 DEF TogetherInv, ScanWholeInv, OneFlushInv, SelectInv, InFlush
  <2>4. CoverInv' /\ ExecutingInv'
    BY <2>1, <2>2 DEF TogetherInv, CoverInv, Deferred, ExecutingInv, Executing
  <2> QED
    BY <1>1, <2>3, <2>4 DEF TogetherInv
<1>3. ASSUME NEW t \in Threads, Step(t) PROVE TogetherInv'
  <2>1. ScanWholeInv' /\ OneFlushInv' /\ CoverInv'
    BY <1>3, ScanWholeStep, OneFlushStep, CoverStep DEF TogetherInv, IInv
  <2>2. SelectInv' /\ ExecutingInv'
    BY <1>3, SelectStep, ExecutingStep
  <2> QED
    BY <1>1, <2>1, <2>2 DEF TogetherInv
<1> QED
  BY <1>2, <1>3 DEF Next, AllReturned

\* For threads that come for the same tiles one flush executes the operation.
THEOREM OneFlushCorrect ==
  ASSUME OneTileSet, "list" \notin Failures
  PROVE  Spec => []TogetherInv
<1>1. Init => TogetherInv
  BY TogetherInit
<1>2. TogetherInv /\ [Next]_vars => TogetherInv'
  BY TogetherStep
<1> QED
  BY <1>1, <1>2, PTL DEF Spec

\* The molecule's list of operations is not freed while the scheduler executes
\* the molecule (opList in flush() and generateBoxList()), whatever fails but the
\* list of all tiles.
THEOREM MoleculeListCorrect ==
  ASSUME OneTileSet, "list" \notin Failures
  PROVE  Spec => []MoleculeListKept
<1>1. TogetherInv => MoleculeListKept
  BY DEF TogetherInv, ExecutingInv, MoleculeListKept, Executing
<1> QED
  BY <1>1, OneFlushCorrect, PTL
----------------------------------------------------------------------------
\* An operation that can be executed is executed

Robust == 1 \in Chains \ MayFail

\* A failure is the failure of a compute routine.
FailedInv ==
    \A t \in Threads : pc[t] \in Executing /\ failed[t] => length[t] \in MayFail

\* The search for a function has not come below the atomic function, which
\* does not fail, and no flush has failed.
LengthInv == Robust => /\ funcLength >= 1
                       /\ \A t \in Threads : answer[t] # "failure"

LEMMA FailedStep ==
  ASSUME TogetherInv, FailedInv, "sync" \notin Failures, "list" \notin Failures,
         NEW t \in Threads, Step(t)
  PROVE  FailedInv'
<1> USE DEF TogetherInv, IInv
<1>1. UNCHANGED MayFail
  BY OperationKept DEF Step
<1> SUFFICES ASSUME NEW s \in Threads, pc'[s] \in Executing, failed'[s]
             PROVE  length'[s] \in MayFail
  BY <1>1 DEF FailedInv
<1>2. CASE s # t
  BY <1>2, OthersKept DEF FailedInv, Executing
<1>3. CASE s = t
  <2>1. ~UseFunction(t) /\ ~FindFunction(t)
    BY <1>3, FunctionFound
  <2>2. pc[t] \in Executing /\ length'[t] = length[t]
    BY <1>3, <2>1, FunctionKept
  <2>3. failed'[t] = failed[t] \/ length[t] \in MayFail
    <3>1. CASE UpdateStatus(t)
      BY <2>2, <3>1 DEF Executing, UpdateStatus, Enter, NoListOfAll, NothingToFlush,
         FoundDeferred, FoundExecuting, Wake
    <3>2. CASE SelectFunction(t)
      BY <2>1, <3>2 DEF SelectFunction, RejectMolecule, NoListForMolecule, NoListOfAll,
         SwitchToAlternateOp,
         GiveUp, SyncDevice, threadVars
    <3>3. CASE Execute(t)
      BY <3>3 DEF Execute, ExecuteTile, EndOfList, ExecuteWhole, Relock,
         Succeeds, Fails, threadVars
    <3>4. CASE Conclude(t)
      BY <3>4 DEF Conclude, NextEmptyTile, FinishEmptyTile, FinishEmptyList,
         Retry, Finish, threadVars
    <3> QED
      BY <3>1, <3>2, <3>3, <3>4 DEF Step
  <2> QED
    BY <1>3, <2>2, <2>3 DEF FailedInv
<1> QED
  BY <1>2, <1>3

LEMMA NoGiveUp ==
  ASSUME TypeOK, LengthInv, Robust, NEW t \in Threads
  PROVE  ~GiveUp(t)
<1>1. funcLength >= 1 /\ 1 \in Chains /\ funcLength \in Nat
  BY FlushAssumption DEF LengthInv, Robust, TypeOK
<1>2. ~(1 > funcLength)
  BY <1>1
<1>3. ~NoOpChain
  BY <1>1, <1>2, Zenon DEF NoOpChain
<1> QED
  BY <1>3, Zenon DEF GiveUp

LEMMA LengthStep ==
  ASSUME TogetherInv, FailedInv, LengthInv, "sync" \notin Failures, "list" \notin Failures,
         NEW t \in Threads, Step(t)
  PROVE  LengthInv'
<1> USE DEF TogetherInv, IInv
<1>1. UNCHANGED Robust
  BY OperationKept DEF Step, Robust
<1> SUFFICES ASSUME Robust
             PROVE  /\ funcLength' >= 1
                    /\ \A s \in Threads : answer'[s] # "failure"
  BY <1>1 DEF LengthInv
<1>2. ~GiveUp(t)
  BY NoGiveUp
<1>3. funcLength \in Nat /\ funcLength >= 1 /\ MaxLength \in Nat /\ MaxLength >= 1
  BY FlushAssumption DEF LengthInv, TypeOK
<1>4. funcLength' >= 1
  <2>1. CASE UseFunction(t) \/ FindFunction(t)
    BY <2>1, FunctionFound, OperationTyped
  <2>2. CASE Retry(t)
    <3>1. pc[t] \in Executing /\ failed[t]
      BY <2>2 DEF Retry, Executing
    <3>2. funcLength = length[t] /\ length[t] \in MayFail
      BY <3>1 DEF ExecutingInv, FuncInv, FailedInv
    <3>3. funcLength # 1
      BY <3>2 DEF Robust
    <3> QED
      BY <1>3, <2>2, <3>3 DEF Retry, Shorter
  <2>3. CASE RejectMolecule(t)
    <3>1. PICK found \in Chains \ (Molecules \cup {1}) : funcLength' = found - 1
      BY <2>3 DEF RejectMolecule
    <3>2. found \in Nat /\ found >= 1 /\ found # 1
      BY <1>3, <3>1, OperationTyped
    <3> QED
      BY <3>1, <3>2
  <2>4. CASE SwitchToAlternateOp(t)
    BY <1>3, <2>4 DEF SwitchToAlternateOp
  <2> QED
    BY <1>2, <1>3, <2>1, <2>2, <2>3, <2>4, FunctionKept DEF NoListForMolecule, NoListOfAll
<1>5. answer' = answer \/ answer' = [answer EXCEPT ![t] = "success"]
  <2>1. CASE UpdateStatus(t)
    BY <2>1 DEF UpdateStatus, Enter, NoListOfAll, NothingToFlush, FoundDeferred,
       FoundExecuting, Wake, Return
  <2>2. CASE SelectFunction(t)
    BY <1>2, <2>2 DEF SelectFunction, UseFunction, FindFunction, RejectMolecule,
       NoListForMolecule, NoListOfAll,
       SwitchToAlternateOp, SyncDevice, threadVars
  <2>3. CASE Execute(t)
    BY <2>3 DEF Execute, ExecuteTile, EndOfList, ExecuteWhole, Relock, threadVars
  <2>4. CASE Conclude(t)
    BY <2>4 DEF Conclude, NextEmptyTile, FinishEmptyTile, FinishEmptyList,
       Retry, Finish, Return, threadVars
  <2> QED
    BY <2>1, <2>2, <2>3, <2>4 DEF Step
<1>6. \A s \in Threads : answer'[s] # "failure"
  BY <1>5 DEF LengthInv, TypeOK
<1> QED
  BY <1>4, <1>6

LEMMA FailedLengthNext ==
  ASSUME TogetherInv, FailedInv, LengthInv, "sync" \notin Failures,
         "list" \notin Failures, [Next]_vars
  PROVE  FailedInv' /\ LengthInv'
<1>1. CASE UNCHANGED vars \/ \E t \in Threads : SpuriousWakeup(t)
  <2>1. /\ UNCHANGED <<operation, length, failed, answer, funcLength>>
        /\ \A s \in Threads : pc'[s] = pc[s] \/ (pc[s] = "asleep" /\ pc'[s] = "awake")
    BY <1>1 DEF vars, threadVars, funcVars, SpuriousWakeup, Goto, TogetherInv,
       IInv, TypeOK
  <2>2. UNCHANGED <<MayFail, Robust>>
    BY <2>1, OperationKept DEF Robust
  <2> QED
    BY <2>1, <2>2 DEF FailedInv, LengthInv, Executing
<1>2. ASSUME NEW t \in Threads, Step(t) PROVE FailedInv' /\ LengthInv'
  BY <1>2, FailedStep, LengthStep
<1> QED
  BY <1>1, <1>2 DEF Next, AllReturned

LEMMA FailedLengthInit == Init => FailedInv /\ LengthInv
<1> SUFFICES ASSUME Init PROVE FailedInv /\ LengthInv
  OBVIOUS
<1>1. \A t \in Threads : pc[t] = "idle" /\ answer[t] = "none"
  BY DEF Init
<1>2. funcLength >= 1
  BY FlushAssumption DEF Init
<1> QED
  BY <1>1, <1>2 DEF FailedInv, LengthInv, Executing

LEMMA FailedLengthCorrect ==
  ASSUME OneTileSet, "sync" \notin Failures, "list" \notin Failures
  PROVE  Spec => [](FailedInv /\ LengthInv)
<1>1. Init => FailedInv /\ LengthInv
  BY FailedLengthInit
<1>2. TogetherInv /\ FailedInv /\ LengthInv /\ [Next]_vars => FailedInv' /\ LengthInv'
  BY FailedLengthNext
<1> QED
  BY <1>1, <1>2, OneFlushCorrect, PTL DEF Spec

\* flush() fails only when no function can execute the operation: one whose
\* compute routine never fails is found before the flush gives up.
THEOREM ExecutableCorrect ==
  ASSUME OneTileSet, "sync" \notin Failures, "list" \notin Failures
  PROVE  Spec => []ExecutableIsExecuted
<1>1. LengthInv => ExecutableIsExecuted
  BY DEF LengthInv, Robust, ExecutableIsExecuted
<1> QED
  BY <1>1, FailedLengthCorrect, PTL
----------------------------------------------------------------------------
\* The operation outlives its flushes

\* When an operation is finished, all that is ever wanted of it is evaluated.
EvaluatedInv == evaluated \/ ~alive => \A t \in Threads : Base(t) \subseteq Ev

\* A failed flush leaves the list's iterator at the beginning, or there is none.
Recoverable == ~Split \/ AllExecutable

LEMMA EvaluatedStep ==
  ASSUME TogetherInv, LengthInv, EvaluatedInv, OneTileSet, Recoverable,
         ~Split => PosInv, "sync" \notin Failures, "list" \notin Failures,
         NEW t \in Threads, Step(t)
  PROVE  EvaluatedInv'
<1> USE DEF TogetherInv, IInv
<1>1. \A s : Base(s)' = Base(s)
  BY OperationKept DEF Step, Base
<1>2. Ev \subseteq Ev'
  BY EvMonotone
<1>3. CASE GiveUp(t)
  <2>1. ~Split
    BY <1>3, NoGiveUp DEF Recoverable, AllExecutable, Robust, Chains, MayFail, TypeOK
  <2>2. pos[t] = 1
    BY <1>3, <2>1 DEF PosInv, GiveUp, InFlush
  <2>3. Ev' = Ev \cup (Listed(t) \cap Tiles)
    BY <1>3, <2>2, RemainingListed, EvAfter DEF GiveUp
  <2>4. Base(t) \subseteq Ev'
    BY <1>3, <2>3, BaseListed, ListedTyped DEF GiveUp
  <2>5. \A s \in Threads : Base(s) = Base(t)
    BY BaseSame
  <2> QED
    BY <1>1, <2>4, <2>5 DEF EvaluatedInv
<1>4. CASE ~GiveUp(t)
  <2>1. evaluated' \/ ~alive' => AllTilesDone \/ evaluated \/ ~alive
    <3> USE DEF opVars, TypeOK
    <3>1. CASE UpdateStatus(t)
      BY <3>1 DEF UpdateStatus, Enter, NoListOfAll, NothingToFlush, FoundDeferred,
         FoundExecuting, Wake, Aquire, Release
    <3>2. CASE SelectFunction(t)
      BY <1>4, <3>2 DEF SelectFunction, UseFunction, FindFunction, RejectMolecule,
         NoListForMolecule, NoListOfAll,
         SwitchToAlternateOp, SyncDevice
    <3>3. CASE Execute(t)
      BY <3>3 DEF Execute, ExecuteTile, EndOfList, ExecuteWhole, Relock
    <3>4. CASE Conclude(t)
      BY <3>4 DEF Conclude, NextEmptyTile, FinishEmptyTile, FinishEmptyList,
         Retry, Finish, Release
    <3> QED
      BY <3>1, <3>2, <3>3, <3>4 DEF Step
  <2>2. AllTilesDone => Ev' = Tiles
    BY DEF AllTilesDone, Ev
  <2>3. \A s \in Threads : Base(s) \subseteq Tiles
    BY FlushAssumption DEF Base, Needs
  <2> QED
    BY <1>1, <1>2, <2>1, <2>2, <2>3 DEF EvaluatedInv
<1> QED
  BY <1>3, <1>4

\* An operation is deleted with its last reference only.
LEMMA DeletedLast ==
  ASSUME TypeOK, FuncInv, "sync" \notin Failures, "list" \notin Failures,
         NEW t \in Threads, Step(t),
         alive, ~alive'
  PROVE  refCount = 1 /\ pc[t] \in Held /\ pc'[t] \notin Held
<1> USE DEF Held, InFlush, opVars
<1>1. CASE UpdateStatus(t)
  BY <1>1 DEF TypeOK, UpdateStatus, Enter, NoListOfAll, NothingToFlush, FoundDeferred,
     FoundExecuting, Wake, Goto, Aquire, Release
<1>2. CASE SelectFunction(t)
  BY <1>2 DEF TypeOK, SelectFunction, UseFunction, FindFunction, RejectMolecule,
     NoListForMolecule, NoListOfAll,
     SwitchToAlternateOp, GiveUp, SyncDevice, BroadcastAndGoto, Release
<1>3. CASE Execute(t)
  BY <1>3 DEF Execute, ExecuteTile, EndOfList, ExecuteWhole, Relock
<1>4. CASE Conclude(t)
  BY <1>4 DEF TypeOK, Conclude, NextEmptyTile, FinishEmptyTile, FinishEmptyList,
     Retry, Finish, BroadcastAndGoto, Release
<1> QED
  BY <1>1, <1>2, <1>3, <1>4 DEF Step

LEMMA OnlyHolder ==
  ASSUME TypeOK, ReferencesExact, refCount = 1, NEW t \in Threads, pc[t] \in Held,
         NEW s \in Threads, pc[s] \in Held
  PROVE  s = t
<1>1. IsFiniteSet(Holders) /\ Cardinality(Holders) = 1 /\ s \in Holders /\ t \in Holders
  <2>1. IsFiniteSet(Holders)
    BY FlushAssumption, FS_Subset DEF Holders
  <2>2. Cardinality(Holders) = 1
    BY DEF ReferencesExact, Holders, Held
  <2> QED
    BY <2>1, <2>2 DEF Holders
<1> QED
  BY <1>1, FS_Singleton

LEMMA AliveStep ==
  ASSUME TogetherInv, EvaluatedInv, ReferencesExact, OpOutlivesFlushes,
         "sync" \notin Failures, "list" \notin Failures, NEW t \in Threads, Step(t)
  PROVE  OpOutlivesFlushes'
<1> USE DEF TogetherInv, IInv
<1> SUFFICES ASSUME NEW s \in Threads, pc'[s] \in Held PROVE alive'
  BY DEF OpOutlivesFlushes, Held
<1>1. CASE alive
  <2> SUFFICES ASSUME ~alive' PROVE FALSE
    OBVIOUS
  <2>1. refCount = 1 /\ pc[t] \in Held /\ pc'[t] \notin Held
    BY <1>1, DeletedLast
  <2>2. s # t /\ pc[s] \in Held
    BY <2>1, OthersKept DEF Held
  <2> QED
    BY <2>1, <2>2, OnlyHolder
<1>2. CASE ~alive
  <2>1. \A u \in Threads : pc[u] \notin Held
    BY <1>2 DEF OpOutlivesFlushes, Held
  <2>2. s = t
    BY <2>1, OthersKept DEF Held
  <2>3. FoundDeferred(t) \/ FoundExecuting(t)
    <3>1. CASE UpdateStatus(t)
      BY <2>1, <2>2, <3>1 DEF TypeOK, UpdateStatus, Enter, NoListOfAll, NothingToFlush,
         Wake, Goto,
         Held, InFlush
    <3>2. CASE SelectFunction(t) \/ Execute(t) \/ Conclude(t)
      BY <2>1, <3>2 DEF Held, InFlush, SelectFunction, UseFunction, FindFunction,
         RejectMolecule, NoListForMolecule, NoListOfAll, SwitchToAlternateOp, GiveUp,
         SyncDevice, Execute,
         ExecuteTile, EndOfList, ExecuteWhole, Relock, Conclude, NextEmptyTile,
         FinishEmptyTile, FinishEmptyList, Retry, Finish
    <3> QED
      BY <3>1, <3>2 DEF Step
  <2>4. PICK k \in DOMAIN TileList(t) : opStatusOf[TileList(t)[k]] # "evaluated"
    BY <2>3 DEF FoundDeferred, FoundExecuting, NeedsFlush, OpenEntry
  <2>5. TileList(t)[k] \in Base(t)
    BY <2>3, ScanListed DEF FoundDeferred, FoundExecuting, Listed
  <2> QED
    BY <1>2, <2>4, <2>5 DEF EvaluatedInv, Ev
<1> QED
  BY <1>1, <1>2

LEMMA OutliveNext ==
  ASSUME TogetherInv, LengthInv, ReferencesExact, EvaluatedInv, OpOutlivesFlushes,
         OneTileSet, Recoverable, ~Split => PosInv, "sync" \notin Failures,
         "list" \notin Failures,
         [Next]_vars
  PROVE  EvaluatedInv' /\ OpOutlivesFlushes'
<1>1. CASE UNCHANGED vars \/ \E t \in Threads : SpuriousWakeup(t)
  <2>1. /\ UNCHANGED <<operation, opStatusOf, evaluated, alive>>
        /\ \A s \in Threads : pc'[s] = pc[s] \/ (pc[s] = "asleep" /\ pc'[s] = "awake")
    BY <1>1 DEF vars, opVars, SpuriousWakeup, Goto, TogetherInv, IInv, TypeOK
  <2>2. \A s : Base(s)' = Base(s)
    BY <2>1, OperationKept DEF Base
  <2> QED
    BY <2>1, <2>2 DEF EvaluatedInv, Ev, OpOutlivesFlushes
<1>2. ASSUME NEW t \in Threads, Step(t) PROVE EvaluatedInv' /\ OpOutlivesFlushes'
  BY <1>2, EvaluatedStep, AliveStep
<1> QED
  BY <1>1, <1>2 DEF Next, AllReturned

LEMMA PosNext ==
  ASSUME TypeOK, FuncInv, PosInv, ~Split, [Next]_vars
  PROVE  PosInv'
<1>1. CASE UNCHANGED vars \/ \E t \in Threads : SpuriousWakeup(t)
  BY <1>1 DEF vars, threadVars, PosInv, InFlush, SpuriousWakeup, Goto, TypeOK
<1>2. ASSUME NEW t \in Threads, Step(t) PROVE PosInv'
  BY <1>2, PosStep
<1> QED
  BY <1>1, <1>2 DEF Next, AllReturned

\* The operation is not deleted while a thread is in flush() after
\* updateStatus() or asleep on its condition variable, when syncForWriting()
\* does not fail and either a failed execution does not end in the middle of
\* the list or every operation has a function that does not fail.
THEOREM OutlivesCorrect ==
  ASSUME OneTileSet, "sync" \notin Failures, "list" \notin Failures, ~Split \/ AllExecutable
  PROVE  Spec => []OpOutlivesFlushes
<1>1. Init => EvaluatedInv /\ OpOutlivesFlushes /\ PosInv
  BY DEF Init, EvaluatedInv, OpOutlivesFlushes, PosInv
<1>2. IInv /\ (~Split => PosInv) /\ [Next]_vars => (~Split => PosInv')
  BY PosNext DEF IInv
<1>3. TogetherInv /\ LengthInv /\ ReferencesExact /\ (~Split => PosInv)
        /\ EvaluatedInv /\ OpOutlivesFlushes /\ [Next]_vars
        => EvaluatedInv' /\ OpOutlivesFlushes'
  BY OutliveNext DEF Recoverable
<1>4. TogetherInv => IInv
  BY DEF TogetherInv
<1>5. Spec => [](~Split => PosInv)
  <2>1. (~Split => PosInv)' <=> (~Split => PosInv')
    OBVIOUS
  <2> QED
    BY <1>1, <1>2, <2>1, InvCorrect, PTL DEF Spec
<1> QED
  BY <1>1, <1>3, <1>4, <1>5, OneFlushCorrect, FailedLengthCorrect,
     ReferencesCorrect, PTL DEF Spec
=============================================================================
