------------------------------ MODULE OpFlush ------------------------------
(***************************************************************************)
(* XilOp::flush(XilTileList* ): the threads that need tiles of one         *)
(* deferred operation's destination bring them up to date.  All of them    *)
(* come through the storage mutex of that destination, which flush() holds *)
(* except while the scheduler executes the operation, while it sleeps on   *)
(* opStatusCondVar and while syncForWriting() flushes other operations.    *)
(*                                                                         *)
(* Abstractions: a function of the op tree is the number of operations it  *)
(* replaces (0 is NULL); a tile is computed in one step, at which the      *)
(* compute routine may fail.  Operations without destination and           *)
(* forward-mapping operations are left out, and so is the list that        *)
(* reorderTileProcessing() makes (of XilOpCopy alone): the tiles of tl are *)
(* those of the caller's list, in its order, or all.                       *)
(***************************************************************************)
EXTENDS Integers, Sequences, FiniteSets

CONSTANTS Threads,        \* threads that need tiles of this destination
          Nobody,         \* the owner of a free mutex
          NumTiles,       \* tiles of the destination
          Wants,          \* the tile list every thread comes with
          Operations,     \* the operations to consider, see Operation
          MaxLength,      \* UINT_MAX: longer than every chain
          Split,          \* the scheduler starts threads for every tile
          Failures        \* "sync": syncForWriting() may fail; "boxes" and
                          \* "list": generateBoxList() may run out of memory,
                          \* and so may makeTileListForEntireDst()

Tiles == 1..NumTiles

\* What flush() finds out about an operation: how much of every tile it has to
\* compute; the lengths of the functions the op tree holds for it and those
\* that pass the tests of flush() for a molecule, must get the whole
\* destination, have a compute routine that may fail; whether
\* switchToAlternateOp() succeeds (once); whether it writes to an I/O device.
Operation ==
    [area : [Tiles -> {"all", "part", "none"}],
     chains : SUBSET (1..MaxLength), molecules : SUBSET (2..MaxLength),
     noSplit : SUBSET (1..MaxLength), mayFail : SUBSET (1..MaxLength),
     hasAlternate : BOOLEAN, isIO : BOOLEAN]

ASSUME FlushAssumption ==
    /\ Nobody \notin Threads
    /\ IsFiniteSet(Threads)
    /\ NumTiles \in Nat \ {0}
    /\ Wants \in [Threads -> Seq(Tiles)]
    \* as getTileList() makes them: without repetitions
    /\ \A t \in Threads : Len(Wants[t]) = NumTiles
                            => \A i \in Tiles : \E n \in DOMAIN Wants[t] : Wants[t][n] = i
    /\ MaxLength \in Nat \ {0}
    /\ \A op \in Operations : op \in Operation /\ op.molecules \subseteq op.chains
    /\ Split \in BOOLEAN
    /\ Failures \subseteq {"sync", "boxes", "list"}

VARIABLES
    operation,   \* the XilOp that writes to the destination
    pc,          \* where every thread is in flush()
    mutex,       \* owner of the destination's storageMutex
    whole,       \* tl is the list of all tiles (can_be_split is FALSE)
    pos,         \* tl->currentEntry, counted from 1
    length,      \* the function given to the scheduler (cop.functionLength)
    failed,      \* exec_status = XIL_FAILURE
    empties,     \* cop.emptyFlushList
    answer,      \* what flush() returned
    opStatusOf,  \* opStatusArray of the destination's queue entry
    refCount,    \* XilOp::refCount
    evaluated,   \* XilOp::opStatus = XILI_EVALUATED
    alive,       \* the XilOp has not been deleted
    funcDef, funcLength,
    opList,      \* length of the molecule's list of operations, 0 is NULL
    switched,    \* switchToAlternateOp() has succeeded
    valid,       \* the destination has not been marked as invalid
    computed     \* history: tiles with nothing left to compute

threadVars == <<whole, pos, length, failed, empties, answer>>
opVars     == <<refCount, evaluated, alive>>
funcVars   == <<funcDef, funcLength, opList, switched>>
vars == <<operation, pc, mutex, threadVars, opStatusOf, opVars, funcVars, valid,
          computed>>

Area == operation.area
Chains == operation.chains
Molecules == operation.molecules
NoSplit == operation.noSplit
MayFail == operation.mayFail

PCs == {"idle", "scan", "asleep", "awake", "select", "device", "execute",
        "relock", "empties", "emptyTile", "emptyList", "returned"}

TypeOK ==
    /\ operation \in Operations
    /\ pc \in [Threads -> PCs]
    /\ mutex \in Threads \cup {Nobody}
    /\ whole \in [Threads -> BOOLEAN]
    /\ pos \in [Threads -> Nat \ {0}]
    /\ length \in [Threads -> {0} \cup Chains]
    /\ failed \in [Threads -> BOOLEAN]
    /\ empties \in [Threads -> Seq(Tiles)]
    /\ answer \in [Threads -> {"none", "success", "failure"}]
    /\ opStatusOf \in [Tiles -> {"deferred", "executing", "evaluated"}]
    /\ refCount \in Int
    /\ funcDef \in {0} \cup Chains
    /\ funcLength \in 0..MaxLength
    /\ opList \in {0} \cup Molecules
    /\ evaluated \in BOOLEAN /\ alive \in BOOLEAN
    /\ switched \in BOOLEAN /\ valid \in BOOLEAN
    /\ computed \subseteq Tiles

Init ==
    /\ operation \in Operations
    /\ pc = [t \in Threads |-> "idle"]
    /\ mutex = Nobody
    /\ whole = [t \in Threads |-> FALSE]
    /\ pos = [t \in Threads |-> 1]
    /\ length = [t \in Threads |-> 0]
    /\ failed = [t \in Threads |-> FALSE]
    /\ empties = [t \in Threads |-> <<>>]
    /\ answer = [t \in Threads |-> "none"]
    /\ opStatusOf = [i \in Tiles |-> "deferred"]
    /\ refCount = 0 /\ evaluated = FALSE /\ alive = TRUE
    /\ funcDef = 0 /\ funcLength = MaxLength
    /\ opList = 0 /\ switched = FALSE
    /\ valid = TRUE
    /\ computed = {i \in Tiles : Area[i] = "none"}
----------------------------------------------------------------------------
\* Helpers

\* A list that names every tile already is kept.
ListOf(t, all) == IF all /\ Len(Wants[t]) # NumTiles THEN [i \in Tiles |-> i]
                                                      ELSE Wants[t]
TileList(t) == ListOf(t, whole[t])

\* The tiles getNextTileNumber() still delivers before it rewinds the list.
Remaining(t) == {TileList(t)[i] : i \in pos[t]..Len(TileList(t))}

\* XILI_EVALUATED is sticky.
SetOpStatus(S, status) ==
    opStatusOf' = [i \in Tiles |->
        IF i \in S /\ opStatusOf[i] # "evaluated" THEN status ELSE opStatusOf[i]]

AllTilesDone == \A i \in Tiles : opStatusOf'[i] = "evaluated"

Aquire == /\ refCount' = refCount + 1
          /\ UNCHANGED <<evaluated, alive>>

\* Variants: release() that forgets the other references, and one that counts
\* only when the operation is evaluated
ReleaseEager(done) ==
    /\ refCount' = refCount - 1
    /\ evaluated' = done
    /\ alive' = (alive /\ ~done)
ReleaseWhenDone(done) ==
    /\ refCount' = IF done THEN refCount - 1 ELSE refCount
    /\ evaluated' = done
    /\ alive' = (alive /\ ~(refCount = 1 /\ done))

\* The last reference to an evaluated operation deletes it.
Release(done) ==
    /\ refCount' = refCount - 1
    /\ evaluated' = done
    /\ alive' = (alive /\ ~(refCount = 1 /\ done))

\* opStatusCondVar.broadcast(), together with thread t going to l
Goto(t, l) == pc' = [pc EXCEPT ![t] = l]
\* Variants: nobody, and only one thread is woken
GotoSilently(t, l) == pc' = [pc EXCEPT ![t] = l]
SignalAndGoto(t, l) ==
    IF \A s \in Threads : pc[s] # "asleep"
    THEN Goto(t, l)
    ELSE \E s \in Threads : /\ pc[s] = "asleep"
                            /\ pc' = [pc EXCEPT ![t] = l, ![s] = "awake"]

BroadcastAndGoto(t, l) ==
    pc' = [s \in Threads |-> IF s = t THEN l
                             ELSE IF pc[s] = "asleep" THEN "awake" ELSE pc[s]]

Return(t, status) == answer' = [answer EXCEPT ![t] = status]

\* Variant: one that skips a length
ShorterByTwo(n) == IF n <= 1 THEN 0 ELSE n - 2

\* funcLength--, an unsigned int
Shorter(n) == IF n = 0 THEN MaxLength ELSE n - 1

\* What findLongestOpChain() finds: no function is longer than funcLength.
LongestOpChain(n) == /\ n \in Chains /\ n <= funcLength
                     /\ \A m \in Chains : m <= funcLength => m <= n
NoOpChain == \A n \in Chains : n > funcLength
----------------------------------------------------------------------------
\* updateStatus()

\* The list of all tiles has to be made, and there is no memory for it.
NoListOfAll(t) == "list" \in Failures /\ Len(Wants[t]) # NumTiles

\* getStorage() locks the storage mutex and syncForReading() flushes the
\* operation of the queue entry; an operation that is gone needs no flush.
Enter(t) ==
    /\ pc[t] = "idle" /\ mutex = Nobody
    /\ \/ /\ alive
          /\ mutex' = t
          /\ whole' = [whole EXCEPT ![t] = (1 \in NoSplit)]
          /\ Goto(t, "scan")
          /\ UNCHANGED answer
       \/ /\ ~alive
          /\ Return(t, "success")
          /\ Goto(t, "returned")
          /\ UNCHANGED <<mutex, whole>>
       \/ /\ alive /\ 1 \in NoSplit /\ NoListOfAll(t)
          /\ Return(t, "failure")
          /\ Goto(t, "returned")
          /\ UNCHANGED <<mutex, whole>>
    /\ UNCHANGED <<pos, length, failed, empties, opStatusOf, opVars, funcVars,
                   valid, computed>>

\* Entry i is the first of the tile list that is not evaluated.
OpenEntry(t, i) ==
    /\ i \in pos[t]..Len(TileList(t))
    /\ opStatusOf[TileList(t)[i]] # "evaluated"
    /\ \A j \in pos[t]..i-1 : opStatusOf[TileList(t)[j]] = "evaluated"

NeedsFlush(t, i) == OpenEntry(t, i) /\ opStatusOf[TileList(t)[i]] = "deferred"

\* Variant: updateStatus() does not wait for the tiles of other threads.
NoneDeferred(t) == \A i \in Remaining(t) : opStatusOf[i] # "deferred"

AllEvaluated(t) == \A i \in Remaining(t) : opStatusOf[i] = "evaluated"

NothingToFlush(t) ==
    /\ pc[t] = "scan" /\ mutex = t
    /\ AllEvaluated(t)
    /\ pos' = [pos EXCEPT ![t] = 1]
    /\ mutex' = Nobody
    /\ Return(t, "success")
    /\ Goto(t, "returned")
    /\ UNCHANGED <<whole, length, failed, empties, opStatusOf, opVars,
                   funcVars, valid, computed>>

\* The list is reset and all of its tiles will be executed.
FoundDeferred(t) ==
    /\ pc[t] = "scan" /\ mutex = t
    /\ \E i \in DOMAIN TileList(t) : NeedsFlush(t, i)
    /\ pos' = [pos EXCEPT ![t] = 1]
    /\ failed' = [failed EXCEPT ![t] = TRUE]
    /\ Aquire
    /\ Goto(t, "select")
    /\ UNCHANGED <<mutex, whole, length, empties, answer, opStatusOf, funcVars,
                   valid, computed>>

FoundExecuting(t) ==
    /\ pc[t] = "scan" /\ mutex = t
    /\ \E i \in DOMAIN TileList(t) :
          /\ OpenEntry(t, i) /\ opStatusOf[TileList(t)[i]] = "executing"
          /\ pos' = [pos EXCEPT ![t] = i]
    /\ Aquire
    /\ mutex' = Nobody
    /\ Goto(t, "asleep")
    /\ UNCHANGED <<whole, length, failed, empties, answer, opStatusOf,
                   funcVars, valid, computed>>

\* wait() returns with the storage mutex; the test is repeated.
Wake(t) ==
    /\ pc[t] = "awake" /\ mutex = Nobody
    /\ IF opStatusOf[TileList(t)[pos[t]]] = "evaluated"
       THEN /\ Release(evaluated)
            /\ pos' = [pos EXCEPT ![t] = @ + 1]
            /\ mutex' = t
            /\ Goto(t, "scan")
       ELSE /\ Goto(t, "asleep")
            /\ UNCHANGED <<opVars, pos, mutex>>
    /\ UNCHANGED <<whole, length, failed, empties, answer, opStatusOf,
                   funcVars, valid, computed>>

\* A condition variable may wake a thread up without a broadcast.
SpuriousWakeup(t) ==
    /\ pc[t] = "asleep"
    /\ Goto(t, "awake")
    /\ UNCHANGED <<operation, mutex, threadVars, opStatusOf, opVars, funcVars,
                   valid, computed>>

----------------------------------------------------------------------------
\* The loop of flush(): find a function, mark the tiles, execute

\* Marks the tiles of tl as executing and gives up the mutex: to the scheduler,
\* or to the flushes syncForWriting() does before.
MarkTilesAndGo(t, n, all) ==
    /\ IF ListOf(t, all) = TileList(t)
       THEN SetOpStatus(Remaining(t), "executing")
       ELSE SetOpStatus(Tiles, "executing")
    /\ pos' = [pos EXCEPT ![t] = 1]
    /\ whole' = [whole EXCEPT ![t] = all]
    /\ length' = [length EXCEPT ![t] = n]
    /\ failed' = [failed EXCEPT ![t] = FALSE]
    /\ mutex' = Nobody
    /\ Goto(t, CASE \A i \in Tiles : Area[i] = "none" -> "emptyList"
                 [] n > 1 /\ operation.isIO -> "device"
                 [] OTHER -> "execute")

\* Another thread or tile has filled funcDef already.
UseFunction(t) ==
    /\ pc[t] = "select" /\ mutex = t
    /\ funcDef # 0
    /\ MarkTilesAndGo(t, funcLength, whole[t])
    /\ UNCHANGED <<empties, answer, opVars, funcVars, valid, computed>>

\* can_be_split becomes FALSE for a molecule with an operation that cannot.
\* Variant: only the bottom operation is asked.
BottomNeedsWhole(t, n) == whole[t]
NeedsWhole(t, n) == whole[t] \/ (n > 1 /\ n \in NoSplit)

FindFunction(t) ==
    /\ pc[t] = "select" /\ mutex = t
    /\ funcDef = 0
    /\ \E found \in Molecules \cup {1} :
          /\ LongestOpChain(found)
          /\ funcDef' = found /\ funcLength' = found
          /\ opList' = IF found > 1 THEN found ELSE opList
          /\ MarkTilesAndGo(t, found, NeedsWhole(t, found))
    /\ UNCHANGED <<empties, answer, opVars, switched, valid, computed>>

\* The molecule found needs the list of all tiles.  Without it flush() returns
\* with the molecule as its function, keeps its reference and wakes up nobody.
NoListForMolecule(t) ==
    /\ pc[t] = "select" /\ mutex = t
    /\ funcDef = 0 /\ NoListOfAll(t)
    /\ \E found \in Molecules \cap NoSplit :
          /\ LongestOpChain(found)
          /\ funcDef' = found /\ funcLength' = found /\ opList' = found
    /\ mutex' = Nobody
    /\ Return(t, "failure")
    /\ Goto(t, "returned")
    /\ UNCHANGED <<whole, pos, length, failed, empties, opStatusOf, opVars,
                   switched, valid, computed>>

\* One of the operations cannot be in a molecule: look for a shorter one.
RejectMolecule(t) ==
    /\ pc[t] = "select" /\ mutex = t
    /\ funcDef = 0
    /\ \E found \in Chains \ (Molecules \cup {1}) :
          /\ LongestOpChain(found)
          /\ funcLength' = found - 1
    /\ UNCHANGED <<pc, mutex, threadVars, opStatusOf, opVars, funcDef, opList,
                   switched, valid, computed>>

SwitchToAlternateOp(t) ==
    /\ pc[t] = "select" /\ mutex = t
    /\ funcDef = 0 /\ NoOpChain
    /\ operation.hasAlternate /\ ~switched
    /\ switched' = TRUE
    /\ funcLength' = MaxLength
    /\ UNCHANGED <<pc, mutex, threadVars, opStatusOf, opVars, funcDef, opList,
                   valid, computed>>

\* No function is left.  What is left of the tile list is marked as evaluated.
GiveUp(t) ==
    /\ pc[t] = "select" /\ mutex = t
    /\ funcDef = 0 /\ NoOpChain
    /\ ~operation.hasAlternate \/ switched
    /\ funcLength' = 0
    /\ valid' = FALSE
    /\ SetOpStatus(Remaining(t), "evaluated")
    /\ pos' = [pos EXCEPT ![t] = 1]
    /\ Release(TRUE)
    /\ mutex' = Nobody
    /\ Return(t, "failure")
    /\ BroadcastAndGoto(t, "returned")
    /\ UNCHANGED <<whole, length, failed, empties, funcDef, opList, switched,
                   computed>>

\* A molecule that writes to a device: the flush fails with its tiles marked.
SyncDevice(t) ==
    /\ pc[t] = "device" /\ mutex = Nobody
    /\ \/ Goto(t, "execute") /\ UNCHANGED <<answer, opVars>>
       \/ /\ "sync" \in Failures
          /\ Release(TRUE)
          /\ Return(t, "failure")
          /\ Goto(t, "returned")
    /\ UNCHANGED <<mutex, whole, pos, length, failed, empties, opStatusOf,
                   funcVars, valid, computed>>
----------------------------------------------------------------------------
\* XiliScheduler::execute() and executeWithNoSplit(), without the mutex

Succeeds(t, S) ==
    /\ computed' = computed \cup S
    /\ UNCHANGED failed

Fails(t) ==
    /\ length[t] \in MayFail
    /\ failed' = [failed EXCEPT ![t] = TRUE]
    /\ UNCHANGED computed

\* The loop over the tiles goes on after a failure, unless threads have been
\* started for the tile.  The tile is listed as empty when nothing was left of
\* it, of a strip or of the caller's part, but not in every such case.
ExecuteTile(t) ==
    /\ pc[t] = "execute" /\ ~whole[t] /\ pos[t] <= Len(TileList(t))
    /\ pos' = [pos EXCEPT ![t] = @ + 1]
    /\ LET i == TileList(t)[pos[t]]
           AddEmpty == empties' = [empties EXCEPT ![t] = Append(@, i)]
           ThreadsFail == Split /\ Fails(t) /\ Goto(t, "relock")
       IN  \/ /\ opStatusOf[i] # "executing"
              /\ UNCHANGED <<pc, failed, empties, computed>>
           \/ /\ opStatusOf[i] = "executing" /\ Area[i] = "none"
              /\ AddEmpty
              /\ UNCHANGED <<pc, failed, computed>>
           \/ /\ opStatusOf[i] = "executing" /\ Area[i] # "none"
              /\ \/ UNCHANGED empties
                 \/ Split /\ Area[i] = "part" /\ AddEmpty
              /\ \/ (Succeeds(t, {i}) \/ Fails(t)) /\ UNCHANGED pc
                 \/ ThreadsFail
           \/ /\ opStatusOf[i] = "executing" /\ Area[i] # "none"
              /\ "boxes" \in Failures
              /\ AddEmpty
              /\ UNCHANGED <<pc, failed, computed>> \/ ThreadsFail
    /\ UNCHANGED <<mutex, whole, length, answer, opStatusOf, opVars, funcVars,
                   valid>>

\* Variant: getNextTileNumber() does not rewind the list.
EndOfListOnce(t) ==
    /\ pc[t] = "execute" /\ ~whole[t] /\ pos[t] > Len(TileList(t))
    /\ Goto(t, "relock")
    /\ UNCHANGED <<mutex, threadVars, opStatusOf, opVars, funcVars, valid,
                   computed>>

EndOfList(t) ==
    /\ pc[t] = "execute" /\ ~whole[t] /\ pos[t] > Len(TileList(t))
    /\ pos' = [pos EXCEPT ![t] = 1]
    /\ Goto(t, "relock")
    /\ UNCHANGED <<mutex, whole, length, failed, empties, answer, opStatusOf,
                   opVars, funcVars, valid, computed>>

\* executeWithNoSplit() does not look at the tiles.
ExecuteWhole(t) ==
    /\ pc[t] = "execute" /\ whole[t]
    /\ \/ (Succeeds(t, Tiles) \/ Fails(t)) /\ UNCHANGED empties
       \/ /\ "boxes" \in Failures
          /\ empties' = [empties EXCEPT ![t] = <<1>>]
          /\ UNCHANGED <<computed, failed>>
    /\ Goto(t, "relock")
    /\ UNCHANGED <<mutex, whole, pos, length, answer, opStatusOf,
                   opVars, funcVars, valid>>

Relock(t) ==
    /\ pc[t] = "relock" /\ mutex = Nobody
    /\ mutex' = t
    /\ Goto(t, "empties")
    /\ UNCHANGED <<threadVars, opStatusOf, opVars, funcVars, valid, computed>>
----------------------------------------------------------------------------
\* After the execution

NextEmptyTile(t) ==
    /\ pc[t] = "empties" /\ mutex = t
    /\ empties[t] # <<>>
    /\ mutex' = Nobody
    /\ Goto(t, "emptyTile")
    /\ UNCHANGED <<threadVars, opStatusOf, opVars, funcVars, valid, computed>>

\* finishEmptyFlush(tile_number, tile_list_mutex)
FinishEmptyTile(t) ==
    /\ pc[t] = "emptyTile" /\ mutex = Nobody
    /\ mutex' = t
    /\ empties' = [empties EXCEPT ![t] = Tail(@)]
    /\ \/ /\ SetOpStatus({Head(empties[t])}, "evaluated")
          /\ evaluated' = (evaluated \/ AllTilesDone)
          /\ BroadcastAndGoto(t, "empties")
          /\ UNCHANGED <<failed, refCount, alive>>
       \/ /\ "sync" \in Failures
          /\ Release(evaluated)
          /\ failed' = [failed EXCEPT ![t] = TRUE]
          /\ Goto(t, "empties")
          /\ UNCHANGED opStatusOf
    /\ UNCHANGED <<whole, pos, length, answer, funcVars, valid, computed>>

\* finishEmptyFlush(tile_list): the operation has nothing to compute at all.
FinishEmptyList(t) ==
    /\ pc[t] = "emptyList" /\ mutex = Nobody
    /\ \/ /\ SetOpStatus(Remaining(t), "evaluated")
          /\ Release(evaluated \/ AllTilesDone)
          /\ Return(t, "success")
          /\ BroadcastAndGoto(t, "returned")
       \/ /\ "sync" \in Failures
          /\ Release(evaluated)
          /\ Return(t, "failure")
          /\ Goto(t, "returned")
          /\ UNCHANGED opStatusOf
    /\ UNCHANGED <<mutex, whole, pos, length, failed, empties, funcVars, valid,
                   computed>>

\* The function failed: forget it and try one that replaces fewer operations.
Retry(t) ==
    /\ pc[t] = "empties" /\ mutex = t /\ empties[t] = <<>>
    /\ failed[t]
    /\ opList' = IF funcLength > 1 THEN 0 ELSE opList
    /\ funcDef' = 0
    /\ funcLength' = Shorter(funcLength)
    /\ Goto(t, "select")
    /\ UNCHANGED <<mutex, threadVars, opStatusOf, opVars, switched, valid,
                   computed>>

Finish(t) ==
    /\ pc[t] = "empties" /\ mutex = t /\ empties[t] = <<>>
    /\ ~failed[t]
    /\ SetOpStatus(Remaining(t), "evaluated")
    /\ pos' = [pos EXCEPT ![t] = 1]
    /\ Release(evaluated \/ AllTilesDone)
    /\ mutex' = Nobody
    /\ Return(t, "success")
    /\ BroadcastAndGoto(t, "returned")
    /\ UNCHANGED <<whole, length, failed, empties, funcVars, valid, computed>>
----------------------------------------------------------------------------
UpdateStatus(t) == Enter(t) \/ NothingToFlush(t) \/ FoundDeferred(t)
                     \/ FoundExecuting(t) \/ Wake(t)
SelectFunction(t) == UseFunction(t) \/ FindFunction(t) \/ NoListForMolecule(t)
                       \/ RejectMolecule(t) \/ SwitchToAlternateOp(t)
                       \/ GiveUp(t) \/ SyncDevice(t)
Execute(t) == ExecuteTile(t) \/ EndOfList(t) \/ ExecuteWhole(t) \/ Relock(t)
Conclude(t) == NextEmptyTile(t) \/ FinishEmptyTile(t) \/ FinishEmptyList(t)
                 \/ Retry(t) \/ Finish(t)

\* Every thread has what it wanted.
AllReturned == (\A t \in Threads : pc[t] = "returned") /\ UNCHANGED vars

Step(t) == /\ UpdateStatus(t) \/ SelectFunction(t) \/ Execute(t) \/ Conclude(t)
           /\ UNCHANGED operation
Next == (\E t \in Threads : Step(t) \/ SpuriousWakeup(t)) \/ AllReturned
Spec == Init /\ [][Next]_vars
FairSpec == Spec /\ \A t \in Threads : WF_vars(Step(t))
----------------------------------------------------------------------------
\* Properties

InFlush == {"select", "device", "execute", "relock", "empties", "emptyTile",
            "emptyList"}

\* A flush that returns XIL_SUCCESS leaves every tile of its list evaluated,
\* and computed where the operation has anything to compute, unless the
\* destination has been marked as invalid (setOpStatus() at the end of
\* flush(), finishEmptyFlush() and the early return after updateStatus()).
SuccessMeansComputed ==
    valid => \A t \in Threads : answer[t] = "success" =>
        \A n \in DOMAIN Wants[t] : /\ opStatusOf[Wants[t][n]] = "evaluated"
                                   /\ Wants[t][n] \in computed

\* refCount is the number of threads that execute the operation or sleep on
\* its condition variable: every path out of flush() and updateStatus()
\* releases what it acquired, once.  (True of all paths but two error paths:
\* a failing finishEmptyFlush() for a tile releases what flush() releases again,
\* and flush() keeps its reference when it has no memory for the list of all
\* tiles that a molecule needs.)
ReferencesExact ==
    refCount = Cardinality({t \in Threads : pc[t] \in InFlush \cup {"asleep", "awake"}})

\* The operation is not deleted while a thread is in flush() after
\* updateStatus() or asleep on its condition variable (aquire(), release()).
OpOutlivesFlushes ==
    \A t \in Threads : pc[t] \in InFlush \cup {"asleep", "awake"} => alive

\* A tile that is marked as executing is on the list of a thread that will
\* mark it as evaluated: nobody sleeps for a tile that no thread works on.
NoOrphanTile ==
    \A i \in Tiles : opStatusOf[i] = "executing" =>
        \E t \in Threads : pc[t] \in InFlush /\ \E n \in DOMAIN TileList(t) : TileList(t)[n] = i

\* Threads that sleep on opStatusCondVar have something to wait for: no
\* broadcast is missed between the test of the status and wait(), on the paths
\* that fail too.
SleepersHaveReason ==
    \A t \in Threads : pc[t] = "asleep" => opStatusOf[TileList(t)[pos[t]]] = "executing"

\* The list of operations of a molecule is not freed while the scheduler
\* executes the molecule (opList in flush() and generateBoxList()).
MoleculeListKept ==
    \A t \in Threads : pc[t] = "execute" /\ length[t] > 1 => opList = length[t]

\* A function that cannot be split is only ever executed for the whole
\* destination, whichever thread has selected it (can_be_split in flush()), as
\* long as there is memory for the list of all tiles: a flush that returns
\* without it leaves its function to the others.
NoSplitRespected ==
    \A t \in Threads : pc[t] = "execute" /\ length[t] \in NoSplit => whole[t]

\* An operation that cannot be split is executed by one thread at a time: the
\* others find all of its tiles executing and wait (makeTileListForEntireDst()).
OneExecutesWhole ==
    1 \in NoSplit => \A s, t \in Threads :
                        pc[s] = "execute" /\ pc[t] = "execute" => s = t

\* flush() fails only when no function can execute the operation: one whose
\* compute routine never fails is found before the flush gives up, when
\* syncForWriting() does not fail and memory does not run out.
ExecutableIsExecuted ==
    1 \in Chains \ MayFail => \A t \in Threads : answer[t] # "failure"

\* updateStatus() waits until each tile has been moved out of the executing
\* state before it answers that the list needs a flush.
WaitsForExecuting ==
    [][\A t \in Threads : pc[t] = "scan" /\ pc'[t] = "select" =>
           \A n \in DOMAIN Wants[t] : opStatusOf[Wants[t][n]] # "executing"]_vars

\* flush() keeps what FlushContract promises to the threads that call it, when
\* syncForWriting() does not fail and memory does not run out.
Contract == INSTANCE FlushContract WITH
    Needs <- [t \in Threads |-> {Wants[t][n] : n \in DOMAIN Wants[t]}],
    evaluated <- {i \in Tiles : opStatusOf[i] = "evaluated"}
KeepsContract == Contract!Spec

\* Every thread that needs tiles gets an answer.
FlushReturns == \A t \in Threads : <>(pc[t] = "returned")
============================================================================
