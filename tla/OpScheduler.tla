---------------------------- MODULE OpScheduler ----------------------------
(***************************************************************************)
(* XiliScheduler: API threads execute operations tile by tile, split every *)
(* tile into horizontal strips, hand the strips to worker threads kept on  *)
(* the scheduler's ready list, compute the remainder themselves and wait   *)
(* for the last worker.  One caller stands for the thread inside           *)
(* XiliScheduler::execute() together with the XiliOperation and the        *)
(* primary XiliExecContext it keeps on its stack; one context stands for a *)
(* heap-allocated XiliExecContext together with its thread.                *)
(*                                                                         *)
(* Abstractions: a strip is one box, so a compute routine does or fails    *)
(* all of it; the bounding box of a tile is the row interval 0..y2; the    *)
(* geometry calls (clipToTile, moveIntoGlobalSpace, generateBoxList) may   *)
(* answer anything.  A critical section under readyListMutex is one step.  *)
(***************************************************************************)
EXTENDS Integers, Sequences, FiniteSets

CONSTANTS Callers,        \* threads inside execute()
          Contexts,       \* contexts the scheduler can create (a bound)
          NoThread,       \* the owner of a free mutex, the null pointer
          NumTiles,       \* entries of every tile list
          Heights,        \* rows a tile's bounding box may have
          NumCPUs, SplitThreshold,
          NumFuncs,       \* length of the opTreeNode's function list
          XilOps,         \* the XilOps that may be executed
          PreFuncs,       \* the functions that have a preprocess routine
          Failures        \* which resource failures may happen

ASSUME SchedulerAssumption ==
    /\ Callers \cap Contexts = {}
    /\ NoThread \notin Callers \cup Contexts
    /\ NumTiles \in Nat \ {0} /\ NumFuncs \in Nat
    /\ Heights \subseteq Nat \ {0}
    /\ NumCPUs \in Nat \ {0} /\ SplitThreshold \in Nat \ {0}
    /\ PreFuncs \subseteq 1..NumFuncs
    /\ Failures \subseteq {"split", "reset"}

Threads == Callers \cup Contexts

VARIABLES
    pc,           \* where every thread is
    opLock,       \* owner of XiliOperation::mutex
    tileLock,     \* does the caller hold the tile list's mutex
    whole,        \* the caller is in executeWithNoSplit()
    tile,         \* XilTileList::currentEntry
    y2,           \* bottom row of the tile's bounding box, -1 outside a tile
    next,         \* startThreads: the loop variable i
    newContext,   \* execOperation: the context whose thread was just created
    started,      \* threads_started
    emptySeg,     \* empty_segment
    status,       \* operation->status = XIL_SUCCESS
    complete,     \* operation->operationComplete
    emptyFlush,   \* operation->emptyFlushList
    contextList,  \* operation->contextList
    xilOp,        \* operation->op, the XilOp whose tiles are computed
    preStatus,    \* the XilOp's funcDataList: what checkFuncData() finds there
    operation,    \* context->operation
    rows,         \* the rows in context->boxList
    func,         \* func_def: position in the function list
    ctxStatus,    \* context->status = XIL_SUCCESS
    listed,       \* context->listPosition # _XILI_LIST_INVALID_POSITION
    isDone,       \* context->isDone
    readyList,    \* scheduler->readyList
    asleep,       \* threads blocked in a condition variable's wait()
    scheduler,    \* "up", then "closing" and "closed" by ~XiliScheduler
    joining,      \* ~XiliScheduler: the context whose thread it joins
    done,         \* history: rows of the tile a compute routine has written
    void          \* history: rows of the tile found to need no execution

opVars  == <<whole, tile, y2, next, newContext, started, emptySeg, tileLock>>
workVars == <<operation, rows, func, ctxStatus>>
preVars == <<xilOp, preStatus>>
poolVars == <<listed, isDone, readyList, scheduler, joining>>
vars == <<pc, opLock, opVars, status, complete, emptyFlush, contextList,
          preVars, workVars, poolVars, asleep, done, void>>

CallerPCs == {"idle", "tiles", "split", "append", "primary", "func", "pre",
              "run", "finish", "join", "relock", "return"}
ContextPCs == {"none", "func", "pre", "run", "finish", "retire", "ready",
               "exit"}
ComputePCs == {"func", "pre", "run", "finish"}

TypeOK ==
    /\ pc \in [Threads -> CallerPCs \cup ContextPCs]
    /\ opLock \in [Callers -> Threads \cup {NoThread}]
    /\ tileLock \in [Callers -> BOOLEAN]
    /\ whole \in [Callers -> BOOLEAN]
    /\ tile \in [Callers -> 0..NumTiles]
    /\ y2 \in [Callers -> Int]
    /\ next \in [Callers -> Int]
    /\ newContext \in [Callers -> Contexts \cup {NoThread}]
    /\ started \in [Callers -> BOOLEAN]
    /\ emptySeg \in [Callers -> BOOLEAN]
    /\ status \in [Callers -> BOOLEAN]
    /\ complete \in [Callers -> BOOLEAN]
    /\ emptyFlush \in [Callers -> SUBSET (0..NumTiles)]
    /\ contextList \in [Callers -> SUBSET Contexts]
    /\ xilOp \in [Callers -> XilOps]
    /\ preStatus \in [XilOps -> [PreFuncs -> {"none", "ok", "fail"}]]
    /\ operation \in [Threads -> Callers \cup {NoThread}]
    /\ rows \in [Threads -> SUBSET Int]
    /\ func \in [Threads -> Nat]
    /\ ctxStatus \in [Threads -> BOOLEAN]
    /\ listed \in [Contexts -> BOOLEAN]
    /\ isDone \in [Contexts -> BOOLEAN]
    /\ readyList \in Seq(Contexts)
    /\ asleep \in SUBSET Threads
    /\ scheduler \in {"up", "closing", "closed"}
    /\ joining \in Contexts \cup {NoThread}
    /\ done \in [Callers -> SUBSET Int]
    /\ void \in [Callers -> SUBSET Int]

Init ==
    /\ pc = [t \in Threads |-> IF t \in Callers THEN "idle" ELSE "none"]
    /\ opLock = [c \in Callers |-> NoThread]
    /\ tileLock = [c \in Callers |-> TRUE]
    /\ whole = [c \in Callers |-> FALSE]
    /\ tile = [c \in Callers |-> 0]
    /\ y2 = [c \in Callers |-> -1]
    /\ next = [c \in Callers |-> 0]
    /\ newContext = [c \in Callers |-> NoThread]
    /\ started = [c \in Callers |-> FALSE]
    /\ emptySeg = [c \in Callers |-> FALSE]
    /\ status = [c \in Callers |-> TRUE]
    /\ complete = [c \in Callers |-> FALSE]
    /\ emptyFlush = [c \in Callers |-> {}]
    /\ contextList = [c \in Callers |-> {}]
    /\ xilOp \in [Callers -> XilOps]
    /\ preStatus = [o \in XilOps |-> [f \in PreFuncs |-> "none"]]
    /\ operation = [t \in Threads |-> IF t \in Callers THEN t ELSE NoThread]
    /\ rows = [t \in Threads |-> {}]
    /\ func = [t \in Threads |-> 0]
    /\ ctxStatus = [t \in Threads |-> FALSE]
    /\ listed = [w \in Contexts |-> FALSE]
    /\ isDone = [w \in Contexts |-> FALSE]
    /\ readyList = <<>>
    /\ asleep = {}
    /\ scheduler = "up"
    /\ joining = NoThread
    /\ done = [c \in Callers |-> {}]
    /\ void = [c \in Callers |-> {}]

-----------------------------------------------------------------------------
(* The arithmetic of startThreads()'s integer case.                        *)
StripSize(c) == (y2[c] + 1) \div NumCPUs
StopY(c) == y2[c] - StripSize(c)
StripClosed(c) == next[c]..(next[c] + StripSize(c))
Strip(c) == next[c]..(next[c] + StripSize(c) - 1)
Remainder(c) == next[c]..y2[c]
BelowThreshold(c) == StripSize(c) < SplitThreshold

\* operation->lock() would not block.
Free(c) == opLock[c] = NoThread

\* isReady.wait() and completeCond.wait() end on a signal; waking without one
\* is allowed too, and every wait() sits in a loop that tests its condition.
Awake(t) == t \notin asleep

\* XiliExecContext's constructor or boxList.reset(), then
\* startComputeOperation()'s first statements.
StartCompute(t, c, r) ==
    /\ pc' = [pc EXCEPT ![t] = "func"]
    /\ operation' = [operation EXCEPT ![t] = c]
    /\ rows' = [rows EXCEPT ![t] = r]
    /\ func' = [func EXCEPT ![t] = 1]
    /\ ctxStatus' = [ctxStatus EXCEPT ![t] = FALSE]

-----------------------------------------------------------------------------
\* Some execute() computes tiles of the XilOp.
InUse(o) == \E c \in Callers : pc[c] # "idle" /\ xilOp[c] = o

\* execute() and executeWithNoSplit() unlock the tile list and work on an
\* operation their caller has just constructed, for some XilOp.  The preprocess
\* results live in the XilOp: another flush of it, now or later, finds those of
\* the others, but has a lock of its own.  A name that is not in use may also
\* stand for an XilOp that has no results yet.
NewOperation(c) ==
    /\ pc[c] = "idle" /\ scheduler = "up"
    /\ tileLock' = [tileLock EXCEPT ![c] = FALSE]
    /\ \E o \in XilOps :
          /\ xilOp' = [xilOp EXCEPT ![c] = o]
          /\ \/ UNCHANGED preStatus
             \/ /\ ~InUse(o)
                /\ preStatus' = [preStatus EXCEPT
                                    ![o] = [f \in PreFuncs |-> "none"]]
    /\ UNCHANGED <<opLock, tile, next, newContext, started, emptySeg, status,
                   complete, emptyFlush, contextList, workVars, poolVars,
                   asleep, done, void>>

Begin(c) ==
    /\ NewOperation(c)
    /\ pc' = [pc EXCEPT ![c] = "tiles"]
    /\ UNCHANGED <<whole, y2>>

\* executeWithNoSplit(): the whole list at once, by the caller alone.
BeginWhole(c) ==
    /\ NewOperation(c)
    /\ pc' = [pc EXCEPT ![c] = "primary"]
    /\ whole' = [whole EXCEPT ![c] = TRUE]
    /\ \E h \in Heights : y2' = [y2 EXCEPT ![c] = h - 1]

\* getNextTileNumber() has another entry to give.
MoreTilesOffByOne(c) == tile[c] <= NumTiles
MoreTiles(c) == tile[c] < NumTiles

\* The tile list has no further entry: getNextTileNumber() rewinds it.
NoMoreTiles(c) ==
    /\ pc[c] = "tiles" /\ tile[c] = NumTiles
    /\ tile' = [tile EXCEPT ![c] = 0]
    /\ pc' = [pc EXCEPT ![c] = "relock"]
    /\ UNCHANGED <<opLock, whole, y2, next, newContext, started, emptySeg,
                   tileLock, status, complete, emptyFlush, contextList,
                   preVars, workVars, poolVars, asleep, done, void>>

\* The tile has been evaluated by somebody else meanwhile: not XILI_EXECUTING.
SkipTile(c) ==
    /\ pc[c] = "tiles" /\ MoreTiles(c)
    /\ tile' = [tile EXCEPT ![c] = @ + 1]
    /\ y2' = [y2 EXCEPT ![c] = -1]
    /\ done' = [done EXCEPT ![c] = {}]
    /\ void' = [void EXCEPT ![c] = {}]
    /\ UNCHANGED <<pc, opLock, whole, next, newContext, started, emptySeg,
                   tileLock, status, complete, emptyFlush, contextList,
                   preVars, workVars, poolVars, asleep>>

\* clipToTile() leaves nothing of the tile, or a bounding box of some height.
ClippedAway(c) ==
    /\ pc[c] = "tiles" /\ MoreTiles(c)
    /\ tile' = [tile EXCEPT ![c] = @ + 1]
    /\ y2' = [y2 EXCEPT ![c] = -1]
    /\ done' = [done EXCEPT ![c] = {}]
    /\ void' = [void EXCEPT ![c] = {}]
    /\ complete' = [complete EXCEPT ![c] = FALSE]
    /\ started' = [started EXCEPT ![c] = FALSE]
    /\ emptyFlush' = [emptyFlush EXCEPT ![c] = @ \cup {tile[c] + 1}]
    /\ UNCHANGED <<pc, opLock, whole, next, newContext, emptySeg, tileLock,
                   status, contextList, preVars, workVars, poolVars, asleep>>

NextTile(c) ==
    /\ pc[c] = "tiles" /\ MoreTiles(c)
    /\ \E h \in Heights : y2' = [y2 EXCEPT ![c] = h - 1]
    /\ pc' = [pc EXCEPT ![c] = IF NumCPUs > 1 THEN "split" ELSE "primary"]
    /\ tile' = [tile EXCEPT ![c] = @ + 1]
    /\ next' = [next EXCEPT ![c] = 0]
    /\ done' = [done EXCEPT ![c] = {}]
    /\ void' = [void EXCEPT ![c] = {}]
    /\ complete' = [complete EXCEPT ![c] = FALSE]
    /\ started' = [started EXCEPT ![c] = FALSE]
    /\ emptySeg' = [emptySeg EXCEPT ![c] = FALSE]
    /\ UNCHANGED <<opLock, whole, newContext, tileLock, status, emptyFlush,
                   contextList, preVars, workVars, poolVars, asleep>>

-----------------------------------------------------------------------------
(* startThreads(), from operation->lock() to operation->unlock().          *)

\* Strips that would be thinner than the threshold: no thread is started.
TooThin(c) ==
    /\ pc[c] = "split" /\ Free(c) /\ BelowThreshold(c)
    /\ pc' = [pc EXCEPT ![c] = "primary"]
    /\ UNCHANGED <<opLock, opVars, status, complete, emptyFlush, contextList,
                   preVars, workVars, poolVars, asleep, done, void>>

LockForSplit(c) ==
    /\ pc[c] = "split" /\ Free(c) /\ ~BelowThreshold(c)
    /\ opLock' = [opLock EXCEPT ![c] = c]
    /\ UNCHANGED <<pc, opVars, status, complete, emptyFlush, contextList,
                   preVars, workVars, poolVars, asleep, done, void>>

\* The loop body is about to handle the strip that starts at next[c].
Splitting(c) == pc[c] = "split" /\ opLock[c] = c /\ next[c] < StopY(c)

\* A context taken for nothing goes to the end of the ready list.
ContextDropped(q) == Tail(q)
PutBack(q) == Append(Tail(q), Head(q))

\* generateBoxList() leaves nothing of the strip.  A ready context is put
\* back; a new one is abandoned, without a thread.
EmptyStrip(c) ==
    /\ Splitting(c)
    /\ emptySeg' = [emptySeg EXCEPT ![c] = TRUE]
    /\ void' = [void EXCEPT ![c] = @ \cup Strip(c)]
    /\ next' = [next EXCEPT ![c] = @ + StripSize(c)]
    /\ readyList' = IF readyList = <<>> THEN readyList
                    ELSE PutBack(readyList)
    /\ UNCHANGED <<pc, opLock, whole, tile, y2, newContext, started, tileLock,
                   status, complete, emptyFlush, contextList, preVars,
                   workVars, listed, isDone, scheduler, joining, asleep, done>>

\* execOperation() with an empty ready list: the new thread runs at once,
\* before the context is on the operation's list.
CreateThread(c) ==
    /\ Splitting(c) /\ readyList = <<>>
    /\ \E w \in Contexts :
          /\ pc[w] = "none"
          /\ pc' = [pc EXCEPT ![w] = "func", ![c] = "append"]
          /\ operation' = [operation EXCEPT ![w] = c]
          /\ rows' = [rows EXCEPT ![w] = Strip(c)]
          /\ func' = [func EXCEPT ![w] = 1]
          /\ ctxStatus' = [ctxStatus EXCEPT ![w] = FALSE]
          /\ newContext' = [newContext EXCEPT ![c] = w]
    /\ UNCHANGED <<opLock, whole, tile, y2, next, started, emptySeg, tileLock,
                   status, complete, emptyFlush, contextList, preVars,
                   poolVars, asleep, done, void>>

AppendContext(c) ==
    /\ pc[c] = "append"
    /\ contextList' = [contextList EXCEPT ![c] = @ \cup {newContext[c]}]
    /\ listed' = [listed EXCEPT ![newContext[c]] = TRUE]
    /\ newContext' = [newContext EXCEPT ![c] = NoThread]
    /\ started' = [started EXCEPT ![c] = TRUE]
    /\ next' = [next EXCEPT ![c] = @ + StripSize(c)]
    /\ pc' = [pc EXCEPT ![c] = "split"]
    /\ UNCHANGED <<opLock, whole, tile, y2, emptySeg, tileLock, status,
                   complete, emptyFlush, preVars, workVars, isDone,
                   readyList, scheduler, joining, asleep, done, void>>

\* isReady.signal()
IsReadyUnsignalled(w) == {}
IsReadySignalled(w) == {w}

\* execOperation() with a context that waits on the ready list.
WakeContext(c) ==
    /\ Splitting(c) /\ readyList # <<>>
    /\ LET w == Head(readyList) IN
          /\ readyList' = Tail(readyList)
          /\ operation' = [operation EXCEPT ![w] = c]
          /\ rows' = [rows EXCEPT ![w] = Strip(c)]
          /\ listed' = [listed EXCEPT ![w] = TRUE]
          /\ contextList' = [contextList EXCEPT ![c] = @ \cup {w}]
          /\ asleep' = asleep \ IsReadySignalled(w)
    /\ started' = [started EXCEPT ![c] = TRUE]
    /\ next' = [next EXCEPT ![c] = @ + StripSize(c)]
    /\ UNCHANGED <<pc, opLock, whole, tile, y2, newContext, emptySeg, tileLock,
                   status, complete, emptyFlush, preVars, func, ctxStatus,
                   isDone, scheduler, joining, done, void>>

\* recoverFailure(): the contexts whose threads are killed.  XiliThread::kill()
\* sends SIGTERM, whose default action ends the process; here, as the code
\* intends, it ends that thread only.
NoneKilled(c) == {}
Killed(c) == contextList[c]

\* moveIntoGlobalSpace() or generateBoxList() fails for a strip, the latter with
\* a ready context in hand perhaps, which is put back: the threads of the
\* operation are killed and joined and their contexts deleted, which leaves the
\* names free for new ones; the lock is released and execute() returns
\* XIL_FAILURE on the spot.
SplitFails(c) ==
    /\ "split" \in Failures /\ Splitting(c)
    /\ pc' = [t \in Threads |-> IF t = c THEN "return"
                                ELSE IF t \in Killed(c) THEN "none"
                                ELSE pc[t]]
    /\ listed' = [w \in Contexts |-> listed[w] /\ w \notin Killed(c)]
    /\ asleep' = asleep \ Killed(c)
    /\ opLock' = [opLock EXCEPT ![c] = NoThread]
    /\ status' = [status EXCEPT ![c] = FALSE]
    /\ \/ UNCHANGED readyList
       \/ readyList # <<>> /\ readyList' = PutBack(readyList)
    /\ UNCHANGED <<opVars, complete, emptyFlush, contextList, preVars,
                   workVars, isDone, scheduler, joining, done, void>>

\* What is left of the bounding box stays with the caller.
SplitDone(c) ==
    /\ pc[c] = "split" /\ opLock[c] = c /\ next[c] >= StopY(c)
    /\ IF emptySeg[c] /\ ~started[c]
       THEN /\ complete' = [complete EXCEPT ![c] = TRUE]
            /\ emptyFlush' = [emptyFlush EXCEPT ![c] = @ \cup {tile[c]}]
       ELSE UNCHANGED <<complete, emptyFlush>>
    /\ opLock' = [opLock EXCEPT ![c] = NoThread]
    /\ pc' = [pc EXCEPT ![c] = "primary"]
    /\ UNCHANGED <<opVars, status, contextList, preVars, workVars, poolVars,
                   asleep, done, void>>

-----------------------------------------------------------------------------
(* The caller's own part of the tile.                                      *)

\* moveIntoGlobalSpace() or generateBoxList() fails or leaves nothing of it;
\* executeWithNoSplit() always names tile 0, the first of the list.
PrimaryEmpty(c) ==
    /\ pc[c] = "primary"
    /\ void' = [void EXCEPT ![c] = @ \cup Remainder(c)]
    /\ emptyFlush' = [emptyFlush EXCEPT
                         ![c] = @ \cup {IF whole[c] THEN 1 ELSE tile[c]}]
    /\ pc' = [pc EXCEPT ![c] = "join"]
    /\ UNCHANGED <<opLock, opVars, status, complete, contextList, preVars,
                   workVars, poolVars, asleep, done>>

PrimaryCompute(c) ==
    /\ pc[c] = "primary"
    /\ StartCompute(c, c, Remainder(c))
    /\ UNCHANGED <<opLock, opVars, status, complete, emptyFlush, contextList,
                   preVars, poolVars, asleep, done, void>>

\* complete_operation: wait for the workers, if there are any.
NothingToJoin(c) ==
    /\ pc[c] = "join" /\ ~started[c]
    /\ pc' = [pc EXCEPT ![c] = IF whole[c] THEN "relock" ELSE "tiles"]
    /\ UNCHANGED <<opLock, opVars, status, complete, emptyFlush, contextList,
                   preVars, workVars, poolVars, asleep, done, void>>

WaitComplete(c) ==
    /\ pc[c] = "join" /\ started[c] /\ Awake(c) /\ Free(c) /\ ~complete[c]
    /\ asleep' = asleep \cup {c}
    /\ UNCHANGED <<pc, opLock, opVars, status, complete, emptyFlush,
                   contextList, preVars, workVars, poolVars, done, void>>

\* A failed tile ends the loop over the tiles, where the list stands.
Joined(c) ==
    /\ pc[c] = "join" /\ started[c] /\ Awake(c) /\ Free(c) /\ complete[c]
    /\ pc' = [pc EXCEPT ![c] = IF status[c] THEN "tiles" ELSE "relock"]
    /\ UNCHANGED <<opLock, opVars, status, complete, emptyFlush, contextList,
                   preVars, workVars, poolVars, asleep, done, void>>

Relock(c) ==
    /\ pc[c] = "relock"
    /\ tileLock' = [tileLock EXCEPT ![c] = TRUE]
    /\ pc' = [pc EXCEPT ![c] = "return"]
    /\ UNCHANGED <<opLock, whole, tile, y2, next, newContext, started, emptySeg,
                   status, complete, emptyFlush, contextList, preVars,
                   workVars, poolVars, asleep, done, void>>

\* Back in flush(): the XiliOperation and the primary context are destroyed
\* (their variables take the values the next constructor gives them), and the
\* tile list's mutex is held again before the next operation is executed.
Return(c) ==
    /\ pc[c] = "return"
    /\ pc' = [pc EXCEPT ![c] = "idle"]
    /\ tileLock' = [tileLock EXCEPT ![c] = TRUE]
    /\ tile' = [tile EXCEPT ![c] = 0]
    /\ whole' = [whole EXCEPT ![c] = FALSE]
    /\ y2' = [y2 EXCEPT ![c] = -1]
    /\ next' = [next EXCEPT ![c] = 0]
    /\ started' = [started EXCEPT ![c] = FALSE]
    /\ emptySeg' = [emptySeg EXCEPT ![c] = FALSE]
    /\ status' = [status EXCEPT ![c] = TRUE]
    /\ complete' = [complete EXCEPT ![c] = FALSE]
    /\ emptyFlush' = [emptyFlush EXCEPT ![c] = {}]
    /\ contextList' = [contextList EXCEPT ![c] = {}]
    /\ done' = [done EXCEPT ![c] = {}]
    /\ void' = [void EXCEPT ![c] = {}]
    /\ UNCHANGED <<opLock, newContext, preVars, workVars, poolVars, asleep>>

-----------------------------------------------------------------------------
(* startComputeOperation(), by the caller and by the workers.              *)

Op(t) == operation[t]

\* A function without a preprocess routine is called straight away.
SelectFunction(t) ==
    /\ pc[t] = "func" /\ func[t] \in (1..NumFuncs) \ PreFuncs
    /\ pc' = [pc EXCEPT ![t] = "run"]
    /\ UNCHANGED <<opLock, opVars, status, complete, emptyFlush, contextList,
                   preVars, workVars, poolVars, asleep, done, void>>

\* Only the holder of the operation's lock looks for a preprocess result.
UnlockedCheck(t) == TRUE
LockedCheck(t) == Free(Op(t))

\* checkFuncData() under the operation's lock: the first thread calls the
\* routine and keeps the lock meanwhile, later ones find its result.
CheckFuncData(t) ==
    /\ pc[t] = "func" /\ func[t] \in PreFuncs /\ LockedCheck(t)
    /\ \/ /\ preStatus[xilOp[Op(t)]][func[t]] = "none"
          /\ opLock' = [opLock EXCEPT ![Op(t)] = t]
          /\ pc' = [pc EXCEPT ![t] = "pre"]
          /\ UNCHANGED func
       \/ /\ preStatus[xilOp[Op(t)]][func[t]] = "ok"
          /\ pc' = [pc EXCEPT ![t] = "run"]
          /\ UNCHANGED <<opLock, func>>
       \/ /\ preStatus[xilOp[Op(t)]][func[t]] = "fail"
          /\ func' = [func EXCEPT ![t] = @ + 1]
          /\ UNCHANGED <<opLock, pc>>
    /\ UNCHANGED <<opVars, status, complete, emptyFlush, contextList, preVars,
                   operation, rows, ctxStatus, poolVars, asleep, done, void>>

CallPreprocess(t) ==
    /\ pc[t] = "pre"
    /\ opLock' = [opLock EXCEPT ![Op(t)] = NoThread]
    /\ \E r \in {"ok", "fail"} :
          /\ preStatus' = [preStatus EXCEPT ![xilOp[Op(t)]][func[t]] = r]
          /\ pc' = [pc EXCEPT ![t] = IF r = "ok" THEN "run" ELSE "func"]
          /\ func' = [func EXCEPT ![t] = IF r = "ok" THEN @ ELSE @ + 1]
    /\ UNCHANGED <<opVars, status, complete, emptyFlush, contextList, xilOp,
                   operation, rows, ctxStatus, poolVars, asleep, done, void>>

ComputeSucceeds(t) ==
    /\ pc[t] = "run"
    /\ done' = [done EXCEPT ![Op(t)] = @ \cup rows[t]]
    /\ rows' = [rows EXCEPT ![t] = {}]
    /\ ctxStatus' = [ctxStatus EXCEPT ![t] = TRUE]
    /\ pc' = [pc EXCEPT ![t] = "finish"]
    /\ UNCHANGED <<opLock, opVars, status, complete, emptyFlush, contextList,
                   preVars, operation, func, poolVars, asleep, void>>

\* The routine returns XIL_FAILURE or boxes marked as failed: the boxes are
\* put back on the list and the next function is tried.
ComputeFails(t) ==
    /\ pc[t] = "run"
    /\ ctxStatus' = [ctxStatus EXCEPT ![t] = FALSE]
    /\ func' = [func EXCEPT ![t] = @ + 1]
    /\ pc' = [pc EXCEPT ![t] = "func"]
    /\ UNCHANGED <<opLock, opVars, status, complete, emptyFlush, contextList,
                   preVars, operation, rows, poolVars, asleep, done, void>>

\* resetFromFailed() runs out of memory: the loop is left before the status of
\* a routine that returned XIL_SUCCESS with failed boxes is corrected.
ResetFails(t) ==
    /\ "reset" \in Failures /\ pc[t] = "run"
    /\ \E s \in BOOLEAN : ctxStatus' = [ctxStatus EXCEPT ![t] = s]
    /\ pc' = [pc EXCEPT ![t] = "finish"]
    /\ UNCHANGED <<opLock, opVars, status, complete, emptyFlush, contextList,
                   preVars, operation, rows, func, poolVars, asleep, done,
                   void>>

NoFunctionLeft(t) ==
    /\ pc[t] = "func" /\ func[t] > NumFuncs
    /\ pc' = [pc EXCEPT ![t] = "finish"]
    /\ UNCHANGED <<opLock, opVars, status, complete, emptyFlush, contextList,
                   preVars, workVars, poolVars, asleep, done, void>>

\* The operation's context list after t has removed itself; only a context with
\* a list position is on it.
ListWithout(t) ==
    IF t \in Contexts /\ listed[t] THEN contextList[Op(t)] \ {t}
                                   ELSE contextList[Op(t)]

\* operation->status stays a failure once any context has failed.
LastStatus(t) == ctxStatus[t]
StatusAfter(t) == status[Op(t)] /\ ctxStatus[t]

\* The operation is complete when no context is left on its list, and the
\* thread that finds it so signals completeCond.
EveryoneIsLast(t) == TRUE
IsLast(t) == ListWithout(t) = {}
NotSignalled(t) == {}
Signalled(t) == {Op(t)}

\* The last statements, under the operation's lock.  (func, rows and
\* ctxStatus are dead until the context is given its next strip.)
FinishCompute(t) ==
    /\ pc[t] = "finish" /\ Free(Op(t))
    /\ status' = [status EXCEPT ![Op(t)] = StatusAfter(t)]
    /\ contextList' = [contextList EXCEPT ![Op(t)] = ListWithout(t)]
    /\ IF IsLast(t)
       THEN /\ complete' = [complete EXCEPT ![Op(t)] = TRUE]
            /\ asleep' = asleep \ Signalled(t)
       ELSE UNCHANGED <<complete, asleep>>
    /\ pc' = [pc EXCEPT ![t] = IF t \in Callers THEN "join" ELSE "retire"]
    /\ rows' = [rows EXCEPT ![t] = {}]
    /\ func' = [func EXCEPT ![t] = 0]
    /\ ctxStatus' = [ctxStatus EXCEPT ![t] = FALSE]
    /\ UNCHANGED <<opLock, opVars, emptyFlush, preVars, operation, poolVars,
                   done, void>>

-----------------------------------------------------------------------------
(* xili_start_compute_routine(): a worker between two strips.              *)

\* Under readyListMutex: onto the ready list, and asleep until some
\* execOperation() gives the context a position on an operation's list.
Retire(w) ==
    /\ pc[w] = "retire" /\ scheduler # "closed"
    /\ readyList' = Append(readyList, w)
    /\ listed' = [listed EXCEPT ![w] = FALSE]
    /\ asleep' = asleep \cup {w}
    /\ pc' = [pc EXCEPT ![w] = "ready"]
    /\ UNCHANGED <<opLock, opVars, status, complete, emptyFlush, contextList,
                   preVars, workVars, isDone, scheduler, joining, done, void>>

WakeUp(w) ==
    /\ pc[w] = "ready" /\ Awake(w)
    /\ \/ /\ ~listed[w]
          /\ asleep' = asleep \cup {w}
          /\ UNCHANGED <<pc, workVars>>
       \/ /\ listed[w] /\ ~isDone[w]
          /\ StartCompute(w, Op(w), rows[w])
          /\ UNCHANGED asleep
       \/ /\ listed[w] /\ isDone[w]
          /\ pc' = [pc EXCEPT ![w] = "exit"]
          /\ UNCHANGED <<workVars, asleep>>
    /\ UNCHANGED <<opLock, opVars, status, complete, emptyFlush, contextList,
                   preVars, poolVars, done, void>>

\* wait() may return without a signal.
SpuriousWakeup(t) ==
    /\ t \in asleep
    /\ asleep' = asleep \ {t}
    /\ UNCHANGED <<pc, opLock, opVars, status, complete, emptyFlush,
                   contextList, preVars, workVars, poolVars, done, void>>

-----------------------------------------------------------------------------
(* ~XiliScheduler(), when xil_close() deletes the global state; the         *)
(* application has no call of the library in progress then.                *)

BeginClose ==
    /\ scheduler = "up" /\ \A c \in Callers : pc[c] = "idle"
    /\ scheduler' = "closing"
    /\ UNCHANGED <<pc, opLock, opVars, status, complete, emptyFlush,
                   contextList, preVars, workVars, listed, isDone, readyList,
                   joining, asleep, done, void>>

\* listPosition = TRUE: the worker does not go back to sleep.
ListedNot(w) == FALSE
ListedForExit(w) == TRUE

\* Take the first ready context, tell it that it is done and wake it ...
DismissContext ==
    /\ scheduler = "closing" /\ joining = NoThread /\ readyList # <<>>
    /\ LET w == Head(readyList) IN
          /\ joining' = w
          /\ isDone' = [isDone EXCEPT ![w] = TRUE]
          /\ listed' = [listed EXCEPT ![w] = ListedForExit(w)]
          /\ asleep' = asleep \ {w}
    /\ readyList' = Tail(readyList)
    /\ UNCHANGED <<pc, opLock, opVars, status, complete, emptyFlush,
                   contextList, preVars, workVars, scheduler, done, void>>

\* ... and join its thread.
JoinContext ==
    /\ joining # NoThread /\ pc[joining] = "exit"
    /\ joining' = NoThread
    /\ UNCHANGED <<pc, opLock, opVars, status, complete, emptyFlush,
                   contextList, preVars, workVars, listed, isDone, readyList,
                   scheduler, asleep, done, void>>

EndClose ==
    /\ scheduler = "closing" /\ joining = NoThread /\ readyList = <<>>
    /\ scheduler' = "closed"
    /\ UNCHANGED <<pc, opLock, opVars, status, complete, emptyFlush,
                   contextList, preVars, workVars, listed, isDone, readyList,
                   joining, asleep, done, void>>

\* The library is closed: nothing more is called.
Closed == scheduler = "closed" /\ UNCHANGED vars

-----------------------------------------------------------------------------
StartThreads(c) ==
    \/ TooThin(c) \/ LockForSplit(c) \/ EmptyStrip(c) \/ CreateThread(c)
    \/ AppendContext(c) \/ WakeContext(c) \/ SplitFails(c) \/ SplitDone(c)

Execute(c) ==
    \/ NoMoreTiles(c) \/ SkipTile(c) \/ ClippedAway(c) \/ NextTile(c)
    \/ StartThreads(c)
    \/ PrimaryEmpty(c) \/ PrimaryCompute(c)
    \/ NothingToJoin(c) \/ WaitComplete(c) \/ Joined(c) \/ Relock(c)
    \/ Return(c)

Compute(t) ==
    \/ SelectFunction(t) \/ CheckFuncData(t) \/ CallPreprocess(t)
    \/ ComputeSucceeds(t) \/ ComputeFails(t) \/ ResetFails(t)
    \/ NoFunctionLeft(t) \/ FinishCompute(t)

Worker(w) == Retire(w) \/ WakeUp(w)

Close == DismissContext \/ JoinContext \/ EndClose

Next ==
    \/ \E c \in Callers : Begin(c) \/ BeginWhole(c) \/ Execute(c)
    \/ \E t \in Threads : Compute(t) \/ SpuriousWakeup(t)
    \/ \E w \in Contexts : Worker(w)
    \/ BeginClose \/ Close \/ Closed

\* A thread that can run does run; whether an API thread makes another call,
\* whether the library is closed and spurious wake-ups are left open.
Fairness ==
    /\ \A c \in Callers : WF_vars(Execute(c))
    /\ \A t \in Threads : WF_vars(Compute(t))
    /\ \A w \in Contexts : WF_vars(Worker(w))
    /\ WF_vars(Close)

Spec == Init /\ [][Next]_vars
FairSpec == Spec /\ Fairness

-----------------------------------------------------------------------------
\* Contexts that work for an operation, or have been told to and not woken yet.
Attached(w) == pc[w] \in ComputePCs \/ (pc[w] = "ready" /\ listed[w] /\ ~isDone[w])

\* The contexts that still use the XiliOperation on c's stack.
Users(c) == {w \in Contexts : Attached(w) /\ operation[w] = c}

InTilePCs == {"split", "append", "primary", "func", "pre", "run", "finish",
              "join"}

\* The XiliOperation lives on its caller's stack: while a worker still uses it
\* the caller is between the start of startThreads() and the end of the wait.
OperationOutlivesWorkers ==
    \A c \in Callers : Users(c) # {} => pc[c] \in InTilePCs

Working(t) == IF t \in Contexts THEN Attached(t) ELSE pc[t] \in ComputePCs

\* No row of a tile is given to two threads, and none is computed again: two
\* routines on the same pixels would race, and in-place operations would be
\* applied twice.
RowsComputedOnce ==
    \A t \in Threads : Working(t) =>
        /\ rows[t] \cap done[operation[t]] = {}
        /\ \A u \in Threads \ {t} : Working(u) /\ operation[u] = operation[t]
                                       => rows[t] \cap rows[u] = {}

\* Once a tile is left with the operation still successful, every row of its
\* bounding box has been computed or found empty: no strip is lost between the
\* splitting, the workers and the caller, nor its failure.
TileCovered ==
    \A c \in Callers : pc[c] \in {"tiles", "relock", "return"} /\ status[c]
                         => done[c] \cup void[c] = 0..y2[c]

\* The ready list names exactly the contexts that wait for work, each once, so
\* that no idle thread is lost and none is given two strips.
ReadyListExact ==
    /\ {readyList[i] : i \in DOMAIN readyList}
          = {w \in Contexts : pc[w] = "ready" /\ ~listed[w]}
    /\ \A i, j \in DOMAIN readyList : readyList[i] = readyList[j] => i = j

\* The preprocess routine of a function is called once for an XilOp, as long as
\* one execute() at a time works on the XilOp: the result that the threads under
\* one operation's lock find is never replaced.  (Two flushes of one XilOp that
\* compute different tiles at the same time have two locks, and both call it.)
PreprocessCalledOnce ==
    [][\A c \in Callers, f \in PreFuncs :
          pc[c] # "idle" /\ preStatus[xilOp[c]][f] # "none"
             => preStatus'[xilOp[c]][f] = preStatus[xilOp[c]][f]]_vars

\* No XilOp is executed by two calls at a time.
Apart ==
    \A c, d \in Callers : c # d /\ pc[c] # "idle" /\ pc[d] # "idle"
                             => xilOp[c] # xilOp[d]

\* execute() reacquires the tile list's mutex before it returns.
TileLockHeldOnReturn == \A c \in Callers : pc[c] = "return" => tileLock[c]

\* The destructor deletes every thread the scheduler created.
NoThreadOutlivesScheduler ==
    scheduler = "closed" => \A w \in Contexts : pc[w] \in {"none", "exit"}

\* execute() returns: no worker, signal or failed function leaves it waiting.
ExecuteReturns ==
    \A c \in Callers : pc[c] = "tiles" ~> pc[c] = "return"

\* A worker that was given a strip comes back for more, or the library is
\* closed.
WorkerComesBack ==
    \A w \in Contexts :
       Attached(w) ~> \/ pc[w] \in {"ready", "none"} /\ ~listed[w]
                      \/ pc[w] = "exit" \/ scheduler = "closed"

\* ~XiliScheduler() ends: every thread it joins has been woken and exits.
CloseEnds == scheduler = "closing" ~> scheduler = "closed"
=============================================================================
