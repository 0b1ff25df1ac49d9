-------------------------- MODULE OpSchedulerProof --------------------------
(***************************************************************************)
(* For every number of callers, contexts, tiles, rows and functions: the   *)
(* XiliOperation on a caller's stack outlives the workers that use it,     *)
(* and, in the second half, no row, context or result is given out twice   *)
(* or lost.                                                                *)
(***************************************************************************)
EXTENDS OpScheduler, TLAPS

\* Callers are callers and contexts are contexts.
RolesInv ==
    /\ \A c \in Callers : operation[c] = c /\ pc[c] \in CallerPCs
    /\ \A w \in Contexts : pc[w] \in ContextPCs
    /\ \A w \in Contexts : Attached(w) => operation[w] \in Callers

\* Who holds an operation's lock: its caller while it splits, or the one
\* thread that calls a preprocess routine.
LockInv ==
    /\ \A c \in Callers : pc[c] = "append" => opLock[c] = c
    /\ \A t \in Threads : pc[t] = "pre" => opLock[operation[t]] = t
    /\ \A c \in Callers : opLock[c] = c => pc[c] \in {"split", "append", "pre"}

\* The context list of an operation holds exactly the contexts that use it,
\* apart from the one startThreads() has just created.
ListInv ==
    /\ \A c \in Callers : \A w \in contextList[c] :
          pc[c] # "return" => Attached(w) /\ operation[w] = c
    /\ \A w \in Contexts : Attached(w) =>
          LET c == operation[w] IN
             /\ pc[c] \in InTilePCs
             /\ \/ w \in contextList[c] /\ listed[w]
                \/ pc[c] = "append" /\ newContext[c] = w

NewContextInv ==
    \A c \in Callers : pc[c] = "append" =>
        /\ newContext[c] \in Contexts
        /\ pc[newContext[c]] \in ComputePCs
        /\ operation[newContext[c]] = c

\* An operation is complete, or has started no thread, only if its list is empty.
CompleteInv ==
    \A c \in Callers :
        /\ pc[c] # "return" /\ (complete[c] \/ ~started[c]) => contextList[c] = {}
        /\ pc[c] \in {"split", "append"} => ~complete[c]
        /\ pc[c] = "split" /\ opLock[c] # c => contextList[c] = {}

\* Ready contexts are idle, named once, and not dismissed.
PoolInv ==
    /\ \A i \in 1..Len(readyList) :
          pc[readyList[i]] = "ready" /\ ~listed[readyList[i]]
    /\ \A i, j \in 1..Len(readyList) : i # j => readyList[i] # readyList[j]
    /\ \A w \in Contexts : isDone[w] => \/ pc[w] = "exit"
                                        \/ pc[w] = "ready" /\ listed[w]
    /\ \A w \in Contexts : pc[w] = "none" => ~listed[w]

IInv == /\ TypeOK /\ RolesInv /\ LockInv /\ ListInv /\ NewContextInv
        /\ CompleteInv /\ PoolInv

-----------------------------------------------------------------------------
\* The constructors give every variable a value of its type.
LEMMA TypeInit == Init => TypeOK
BY SchedulerAssumption DEF Init, TypeOK, Threads, CallerPCs, ContextPCs

\* startThreads() computes integer rows.
LEMMA StripInt ==
  ASSUME TypeOK, NEW c \in Callers
  PROVE  StripSize(c) \in Int /\ Strip(c) \subseteq Int
<1>1. y2[c] + 1 \in Int /\ next[c] \in Int
  BY DEF TypeOK
<1>2. StripSize(c) \in Int
  BY <1>1, SchedulerAssumption DEF StripSize
<1> QED
  BY <1>1, <1>2 DEF Strip

PreTypeOK == /\ xilOp \in [Callers -> XilOps]
             /\ preStatus \in [XilOps -> [PreFuncs -> {"none", "ok", "fail"}]]

\* A new operation is for some XilOp, whose results may be new too.
LEMMA NewOperationTypes ==
  ASSUME TypeOK, NEW c \in Callers, NewOperation(c)
  PROVE  PreTypeOK'
<1>1. PICK o \in XilOps : NewOperation(c)!3!(o)
  BY DEF NewOperation
<1>2. xilOp' \in [Callers -> XilOps]
  BY <1>1 DEF TypeOK
<1>3. preStatus' \in [XilOps -> [PreFuncs -> {"none", "ok", "fail"}]]
  <2>1. CASE UNCHANGED preStatus
    BY <2>1 DEF TypeOK
  <2>2. CASE preStatus' = [preStatus EXCEPT ![o] = [f \in PreFuncs |-> "none"]]
    BY <2>2 DEF TypeOK
  <2> QED
    BY <1>1, <2>1, <2>2
<1> QED
  BY <1>2, <1>3 DEF PreTypeOK

\* Every action preserves the types, given that startThreads() appends a context
\* it has created.
LEMMA TypeStep == TypeOK /\ NewContextInv /\ [Next]_vars => TypeOK'
<1> SUFFICES ASSUME TypeOK, NewContextInv, [Next]_vars PROVE TypeOK'
  OBVIOUS
<1> USE SchedulerAssumption DEF TypeOK, Threads, CallerPCs, ContextPCs, opVars,
        workVars, poolVars, preVars
<1>1. CASE UNCHANGED vars
  BY <1>1 DEF vars
<1>2. ASSUME NEW c \in Callers, Begin(c) PROVE TypeOK'
  <2>1. PreTypeOK'
    BY <1>2, NewOperationTypes DEF Begin
  <2> QED
    BY <1>2, <2>1 DEF Begin, NewOperation, PreTypeOK
<1>3. ASSUME NEW c \in Callers, BeginWhole(c) PROVE TypeOK'
  <2>1. PreTypeOK'
    BY <1>3, NewOperationTypes DEF BeginWhole
  <2>2. y2' \in [Callers -> Int]
    BY <1>3 DEF BeginWhole
  <2> QED
    BY <1>3, <2>1, <2>2 DEF BeginWhole, NewOperation, PreTypeOK
<1>4. ASSUME NEW c \in Callers, NoMoreTiles(c) PROVE TypeOK'
  BY <1>4 DEF NoMoreTiles, MoreTiles
<1>5. ASSUME NEW c \in Callers, SkipTile(c) PROVE TypeOK'
  BY <1>5 DEF SkipTile, MoreTiles
<1>6. ASSUME NEW c \in Callers, ClippedAway(c) PROVE TypeOK'
  <2>1. emptyFlush' \in [Callers -> SUBSET (0..NumTiles)]
    BY <1>6 DEF ClippedAway, MoreTiles
  <2>2. tile' \in [Callers -> 0..NumTiles]
    BY <1>6 DEF ClippedAway, MoreTiles
  <2> QED
    BY <1>6, <2>1, <2>2 DEF ClippedAway
<1>7. ASSUME NEW c \in Callers, NextTile(c) PROVE TypeOK'
  BY <1>7 DEF NextTile, MoreTiles
<1>8. ASSUME NEW c \in Callers, TooThin(c) PROVE TypeOK'
  BY <1>8 DEF TooThin
<1>9. ASSUME NEW c \in Callers, LockForSplit(c) PROVE TypeOK'
  BY <1>9 DEF LockForSplit
<1>10. ASSUME NEW c \in Callers, EmptyStrip(c) PROVE TypeOK'
  <2>1. StripSize(c) \in Int /\ Strip(c) \subseteq Int
    BY StripInt
  <2>2. readyList' \in Seq(Contexts)
    BY <1>10 DEF EmptyStrip, PutBack
  <2>3. next' \in [Callers -> Int] /\ void' \in [Callers -> SUBSET Int]
    BY <1>10, <2>1 DEF EmptyStrip
  <2> QED
    BY <1>10, <2>2, <2>3 DEF EmptyStrip
<1>11. ASSUME NEW c \in Callers, CreateThread(c) PROVE TypeOK'
  <2>1. Strip(c) \subseteq Int
    BY StripInt
  <2>2. PICK w \in Contexts : CreateThread(c)!2!(w)
    BY <1>11 DEF CreateThread
  <2>3. rows' \in [Threads -> SUBSET Int]
    BY <2>1, <2>2
  <2>4. pc' \in [Threads -> CallerPCs \cup ContextPCs]
    BY <2>2
  <2> QED
    BY <1>11, <2>2, <2>3, <2>4 DEF CreateThread
<1>12. ASSUME NEW c \in Callers, AppendContext(c) PROVE TypeOK'
  <2>1. StripSize(c) \in Int
    BY StripInt
  <2>2. next' \in [Callers -> Int]
    BY <1>12, <2>1 DEF AppendContext
  <2>3. contextList' \in [Callers -> SUBSET Contexts]
    BY <1>12 DEF AppendContext, NewContextInv
  <2> QED
    BY <1>12, <2>2, <2>3 DEF AppendContext
<1>13. ASSUME NEW c \in Callers, WakeContext(c) PROVE TypeOK'
  <2>1. StripSize(c) \in Int /\ Strip(c) \subseteq Int
    BY StripInt
  <2>2. Head(readyList) \in Contexts /\ readyList' \in Seq(Contexts)
    BY <1>13 DEF WakeContext
  <2>3. /\ next' \in [Callers -> Int]
        /\ rows' \in [Threads -> SUBSET Int]
    BY <1>13, <2>1 DEF WakeContext
  <2>4. contextList' \in [Callers -> SUBSET Contexts]
    BY <1>13, <2>2 DEF WakeContext
  <2> QED
    BY <1>13, <2>2, <2>3, <2>4 DEF WakeContext
<1>14. ASSUME NEW c \in Callers, SplitFails(c) PROVE TypeOK'
  <2>1. readyList' \in Seq(Contexts)
    <3>1. CASE readyList' = readyList
      BY <3>1
    <3>2. CASE readyList # <<>> /\ readyList' = Append(Tail(readyList), Head(readyList))
      BY <3>2
    <3> QED
      BY <1>14, <3>1, <3>2 DEF SplitFails, PutBack
  <2> QED
    BY <1>14, <2>1 DEF SplitFails, Killed
<1>15. ASSUME NEW c \in Callers, SplitDone(c) PROVE TypeOK'
  <2>1. emptyFlush' \in [Callers -> SUBSET (0..NumTiles)]
    <3>1. CASE emptyFlush' = emptyFlush
      BY <3>1
    <3>2. CASE emptyFlush' = [emptyFlush EXCEPT ![c] = @ \cup {tile[c]}]
      BY <3>2
    <3> QED
      BY <1>15, <3>1, <3>2 DEF SplitDone
  <2>2. complete' \in [Callers -> BOOLEAN]
    <3>1. complete' = complete \/ complete' = [complete EXCEPT ![c] = TRUE]
      BY <1>15 DEF SplitDone
    <3> QED
      BY <3>1
  <2> QED
    BY <1>15, <2>1, <2>2 DEF SplitDone
<1>16. ASSUME NEW c \in Callers, PrimaryEmpty(c) PROVE TypeOK'
  BY <1>16 DEF PrimaryEmpty, Remainder
<1>17. ASSUME NEW c \in Callers, PrimaryCompute(c) PROVE TypeOK'
  BY <1>17 DEF PrimaryCompute, StartCompute, Remainder
<1>18. ASSUME NEW c \in Callers, NothingToJoin(c) PROVE TypeOK'
  BY <1>18 DEF NothingToJoin
<1>19. ASSUME NEW c \in Callers, WaitComplete(c) PROVE TypeOK'
  BY <1>19 DEF WaitComplete
<1>20. ASSUME NEW c \in Callers, Joined(c) PROVE TypeOK'
  BY <1>20 DEF Joined
<1>21. ASSUME NEW c \in Callers, Relock(c) PROVE TypeOK'
  BY <1>21 DEF Relock
<1>22. ASSUME NEW c \in Callers, Return(c) PROVE TypeOK'
  BY <1>22 DEF Return
<1>23. ASSUME NEW t \in Threads, SelectFunction(t) PROVE TypeOK'
  BY <1>23 DEF SelectFunction
<1>24. ASSUME NEW t \in Threads, CheckFuncData(t) PROVE TypeOK'
  <2>1. opLock' \in [Callers -> Threads \cup {NoThread}]
    <3>1. CASE opLock' = opLock
      BY <3>1
    <3>2. CASE opLock' = [opLock EXCEPT ![Op(t)] = t]
      BY <3>2
    <3> QED
      BY <1>24, <3>1, <3>2 DEF CheckFuncData
  <2>2. func' \in [Threads -> Nat]
    <3>1. CASE func' = func
      BY <3>1
    <3>2. CASE func' = [func EXCEPT ![t] = @ + 1]
      BY <3>2
    <3> QED
      BY <1>24, <3>1, <3>2 DEF CheckFuncData
  <2>3. pc' \in [Threads -> CallerPCs \cup ContextPCs]
    BY <1>24 DEF CheckFuncData
  <2> QED
    BY <1>24, <2>1, <2>2, <2>3 DEF CheckFuncData
<1>25. ASSUME NEW t \in Threads, CallPreprocess(t) PROVE TypeOK'
  <2>1. PICK r \in {"ok", "fail"} : CallPreprocess(t)!3!(r)
    BY <1>25 DEF CallPreprocess
  <2>2. func' \in [Threads -> Nat] /\ pc' \in [Threads -> CallerPCs \cup ContextPCs]
    BY <2>1
  <2>3. preStatus' \in [XilOps -> [PreFuncs -> {"none", "ok", "fail"}]]
    BY <2>1
  <2>4. opLock' \in [Callers -> Threads \cup {NoThread}]
    BY <1>25 DEF CallPreprocess
  <2> QED
    BY <1>25, <2>2, <2>3, <2>4 DEF CallPreprocess
<1>26. ASSUME NEW t \in Threads, ComputeSucceeds(t) PROVE TypeOK'
  BY <1>26 DEF ComputeSucceeds, Op
<1>27. ASSUME NEW t \in Threads, ComputeFails(t) PROVE TypeOK'
  BY <1>27 DEF ComputeFails
<1>28. ASSUME NEW t \in Threads, ResetFails(t) PROVE TypeOK'
  BY <1>28 DEF ResetFails
<1>29. ASSUME NEW t \in Threads, NoFunctionLeft(t) PROVE TypeOK'
  BY <1>29 DEF NoFunctionLeft
<1>30. ASSUME NEW t \in Threads, FinishCompute(t) PROVE TypeOK'
  <2>1. status' \in [Callers -> BOOLEAN]
    BY <1>30 DEF FinishCompute, StatusAfter
  <2>2. contextList' \in [Callers -> SUBSET Contexts]
    BY <1>30 DEF FinishCompute, ListWithout, Op
  <2>3. complete' \in [Callers -> BOOLEAN] /\ asleep' \in SUBSET Threads
    <3>1. complete' = complete \/ complete' = [complete EXCEPT ![Op(t)] = TRUE]
      BY <1>30 DEF FinishCompute
    <3>2. asleep' = asleep \/ asleep' = asleep \ Signalled(t)
      BY <1>30 DEF FinishCompute
    <3> QED
      BY <3>1, <3>2
  <2>4. /\ pc' \in [Threads -> CallerPCs \cup ContextPCs]
        /\ rows' \in [Threads -> SUBSET Int] /\ func' \in [Threads -> Nat]
        /\ ctxStatus' \in [Threads -> BOOLEAN]
    BY <1>30 DEF FinishCompute
  <2> QED
    BY <1>30, <2>1, <2>2, <2>3, <2>4 DEF FinishCompute
<1>31. ASSUME NEW t \in Threads, SpuriousWakeup(t) PROVE TypeOK'
  BY <1>31 DEF SpuriousWakeup
<1>32. ASSUME NEW w \in Contexts, Retire(w) PROVE TypeOK'
  BY <1>32 DEF Retire
<1>33. ASSUME NEW w \in Contexts, WakeUp(w) PROVE TypeOK'
  <2>1. pc' \in [Threads -> CallerPCs \cup ContextPCs] /\ asleep' \in SUBSET Threads
    <3>1. \/ pc' = pc
          \/ pc' = [pc EXCEPT ![w] = "func"]
          \/ pc' = [pc EXCEPT ![w] = "exit"]
      BY <1>33 DEF WakeUp, StartCompute
    <3>2. asleep' = asleep \/ asleep' = asleep \cup {w}
      BY <1>33 DEF WakeUp
    <3> QED
      BY <3>1, <3>2
  <2>2. CASE UNCHANGED workVars
    BY <1>33, <2>1, <2>2 DEF WakeUp
  <2>3. CASE StartCompute(w, Op(w), rows[w])
    <3>1. operation' \in [Threads -> Callers \cup {NoThread}]
      BY <2>3 DEF StartCompute, Op
    <3>2. /\ rows' \in [Threads -> SUBSET Int] /\ func' \in [Threads -> Nat]
          /\ ctxStatus' \in [Threads -> BOOLEAN]
      BY <2>3 DEF StartCompute
    <3> QED
      BY <1>33, <2>1, <3>1, <3>2 DEF WakeUp
  <2> QED
    BY <1>33, <2>2, <2>3 DEF WakeUp
<1>34. CASE BeginClose
  BY <1>34 DEF BeginClose
<1>35. CASE DismissContext
  BY <1>35 DEF DismissContext, ListedForExit
<1>36. CASE JoinContext
  BY <1>36 DEF JoinContext
<1>37. CASE EndClose
  BY <1>37 DEF EndClose
<1>38. CASE Closed
  BY <1>38 DEF Closed, vars
<1> QED
  BY <1>1, <1>2, <1>3, <1>4, <1>5, <1>6, <1>7, <1>8, <1>9, <1>10, <1>11, <1>12, <1>13, <1>14, <1>15, <1>16, <1>17, <1>18, <1>19, <1>20, <1>21, <1>22, <1>23, <1>24, <1>25, <1>26, <1>27, <1>28, <1>29, <1>30, <1>31, <1>32, <1>33, <1>34, <1>35, <1>36, <1>37, <1>38
  DEF Next, Execute, StartThreads, Compute, Worker, Close

-----------------------------------------------------------------------------
\* The invariant without the types.
ControlInv == RolesInv /\ LockInv /\ ListInv /\ NewContextInv /\ CompleteInv /\ PoolInv

\* What the invariant depends on, apart from the program counters.
otherVars == <<opLock, newContext, started, complete, contextList, operation,
               listed, isDone, readyList>>

\* Outside of a tile an operation has no contexts.
LEMMA NoWorkers ==
  ASSUME IInv, NEW c \in Callers, pc[c] \notin InTilePCs, pc[c] # "return"
  PROVE  contextList[c] = {}
<1>1. contextList[c] \subseteq Contexts
  BY DEF IInv, TypeOK
<1>2. \A w \in contextList[c] : Attached(w) /\ operation[w] = c
  BY DEF IInv, ListInv
<1>3. \A w \in contextList[c] : pc[c] \in InTilePCs
  BY <1>1, <1>2 DEF IInv, ListInv
<1> QED
  BY <1>3

\* Nothing the invariant depends on changes.
LEMMA NothingMoves ==
  ASSUME IInv, UNCHANGED <<pc, otherVars>>
  PROVE  ControlInv'
<1>1. RolesInv' /\ LockInv'
  BY DEF IInv, RolesInv, LockInv, Attached, otherVars
<1>2. ListInv' /\ NewContextInv'
  BY DEF IInv, ListInv, NewContextInv, Attached, otherVars
<1>3. CompleteInv' /\ PoolInv'
  BY DEF IInv, CompleteInv, PoolInv, otherVars
<1> QED
  BY <1>1, <1>2, <1>3 DEF ControlInv

\* A caller goes from one part of the code to another without its lock.
LEMMA CallerMoves ==
  ASSUME IInv, NEW c \in Callers, NEW v \in CallerPCs \ {"split", "append", "pre"},
         pc[c] \notin {"append", "pre", "return"}, opLock[c] # c,
         v \in InTilePCs \/ contextList[c] = {},
         pc' = [pc EXCEPT ![c] = v], UNCHANGED otherVars
  PROVE  ControlInv'
<1> USE SchedulerAssumption DEF Threads
<1>1. pc'[c] = v /\ \A t \in Threads \ {c} : pc'[t] = pc[t]
  BY DEF IInv, TypeOK
<1>2. UNCHANGED <<opLock, newContext, started, complete, contextList, operation,
                  listed, isDone, readyList>>
  BY DEF otherVars
<1>3. \A w \in Contexts : pc'[w] = pc[w] /\ (Attached(w)' <=> Attached(w))
  BY <1>1, <1>2 DEF Attached
<1>4. RolesInv' /\ LockInv'
  BY <1>1, <1>2, <1>3 DEF IInv, RolesInv, LockInv
<1>5. ListInv'
  <2>1. ASSUME NEW w \in Contexts, Attached(w)', operation[w] = c PROVE v \in InTilePCs
    BY <2>1, <1>3 DEF IInv, ListInv
  <2>2. \A d \in Callers : \A w \in contextList[d] :
           pc'[d] # "return" => w \in Contexts /\ Attached(w) /\ operation[w] = d
    BY <1>1 DEF IInv, TypeOK, ListInv
  <2>3. \A w \in Contexts : Attached(w) => operation[w] \in Callers
    BY DEF IInv, RolesInv
  <2>4. ASSUME NEW w \in Contexts, Attached(w)'
        PROVE  /\ pc'[operation[w]] \in InTilePCs
               /\ \/ w \in contextList[operation[w]] /\ listed[w]
                  \/ pc'[operation[w]] = "append" /\ newContext[operation[w]] = w
    <3>1. CASE operation[w] = c
      BY <2>1, <2>4, <3>1, <1>1, <1>3 DEF IInv, ListInv
    <3>2. CASE operation[w] # c
      BY <2>3, <2>4, <3>2, <1>1, <1>3 DEF IInv, ListInv
    <3> QED
      BY <3>1, <3>2
  <2> QED
    BY <2>2, <2>4, <1>2, <1>3 DEF ListInv
<1>6. NewContextInv'
  BY <1>1, <1>2, <1>3 DEF IInv, NewContextInv
<1>7. CompleteInv'
  BY <1>1, <1>2 DEF IInv, CompleteInv
<1>8. PoolInv'
  BY <1>2, <1>3 DEF IInv, TypeOK, PoolInv
<1> QED
  BY <1>4, <1>5, <1>6, <1>7, <1>8 DEF ControlInv

\* A worker goes on computing, or is woken to compute or to exit.
LEMMA WorkerMoves ==
  ASSUME IInv, NEW w \in Contexts, NEW v \in ContextPCs \ {"pre", "none"},
         \/ pc[w] \in ComputePCs \ {"pre"} /\ v \in ComputePCs
         \/ pc[w] = "ready" /\ listed[w] /\ ~isDone[w] /\ v \in ComputePCs
         \/ pc[w] = "ready" /\ listed[w] /\ isDone[w] /\ v = "exit",
         pc' = [pc EXCEPT ![w] = v], UNCHANGED otherVars
  PROVE  ControlInv'
<1> USE SchedulerAssumption DEF Threads
<1>1. pc'[w] = v /\ \A t \in Threads \ {w} : pc'[t] = pc[t]
  BY DEF IInv, TypeOK
<1>2. UNCHANGED <<opLock, newContext, started, complete, contextList, operation,
                  listed, isDone, readyList>>
  BY DEF otherVars
<1>3. \A d \in Callers : pc'[d] = pc[d]
  BY <1>1
<1>4. \A u \in Contexts : Attached(u)' <=> Attached(u)
  BY <1>1, <1>2 DEF Attached, ComputePCs
<1>5. RolesInv'
  BY <1>1, <1>2, <1>3, <1>4 DEF IInv, RolesInv
<1>6. LockInv'
  BY <1>1, <1>2, <1>3 DEF IInv, LockInv
<1>7. ListInv'
  <2>1. \A d \in Callers : contextList[d] \subseteq Contexts
    BY DEF IInv, TypeOK
  <2>2. \A u \in Contexts : Attached(u) => operation[u] \in Callers
    BY DEF IInv, RolesInv
  <2> QED
    BY <2>1, <2>2, <1>2, <1>3, <1>4 DEF IInv, ListInv
<1>8. NewContextInv'
  BY <1>1, <1>2, <1>3 DEF IInv, NewContextInv, ComputePCs
<1>9. CompleteInv'
  BY <1>2, <1>3 DEF IInv, CompleteInv
<1>10. PoolInv'
  <2>1. isDone[w] => v = "exit"
    BY DEF IInv, PoolInv, ComputePCs
  <2>2. \A i \in 1..Len(readyList) : readyList[i] \in Contexts \ {w}
    BY DEF IInv, TypeOK, PoolInv, ComputePCs
  <2> QED
    BY <2>1, <2>2, <1>1, <1>2 DEF IInv, PoolInv
<1> QED
  BY <1>5, <1>6, <1>7, <1>8, <1>9, <1>10 DEF ControlInv

\* startComputeOperation() outside the operation's lock, by either kind of thread.
LEMMA ComputeMoves ==
  ASSUME IInv, NEW t \in Threads, NEW v \in {"func", "run", "finish"},
         pc[t] \in {"func", "run"},
         pc' = [pc EXCEPT ![t] = v], UNCHANGED otherVars
  PROVE  ControlInv'
<1>1. CASE t \in Callers
  <2>1. opLock[t] # t
    BY <1>1 DEF IInv, LockInv
  <2> QED
    BY <1>1, <2>1, CallerMoves DEF CallerPCs, InTilePCs
<1>2. CASE t \in Contexts
  BY <1>2, WorkerMoves DEF ContextPCs, ComputePCs
<1> QED
  BY <1>1, <1>2 DEF Threads

\* Moving the first element of a list of distinct elements to its end.
LEMMA PutBackDistinct ==
  ASSUME NEW S, NEW q \in Seq(S), q # <<>>,
         \A i, j \in 1..Len(q) : i # j => q[i] # q[j],
         NEW r, r = Append(Tail(q), Head(q))
  PROVE  /\ \A i \in 1..Len(r) : \E k \in 1..Len(q) : r[i] = q[k]
         /\ \A i, j \in 1..Len(r) : i # j => r[i] # r[j]
<1> DEFINE n == Len(q)
<1>1. n \in Nat /\ n > 0 /\ Len(r) = n
  OBVIOUS
<1>2. r[n] = q[1] /\ \A i \in 1..(n - 1) : r[i] = q[i + 1]
  OBVIOUS
<1> HIDE DEF n
<1>3. \A i \in 1..n : \E k \in 1..n : r[i] = q[k]
  <2> TAKE i \in 1..n
  <2>1. CASE i = n
    BY <2>1, <1>1, <1>2
  <2>2. CASE i # n
    <3>1. i \in 1..(n - 1) /\ i + 1 \in 1..n
      BY <2>2, <1>1
    <3> QED
      BY <3>1, <1>2
  <2> QED
    BY <2>1, <2>2
<1>4. \A i, j \in 1..n : i # j => r[i] # r[j]
  <2> SUFFICES ASSUME NEW i \in 1..n, NEW j \in 1..n, i # j PROVE r[i] # r[j]
    OBVIOUS
  <2>1. CASE i = n
    <3>1. j \in 1..(n - 1) /\ j + 1 \in 1..n /\ j + 1 # 1 /\ 1 \in 1..n
      BY <2>1, <1>1
    <3> QED
      BY <2>1, <3>1, <1>2 DEF n
  <2>2. CASE j = n
    <3>1. i \in 1..(n - 1) /\ i + 1 \in 1..n /\ i + 1 # 1 /\ 1 \in 1..n
      BY <2>2, <1>1
    <3> QED
      BY <2>2, <3>1, <1>2 DEF n
  <2>3. CASE i # n /\ j # n
    <3>1. /\ i \in 1..(n - 1) /\ i + 1 \in 1..n /\ j \in 1..(n - 1)
          /\ j + 1 \in 1..n /\ i + 1 # j + 1
      BY <2>3, <1>1
    <3> QED
      BY <3>1, <1>2 DEF n
  <2> QED
    BY <2>1, <2>2, <2>3
<1> QED
  BY <1>1, <1>3, <1>4 DEF n

\* A context put back on the ready list leaves the invariant intact.
LEMMA EmptyStripStep ==
  ASSUME IInv, NEW c \in Callers, EmptyStrip(c)
  PROVE  ControlInv'
<1>1. UNCHANGED <<pc, opLock, newContext, started, complete, contextList, operation,
                  listed, isDone>>
  BY DEF EmptyStrip, workVars
<1>2. RolesInv' /\ LockInv' /\ ListInv' /\ NewContextInv' /\ CompleteInv'
  BY <1>1 DEF IInv, RolesInv, LockInv, ListInv, NewContextInv, CompleteInv, Attached
<1>3. PoolInv'
  <2>1. CASE readyList' = readyList
    BY <2>1, <1>1 DEF IInv, PoolInv
  <2>2. CASE readyList # <<>> /\ readyList' = Append(Tail(readyList), Head(readyList))
    <3>1. readyList \in Seq(Contexts)
      BY DEF IInv, TypeOK
    <3>2. \A i, j \in 1..Len(readyList) : i # j => readyList[i] # readyList[j]
      BY DEF IInv, PoolInv
    <3>3. /\ \A i \in 1..Len(readyList') :
                \E k \in 1..Len(readyList) : readyList'[i] = readyList[k]
          /\ \A i, j \in 1..Len(readyList') : i # j => readyList'[i] # readyList'[j]
      BY <2>2, <3>1, <3>2, PutBackDistinct
    <3> QED
      BY <1>1, <3>3 DEF IInv, PoolInv
  <2> QED
    BY <2>1, <2>2 DEF EmptyStrip, PutBack
<1> QED
  BY <1>2, <1>3 DEF ControlInv

\* execOperation() with a new thread: it works before it is on the list.
LEMMA CreateThreadStep ==
  ASSUME IInv, NEW c \in Callers, CreateThread(c)
  PROVE  ControlInv'
<1> USE SchedulerAssumption DEF Threads
<1>1. PICK w \in Contexts : CreateThread(c)!2!(w)
  BY DEF CreateThread
<1>2. pc[c] = "split" /\ pc[w] = "none" /\ opLock[c] = c /\ w # c
  BY <1>1 DEF CreateThread, Splitting
<1>3. /\ pc'[w] = "func" /\ pc'[c] = "append"
      /\ \A t \in Threads \ {w, c} : pc'[t] = pc[t]
  BY <1>1, <1>2 DEF IInv, TypeOK
<1>4. operation'[w] = c /\ \A t \in Threads \ {w} : operation'[t] = operation[t]
  BY <1>1 DEF IInv, TypeOK
<1>5. newContext'[c] = w /\ \A d \in Callers \ {c} : newContext'[d] = newContext[d]
  BY <1>1 DEF IInv, TypeOK
<1>6. UNCHANGED <<opLock, started, complete, contextList, listed, isDone, readyList>>
  BY DEF CreateThread, poolVars, preVars
<1>7. \A d \in Callers : contextList[d] \subseteq Contexts
  BY DEF IInv, TypeOK
<1>8. ~Attached(w)
  BY <1>2 DEF Attached, ComputePCs
<1>9. Attached(w)' /\ \A v \in Contexts \ {w} : Attached(v)' <=> Attached(v)
  BY <1>2, <1>3, <1>6 DEF Attached, ComputePCs
<1>10. RolesInv'
  BY <1>2, <1>3, <1>4, <1>9 DEF IInv, RolesInv, CallerPCs, ContextPCs
<1>11. LockInv'
  <2>1. \A d \in Callers : opLock[d] = d => pc[d] \in {"split", "append", "pre"}
    BY DEF IInv, LockInv
  <2>2. \A t \in Threads : pc'[t] = "pre" => pc[t] = "pre" /\ operation'[t] = operation[t]
    BY <1>3, <1>4
  <2>3. \A d \in Callers \ {c} : pc'[d] = pc[d]
    BY <1>3
  <2> QED
    BY <1>2, <1>3, <1>6, <2>1, <2>2, <2>3 DEF IInv, LockInv
<1>12. ListInv'
  <2>1. ASSUME NEW d \in Callers, NEW v \in contextList[d], pc'[d] # "return"
        PROVE  Attached(v)' /\ operation'[v] = d
    <3>1. pc[d] # "return"
      BY <2>1, <1>2, <1>3
    <3>2. v \in Contexts /\ Attached(v) /\ operation[v] = d
      BY <3>1, <1>7 DEF IInv, ListInv
    <3> QED
      BY <3>2, <1>4, <1>8, <1>9
  <2>2. ASSUME NEW v \in Contexts \ {w}, Attached(v)'
        PROVE  /\ operation'[v] = operation[v]
               /\ pc'[operation'[v]] \in InTilePCs
               /\ \/ v \in contextList'[operation'[v]] /\ listed'[v]
                  \/ pc'[operation'[v]] = "append" /\ newContext'[operation'[v]] = v
    <3>1. Attached(v) /\ operation'[v] = operation[v]
      BY <2>2, <1>4, <1>9
    <3>2. operation[v] \in Callers
      BY <3>1 DEF IInv, RolesInv
    <3>3. /\ pc[operation[v]] \in InTilePCs
          /\ \/ v \in contextList[operation[v]] /\ listed[v]
             \/ pc[operation[v]] = "append" /\ newContext[operation[v]] = v
      BY <3>1 DEF IInv, ListInv
    <3> QED
      BY <3>1, <3>2, <3>3, <1>2, <1>3, <1>5, <1>6 DEF InTilePCs
  <2> QED
    BY <2>1, <2>2, <1>3, <1>4, <1>5, <1>6 DEF ListInv, InTilePCs
<1>13. NewContextInv'
  <2>1. ASSUME NEW d \in Callers \ {c}, pc'[d] = "append"
        PROVE  /\ newContext'[d] \in Contexts
               /\ pc'[newContext'[d]] \in ComputePCs
               /\ operation'[newContext'[d]] = d
    <3>1. pc[d] = "append" /\ newContext'[d] = newContext[d]
      BY <2>1, <1>3, <1>5
    <3>2. /\ newContext[d] \in Contexts /\ pc[newContext[d]] \in ComputePCs
          /\ operation[newContext[d]] = d
      BY <3>1 DEF IInv, NewContextInv
    <3>3. newContext[d] # w /\ newContext[d] # c
      BY <3>2, <1>2 DEF ComputePCs
    <3> QED
      BY <3>1, <3>2, <3>3, <1>3, <1>4
  <2> QED
    BY <2>1, <1>3, <1>4, <1>5 DEF NewContextInv, ComputePCs
<1>14. CompleteInv'
  BY <1>2, <1>3, <1>6 DEF IInv, CompleteInv
<1>15. PoolInv'
  <2>1. \A i \in 1..Len(readyList) : readyList[i] \in Contexts \ {w}
    BY <1>2 DEF IInv, TypeOK, PoolInv
  <2> QED
    BY <2>1, <1>2, <1>3, <1>6 DEF IInv, PoolInv
<1> QED
  BY <1>10, <1>11, <1>12, <1>13, <1>14, <1>15 DEF ControlInv

\* execOperation() with a context taken from the ready list.
LEMMA WakeContextStep ==
  ASSUME IInv, NEW c \in Callers, WakeContext(c)
  PROVE  ControlInv'
<1> USE SchedulerAssumption DEF Threads
<1>1. PICK w \in Contexts : w = Head(readyList) /\ w = readyList[1] /\ Len(readyList) > 0
  BY DEF WakeContext, IInv, TypeOK
<1>2. /\ Len(readyList) \in Nat /\ Len(readyList') = Len(readyList) - 1
      /\ \A i \in 1..Len(readyList') : readyList'[i] = readyList[i + 1]
  BY <1>1 DEF WakeContext, IInv, TypeOK
<1>3. pc[c] = "split" /\ opLock[c] = c
  BY DEF WakeContext, Splitting
<1>4. pc[w] = "ready" /\ ~listed[w] /\ ~isDone[w] /\ ~Attached(w)
  BY <1>1 DEF IInv, PoolInv, Attached, ComputePCs
<1>5. operation'[w] = c /\ \A t \in Threads \ {w} : operation'[t] = operation[t]
  BY <1>1 DEF WakeContext, IInv, TypeOK
<1>6. listed'[w] /\ \A v \in Contexts \ {w} : listed'[v] = listed[v]
  BY <1>1 DEF WakeContext, IInv, TypeOK
<1>7. /\ contextList'[c] = contextList[c] \cup {w}
      /\ \A d \in Callers \ {c} : contextList'[d] = contextList[d]
      /\ started'[c] /\ \A d \in Callers \ {c} : started'[d] = started[d]
  BY <1>1 DEF WakeContext, IInv, TypeOK
<1>8. UNCHANGED <<pc, opLock, newContext, complete, isDone>>
  BY DEF WakeContext
<1>9. Attached(w)' /\ \A v \in Contexts \ {w} : Attached(v)' <=> Attached(v)
  BY <1>4, <1>6, <1>8 DEF Attached
<1>10. RolesInv'
  BY <1>5, <1>8, <1>9 DEF IInv, RolesInv
<1>11. LockInv'
  <2>1. \A t \in Threads : pc[t] = "pre" => operation'[t] = operation[t]
    BY <1>4, <1>5
  <2> QED
    BY <1>8, <2>1 DEF IInv, LockInv
<1>12. ListInv'
  <2>1. ASSUME NEW d \in Callers, NEW v \in contextList'[d], pc'[d] # "return"
        PROVE  Attached(v)' /\ operation'[v] = d
    <3>1. CASE v = w /\ d = c
      BY <3>1, <1>5, <1>9
    <3>2. CASE v \in contextList[d]
      <4>1. v \in Contexts /\ Attached(v) /\ operation[v] = d
        BY <2>1, <3>2, <1>8 DEF IInv, ListInv, TypeOK
      <4> QED
        BY <4>1, <1>4, <1>5, <1>9
    <3> QED
      BY <3>1, <3>2, <1>7
  <2>2. ASSUME NEW v \in Contexts \ {w}, Attached(v)'
        PROVE  /\ pc'[operation'[v]] \in InTilePCs
               /\ \/ v \in contextList'[operation'[v]] /\ listed'[v]
                  \/ pc'[operation'[v]] = "append" /\ newContext'[operation'[v]] = v
    <3>1. Attached(v) /\ operation'[v] = operation[v] /\ listed'[v] = listed[v]
      BY <2>2, <1>5, <1>6, <1>9
    <3>2. operation[v] \in Callers
      BY <3>1 DEF IInv, RolesInv
    <3>3. /\ pc[operation[v]] \in InTilePCs
          /\ \/ v \in contextList[operation[v]] /\ listed[v]
             \/ pc[operation[v]] = "append" /\ newContext[operation[v]] = v
      BY <3>1 DEF IInv, ListInv
    <3> QED
      BY <3>1, <3>2, <3>3, <1>7, <1>8
  <2>3. /\ pc'[operation'[w]] \in InTilePCs
        /\ w \in contextList'[operation'[w]] /\ listed'[w]
    BY <1>3, <1>5, <1>6, <1>7, <1>8 DEF InTilePCs
  <2> QED
    BY <2>1, <2>2, <2>3 DEF ListInv
<1>13. NewContextInv'
  BY <1>4, <1>5, <1>8 DEF IInv, NewContextInv, ComputePCs
<1>14. CompleteInv'
  BY <1>3, <1>7, <1>8 DEF IInv, CompleteInv
<1>15. PoolInv'
  <2>1. ASSUME NEW i \in 1..Len(readyList')
        PROVE  /\ i + 1 \in 1..Len(readyList) /\ readyList'[i] = readyList[i + 1]
               /\ readyList'[i] \in Contexts \ {w}
               /\ pc[readyList'[i]] = "ready" /\ ~listed[readyList'[i]]
    <3>1. i + 1 \in 1..Len(readyList) /\ i + 1 # 1 /\ 1 \in 1..Len(readyList)
      BY <1>1, <1>2
    <3>2. readyList'[i] = readyList[i + 1]
      BY <1>2
    <3>3. readyList[i + 1] # readyList[1] /\ readyList[i + 1] \in Contexts
      BY <3>1 DEF IInv, PoolInv, TypeOK
    <3>4. pc[readyList[i + 1]] = "ready" /\ ~listed[readyList[i + 1]]
      BY <3>1 DEF IInv, PoolInv
    <3> QED
      BY <3>1, <3>2, <3>3, <3>4, <1>1
  <2>2. \A i \in 1..Len(readyList') :
           pc'[readyList'[i]] = "ready" /\ ~listed'[readyList'[i]]
    BY <2>1, <1>6, <1>8
  <2>3. ASSUME NEW i \in 1..Len(readyList'), NEW j \in 1..Len(readyList'), i # j
        PROVE  readyList'[i] # readyList'[j]
    <3>1. i + 1 \in 1..Len(readyList) /\ j + 1 \in 1..Len(readyList) /\ i + 1 # j + 1
      BY <2>1, <2>3
    <3>2. readyList[i + 1] # readyList[j + 1]
      BY <3>1 DEF IInv, PoolInv
    <3> QED
      BY <3>2, <2>1
  <2>4. \A v \in Contexts : isDone'[v] => \/ pc'[v] = "exit"
                                          \/ pc'[v] = "ready" /\ listed'[v]
    BY <1>4, <1>6, <1>8 DEF IInv, PoolInv
  <2>5. \A v \in Contexts : pc'[v] = "none" => ~listed'[v]
    BY <1>4, <1>6, <1>8 DEF IInv, PoolInv
  <2> QED
    BY <2>2, <2>3, <2>4, <2>5 DEF PoolInv
<1> QED
  BY <1>10, <1>11, <1>12, <1>13, <1>14, <1>15 DEF ControlInv

\* recoverFailure(): no killed context is left behind as a user.
LEMMA SplitFailsStep ==
  ASSUME IInv, NEW c \in Callers, SplitFails(c)
  PROVE  ControlInv'
<1> USE SchedulerAssumption DEF Threads
<1>1. pc[c] = "split" /\ opLock[c] = c
  BY DEF SplitFails, Splitting
<1>2. \A w \in contextList[c] : w \in Contexts /\ Attached(w) /\ operation[w] = c
  BY <1>1 DEF IInv, TypeOK, ListInv
<1>3. /\ pc'[c] = "return"
      /\ \A w \in contextList[c] : pc'[w] = "none" /\ ~listed'[w]
      /\ \A t \in Threads : t # c /\ t \notin contextList[c] => pc'[t] = pc[t]
      /\ \A w \in Contexts \ contextList[c] : listed'[w] = listed[w]
  <2>1. /\ pc'[c] = "return"
        /\ \A w \in contextList[c] : pc'[w] = "none"
        /\ \A t \in Threads : t # c /\ t \notin contextList[c] => pc'[t] = pc[t]
    BY <1>2 DEF SplitFails, Killed
  <2>2. listed' = [w \in Contexts |-> listed[w] /\ w \notin contextList[c]]
    BY DEF SplitFails, Killed
  <2>3. listed \in [Contexts -> BOOLEAN]
    BY DEF IInv, TypeOK
  <2>4. \A w \in contextList[c] : ~listed'[w]
    BY <1>2, <2>2
  <2>5. ASSUME NEW w \in Contexts \ contextList[c] PROVE listed'[w] = listed[w]
    <3>1. listed'[w] = (listed[w] /\ TRUE)
      BY <2>2
    <3>2. listed[w] \in BOOLEAN
      BY <2>3
    <3> QED
      BY <3>1, <3>2
  <2> QED
    BY <2>1, <2>4, <2>5
<1>4. UNCHANGED <<newContext, started, complete, contextList, operation, isDone>>
  BY DEF SplitFails, opVars, workVars
<1>5. opLock'[c] = NoThread /\ \A d \in Callers \ {c} : opLock'[d] = opLock[d]
  BY DEF SplitFails, IInv, TypeOK
<1>6. /\ \A d \in Callers \ {c} : pc'[d] = pc[d]
      /\ \A w \in contextList[c] : ~Attached(w)'
      /\ \A w \in Contexts \ contextList[c] : pc'[w] = pc[w] /\ (Attached(w)' <=> Attached(w))
  BY <1>2, <1>3, <1>4 DEF Attached, ComputePCs
<1>7. \A w \in Contexts : Attached(w)' => Attached(w) /\ operation[w] # c
  <2> SUFFICES ASSUME NEW w \in Contexts, Attached(w)' PROVE Attached(w) /\ operation[w] # c
    OBVIOUS
  <2>1. w \notin contextList[c] /\ Attached(w)
    BY <1>6
  <2>2. operation[w] = c => w \in contextList[c]
    BY <2>1, <1>1 DEF IInv, ListInv
  <2> QED
    BY <2>1, <2>2
<1>8. RolesInv'
  BY <1>3, <1>4, <1>6, <1>7 DEF IInv, RolesInv, CallerPCs, ContextPCs
<1>9. LockInv'
  <2>1. ASSUME NEW t \in Threads, pc'[t] = "pre"
        PROVE  opLock'[operation'[t]] = t
    <3>1. pc[t] = "pre" /\ opLock[operation[t]] = t /\ t # c
      BY <2>1, <1>3 DEF IInv, LockInv
    <3>2. operation[t] # c
      BY <3>1, <1>1
    <3>3. operation[t] \in Callers
      BY <3>1 DEF IInv, RolesInv, Attached, ComputePCs
    <3> QED
      BY <3>1, <3>2, <3>3, <1>4, <1>5
  <2> QED
    BY <2>1, <1>3, <1>5, <1>6 DEF IInv, LockInv
<1>10. ListInv'
  <2>1. ASSUME NEW d \in Callers, NEW v \in contextList'[d], pc'[d] # "return"
        PROVE  Attached(v)' /\ operation'[v] = d
    <3>1. d # c /\ v \in contextList[d] /\ pc[d] # "return"
      BY <2>1, <1>3, <1>4, <1>6
    <3>2. v \in Contexts /\ Attached(v) /\ operation[v] = d
      BY <3>1 DEF IInv, TypeOK, ListInv
    <3>3. v \notin contextList[c]
      BY <3>1, <3>2, <1>2
    <3> QED
      BY <3>2, <3>3, <1>4, <1>6
  <2>2. ASSUME NEW v \in Contexts, Attached(v)'
        PROVE  /\ pc'[operation'[v]] \in InTilePCs
               /\ \/ v \in contextList'[operation'[v]] /\ listed'[v]
                  \/ pc'[operation'[v]] = "append" /\ newContext'[operation'[v]] = v
    <3>1. Attached(v) /\ operation[v] # c /\ v \notin contextList[c]
      BY <2>2, <1>6, <1>7
    <3>2. operation[v] \in Callers \ {c}
      BY <3>1 DEF IInv, RolesInv
    <3>3. /\ pc[operation[v]] \in InTilePCs
          /\ \/ v \in contextList[operation[v]] /\ listed[v]
             \/ pc[operation[v]] = "append" /\ newContext[operation[v]] = v
      BY <3>1 DEF IInv, ListInv
    <3> QED
      BY <3>1, <3>2, <3>3, <1>3, <1>4, <1>6
  <2> QED
    BY <2>1, <2>2 DEF ListInv
<1>11. NewContextInv'
  <2>1. ASSUME NEW d \in Callers, pc'[d] = "append"
        PROVE  /\ newContext'[d] \in Contexts
               /\ pc'[newContext'[d]] \in ComputePCs
               /\ operation'[newContext'[d]] = d
    <3>1. d # c /\ pc[d] = "append"
      BY <2>1, <1>3, <1>6
    <3>2. /\ newContext[d] \in Contexts /\ pc[newContext[d]] \in ComputePCs
          /\ operation[newContext[d]] = d
      BY <3>1 DEF IInv, NewContextInv
    <3>3. newContext[d] \notin contextList[c]
      BY <3>1, <3>2, <1>2
    <3> QED
      BY <3>2, <3>3, <1>4, <1>6
  <2> QED
    BY <2>1 DEF NewContextInv
<1>12. CompleteInv'
  BY <1>3, <1>4, <1>5, <1>6 DEF IInv, CompleteInv
<1>13. PoolInv'
  <2>1. \A w \in contextList[c] : ~isDone[w]
    BY <1>2 DEF IInv, PoolInv, Attached, ComputePCs
  <2>2. ASSUME NEW i \in 1..Len(readyList) PROVE readyList[i] \in Contexts \ contextList[c]
    <3>1. readyList[i] \in Contexts /\ pc[readyList[i]] = "ready" /\ ~listed[readyList[i]]
      BY DEF IInv, PoolInv, TypeOK
    <3> QED
      BY <3>1, <1>2 DEF Attached, ComputePCs
  <2>3. /\ \A i \in 1..Len(readyList') :
                \E k \in 1..Len(readyList) : readyList'[i] = readyList[k]
        /\ \A i, j \in 1..Len(readyList') : i # j => readyList'[i] # readyList'[j]
    <3>1. CASE readyList' = readyList
      BY <3>1 DEF IInv, PoolInv
    <3>2. CASE readyList # <<>> /\ readyList' = Append(Tail(readyList), Head(readyList))
      <4>1. readyList \in Seq(Contexts)
        BY DEF IInv, TypeOK
      <4>2. \A i, j \in 1..Len(readyList) : i # j => readyList[i] # readyList[j]
        BY DEF IInv, PoolInv
      <4> QED
        BY <3>2, <4>1, <4>2, PutBackDistinct
    <3>3. \/ readyList' = readyList
          \/ readyList # <<>> /\ readyList' = Append(Tail(readyList), Head(readyList))
      BY DEF SplitFails, PutBack
    <3> QED
      BY <3>1, <3>2, <3>3
  <2>4. \A k \in 1..Len(readyList) :
           pc'[readyList[k]] = "ready" /\ ~listed'[readyList[k]]
    BY <2>2, <1>3, <1>6 DEF IInv, PoolInv
  <2>5. \A w \in Contexts : isDone'[w] => \/ pc'[w] = "exit"
                                          \/ pc'[w] = "ready" /\ listed'[w]
    BY <2>1, <1>3, <1>4, <1>6 DEF IInv, PoolInv
  <2>6. \A w \in Contexts : pc'[w] = "none" => ~listed'[w]
    BY <1>3, <1>6 DEF IInv, PoolInv
  <2>7. ASSUME NEW i \in 1..Len(readyList')
        PROVE  pc'[readyList'[i]] = "ready" /\ ~listed'[readyList'[i]]
    BY <2>3, <2>4
  <2> QED
    BY <2>3, <2>5, <2>6, <2>7 DEF PoolInv
<1> QED
  BY <1>8, <1>9, <1>10, <1>11, <1>12, <1>13 DEF ControlInv

\* ClippedAway and NextTile: the next tile starts with an empty context list.
LEMMA TileStep ==
  ASSUME IInv, NEW c \in Callers, ClippedAway(c) \/ NextTile(c)
  PROVE  ControlInv'
<1> USE SchedulerAssumption DEF Threads
<1>1. /\ pc[c] = "tiles" /\ pc'[c] \in {"tiles", "split", "primary"}
      /\ \A t \in Threads \ {c} : pc'[t] = pc[t]
  <2>1. CASE ClippedAway(c)
    BY <2>1 DEF ClippedAway
  <2>2. CASE NextTile(c)
    BY <2>2 DEF NextTile, IInv, TypeOK
  <2> QED
    BY <2>1, <2>2
<1>2. /\ complete' = [complete EXCEPT ![c] = FALSE]
      /\ started' = [started EXCEPT ![c] = FALSE]
      /\ UNCHANGED <<opLock, newContext, contextList, operation, listed, isDone, readyList>>
  BY DEF ClippedAway, NextTile, workVars, poolVars, preVars
<1>3. /\ ~complete'[c] /\ ~started'[c]
      /\ \A d \in Callers \ {c} : complete'[d] = complete[d] /\ started'[d] = started[d]
  BY <1>2 DEF IInv, TypeOK
<1>4. contextList[c] = {} /\ opLock[c] # c
  BY <1>1, NoWorkers DEF IInv, LockInv, InTilePCs
<1>5. \A w \in Contexts : pc'[w] = pc[w] /\ (Attached(w)' <=> Attached(w))
  BY <1>1, <1>2 DEF Attached
<1>6. RolesInv' /\ LockInv'
  BY <1>1, <1>2, <1>4, <1>5 DEF IInv, RolesInv, LockInv, CallerPCs
<1>7. ListInv'
  <2>1. \A w \in Contexts : Attached(w) => operation[w] \in Callers \ {c}
    BY <1>1 DEF IInv, RolesInv, ListInv, InTilePCs
  <2>2. \A d \in Callers : contextList[d] \subseteq Contexts
    BY DEF IInv, TypeOK
  <2> QED
    BY <2>1, <2>2, <1>1, <1>2, <1>4, <1>5 DEF IInv, ListInv
<1>8. NewContextInv'
  BY <1>1, <1>2, <1>5 DEF IInv, NewContextInv
<1>9. CompleteInv'
  BY <1>1, <1>2, <1>3, <1>4 DEF IInv, CompleteInv
<1>10. PoolInv'
  BY <1>2, <1>5 DEF IInv, TypeOK, PoolInv
<1> QED
  BY <1>6, <1>7, <1>8, <1>9, <1>10 DEF ControlInv

\* startThreads() enters its critical section with an empty context list.
LEMMA LockForSplitStep ==
  ASSUME IInv, NEW c \in Callers, LockForSplit(c)
  PROVE  ControlInv'
<1> USE SchedulerAssumption DEF Threads
<1>1. /\ pc[c] = "split" /\ opLock[c] = NoThread /\ opLock'[c] = c
      /\ \A d \in Callers \ {c} : opLock'[d] = opLock[d]
  BY DEF LockForSplit, Free, IInv, TypeOK
<1>2. UNCHANGED <<pc, newContext, started, complete, contextList, operation, listed,
                  isDone, readyList>>
  BY DEF LockForSplit, opVars, workVars, poolVars, preVars
<1>3. RolesInv' /\ ListInv' /\ NewContextInv' /\ PoolInv'
  BY <1>2 DEF IInv, RolesInv, ListInv, NewContextInv, PoolInv, Attached
<1>4. LockInv'
  <2>1. \A t \in Threads : pc[t] = "pre" => operation[t] \in Callers \ {c}
    BY <1>1 DEF IInv, RolesInv, LockInv, Attached, ComputePCs
  <2> QED
    BY <2>1, <1>1, <1>2 DEF IInv, LockInv
<1>5. CompleteInv'
  BY <1>1, <1>2 DEF IInv, CompleteInv
<1> QED
  BY <1>3, <1>4, <1>5 DEF ControlInv

\* The new context is put on the operation's list.
LEMMA AppendContextStep ==
  ASSUME IInv, NEW c \in Callers, AppendContext(c)
  PROVE  ControlInv'
<1> USE SchedulerAssumption DEF Threads
<1>1. PICK w \in Contexts : /\ w = newContext[c] /\ pc[w] \in ComputePCs
                            /\ operation[w] = c
  BY DEF AppendContext, IInv, NewContextInv
<1>2. /\ pc[c] = "append" /\ pc'[c] = "split" /\ opLock[c] = c
      /\ \A t \in Threads \ {c} : pc'[t] = pc[t]
  BY DEF AppendContext, IInv, TypeOK, LockInv
<1>3. /\ listed'[w] /\ \A u \in Contexts \ {w} : listed'[u] = listed[u]
      /\ contextList'[c] = contextList[c] \cup {w}
      /\ \A d \in Callers \ {c} : contextList'[d] = contextList[d]
      /\ started'[c] /\ \A d \in Callers \ {c} : started'[d] = started[d]
      /\ \A d \in Callers \ {c} : newContext'[d] = newContext[d]
  BY <1>1 DEF AppendContext, IInv, TypeOK
<1>4. UNCHANGED <<opLock, complete, operation, isDone, readyList>>
  BY DEF AppendContext, workVars
<1>5. \A u \in Contexts : pc'[u] = pc[u] /\ (Attached(u)' <=> Attached(u))
  <2>1. \A u \in Contexts : pc'[u] = pc[u]
    BY <1>2
  <2>2. \A u \in Contexts \ {w} : Attached(u)' <=> Attached(u)
    BY <2>1, <1>3, <1>4 DEF Attached
  <2>3. Attached(w)' /\ Attached(w)
    BY <2>1, <1>1 DEF Attached
  <2> QED
    BY <2>1, <2>2, <2>3
<1>6. RolesInv' /\ LockInv'
  BY <1>2, <1>4, <1>5 DEF IInv, RolesInv, LockInv, CallerPCs
<1>7. ListInv'
  <2>1. Attached(w)
    BY <1>1 DEF Attached
  <2>2. ASSUME NEW d \in Callers, NEW u \in contextList'[d], pc'[d] # "return"
        PROVE  Attached(u)' /\ operation'[u] = d
    <3>1. CASE u = w /\ d = c
      BY <3>1, <2>1, <1>1, <1>4, <1>5
    <3>2. CASE u \in contextList[d]
      <4>1. pc[d] # "return"
        BY <2>2, <1>2
      <4>2. u \in Contexts /\ Attached(u) /\ operation[u] = d
        BY <3>2, <4>1 DEF IInv, TypeOK, ListInv
      <4> QED
        BY <4>2, <1>4, <1>5
    <3> QED
      BY <3>1, <3>2, <1>3
  <2>3. ASSUME NEW u \in Contexts \ {w}, Attached(u)'
        PROVE  /\ pc'[operation'[u]] \in InTilePCs
               /\ \/ u \in contextList'[operation'[u]] /\ listed'[u]
                  \/ pc'[operation'[u]] = "append" /\ newContext'[operation'[u]] = u
    <3>1. Attached(u) /\ operation[u] \in Callers /\ listed'[u] = listed[u]
      BY <2>3, <1>3, <1>5 DEF IInv, RolesInv
    <3>2. /\ pc[operation[u]] \in InTilePCs
          /\ \/ u \in contextList[operation[u]] /\ listed[u]
             \/ pc[operation[u]] = "append" /\ newContext[operation[u]] = u
      BY <3>1 DEF IInv, ListInv
    <3>3. CASE operation[u] = c
      BY <3>1, <3>2, <3>3, <1>1, <1>2, <1>3, <1>4 DEF InTilePCs
    <3>4. CASE operation[u] # c
      BY <3>1, <3>2, <3>4, <1>2, <1>3, <1>4
    <3> QED
      BY <3>3, <3>4
  <2>4. /\ pc'[operation'[w]] \in InTilePCs
        /\ w \in contextList'[operation'[w]] /\ listed'[w]
    BY <1>1, <1>2, <1>3, <1>4 DEF InTilePCs
  <2> QED
    BY <2>2, <2>3, <2>4 DEF ListInv
<1>8. NewContextInv'
  BY <1>2, <1>3, <1>4, <1>5 DEF IInv, NewContextInv
<1>9. CompleteInv'
  BY <1>2, <1>3, <1>4 DEF IInv, CompleteInv
<1>10. PoolInv'
  <2>1. pc[w] \notin {"exit", "ready", "none"}
    BY <1>1 DEF ComputePCs
  <2>2. ~isDone[w]
    BY <2>1 DEF IInv, PoolInv
  <2>3. \A i \in 1..Len(readyList) : readyList[i] \in Contexts /\ pc[readyList[i]] = "ready"
    BY DEF IInv, TypeOK, PoolInv
  <2>4. \A i \in 1..Len(readyList) : readyList[i] \in Contexts \ {w}
    BY <2>1, <2>3
  <2> QED
    BY <2>1, <2>2, <2>4, <1>3, <1>4, <1>5 DEF IInv, PoolInv
<1> QED
  BY <1>6, <1>7, <1>8, <1>9, <1>10 DEF ControlInv

\* The end of startThreads(): complete only if nothing was started.
LEMMA SplitDoneStep ==
  ASSUME IInv, NEW c \in Callers, SplitDone(c)
  PROVE  ControlInv'
<1> USE SchedulerAssumption DEF Threads
<1>1. /\ pc[c] = "split" /\ pc'[c] = "primary"
      /\ \A t \in Threads \ {c} : pc'[t] = pc[t]
      /\ opLock[c] = c /\ opLock'[c] = NoThread
      /\ \A d \in Callers \ {c} : opLock'[d] = opLock[d]
  BY DEF SplitDone, IInv, TypeOK
<1>2. UNCHANGED <<newContext, started, contextList, operation, listed, isDone, readyList>>
  BY DEF SplitDone, opVars, workVars, poolVars, preVars
<1>3. /\ complete'[c] => contextList[c] = {}
      /\ \A d \in Callers \ {c} : complete'[d] = complete[d]
  <2>1. CASE complete' = complete
    BY <2>1, <1>1 DEF IInv, CompleteInv
  <2>2. CASE ~started[c] /\ complete' = [complete EXCEPT ![c] = TRUE]
    BY <2>2, <1>1 DEF IInv, TypeOK, CompleteInv
  <2> QED
    BY <2>1, <2>2 DEF SplitDone
<1>4. \A w \in Contexts : pc'[w] = pc[w] /\ (Attached(w)' <=> Attached(w))
  BY <1>1, <1>2 DEF Attached
<1>5. RolesInv'
  BY <1>1, <1>2, <1>4 DEF IInv, RolesInv, CallerPCs
<1>6. LockInv'
  <2>1. \A t \in Threads : pc'[t] = "pre" => t # c /\ pc[t] = "pre" /\ operation[t] \in Callers \ {c}
    BY <1>1 DEF IInv, RolesInv, LockInv, Attached, ComputePCs
  <2> QED
    BY <2>1, <1>1, <1>2 DEF IInv, LockInv
<1>7. ListInv'
  <2>1. \A w \in Contexts : Attached(w) => operation[w] \in Callers
    BY DEF IInv, RolesInv
  <2>2. \A d \in Callers : contextList[d] \subseteq Contexts
    BY DEF IInv, TypeOK
  <2> QED
    BY <2>1, <2>2, <1>1, <1>2, <1>4 DEF IInv, ListInv, InTilePCs
<1>8. NewContextInv'
  BY <1>1, <1>2, <1>4 DEF IInv, NewContextInv
<1>9. CompleteInv'
  BY <1>1, <1>2, <1>3 DEF IInv, CompleteInv
<1>10. PoolInv'
  BY <1>2, <1>4 DEF IInv, TypeOK, PoolInv
<1> QED
  BY <1>5, <1>6, <1>7, <1>8, <1>9, <1>10 DEF ControlInv

\* The operation's destructor: no worker is left behind with it.
LEMMA ReturnStep ==
  ASSUME IInv, NEW c \in Callers, Return(c)
  PROVE  ControlInv'
<1> USE SchedulerAssumption DEF Threads
<1>1. /\ pc[c] = "return" /\ pc'[c] = "idle"
      /\ \A t \in Threads \ {c} : pc'[t] = pc[t]
      /\ contextList'[c] = {} /\ ~started'[c] /\ ~complete'[c]
      /\ \A d \in Callers \ {c} : /\ contextList'[d] = contextList[d]
                                  /\ started'[d] = started[d]
                                  /\ complete'[d] = complete[d]
  BY DEF Return, IInv, TypeOK
<1>2. UNCHANGED <<opLock, newContext, operation, listed, isDone, readyList>>
  BY DEF Return, workVars, poolVars, preVars
<1>3. \A w \in Contexts : pc'[w] = pc[w] /\ (Attached(w)' <=> Attached(w))
  BY <1>1, <1>2 DEF Attached
<1>4. RolesInv' /\ LockInv'
  BY <1>1, <1>2, <1>3 DEF IInv, RolesInv, LockInv, CallerPCs
<1>5. ListInv'
  <2>1. \A w \in Contexts : Attached(w) => operation[w] \in Callers \ {c}
    BY <1>1 DEF IInv, RolesInv, ListInv, InTilePCs
  <2>2. \A d \in Callers : contextList[d] \subseteq Contexts
    BY DEF IInv, TypeOK
  <2> QED
    BY <2>1, <2>2, <1>1, <1>2, <1>3 DEF IInv, ListInv
<1>6. NewContextInv'
  BY <1>1, <1>2, <1>3 DEF IInv, NewContextInv
<1>7. CompleteInv'
  BY <1>1, <1>2 DEF IInv, CompleteInv
<1>8. PoolInv'
  BY <1>2, <1>3 DEF IInv, TypeOK, PoolInv
<1> QED
  BY <1>4, <1>5, <1>6, <1>7, <1>8 DEF ControlInv

\* Entering or leaving a preprocess routine, which keeps the operation locked.
LEMMA PreprocessStep ==
  ASSUME IInv, NEW t \in Threads, NEW v \in {"pre", "run", "func"},
         \/ /\ pc[t] = "func" /\ v = "pre" /\ opLock[operation[t]] = NoThread
            /\ opLock' = [opLock EXCEPT ![operation[t]] = t]
         \/ /\ pc[t] = "pre" /\ v # "pre"
            /\ opLock' = [opLock EXCEPT ![operation[t]] = NoThread],
         pc' = [pc EXCEPT ![t] = v],
         UNCHANGED <<newContext, started, complete, contextList, operation, listed,
                     isDone, readyList>>
  PROVE  ControlInv'
<1> USE SchedulerAssumption DEF Threads
<1>1. pc'[t] = v /\ \A u \in Threads \ {t} : pc'[u] = pc[u]
  BY DEF IInv, TypeOK
<1>2. /\ operation[t] \in Callers /\ (t \in Callers => operation[t] = t)
      /\ pc[t] \in ComputePCs /\ pc'[t] \in ComputePCs
  BY <1>1 DEF IInv, RolesInv, Attached, ComputePCs
<1>3. /\ opLock'[operation[t]] = (IF v = "pre" THEN t ELSE NoThread)
      /\ \A d \in Callers \ {operation[t]} : opLock'[d] = opLock[d]
      /\ v = "pre" \/ opLock[operation[t]] = t
      /\ opLock[operation[t]] \in {NoThread, t}
  BY <1>2 DEF IInv, TypeOK, LockInv
<1>4. \A w \in Contexts : Attached(w)' <=> Attached(w)
  BY <1>1, <1>2 DEF Attached
<1>5. /\ \A d \in Callers \ {t} : pc'[d] = pc[d]
      /\ t \in Callers => {pc[t], pc'[t]} \subseteq InTilePCs \ {"append", "split", "return"}
  BY <1>1, <1>2 DEF ComputePCs, InTilePCs
<1>6. RolesInv'
  BY <1>1, <1>2, <1>4 DEF IInv, RolesInv, CallerPCs, ContextPCs
<1>7. LockInv'
  <2>1. ASSUME NEW d \in Callers, pc'[d] = "append" PROVE opLock'[d] = d
    BY <2>1, <1>2, <1>3, <1>5 DEF IInv, LockInv
  <2>2. ASSUME NEW u \in Threads, pc'[u] = "pre" PROVE opLock'[operation'[u]] = u
    <3>1. CASE u = t
      BY <2>2, <3>1, <1>1, <1>2, <1>3
    <3>2. CASE u # t
      <4>1. pc[u] = "pre" /\ opLock[operation[u]] = u /\ operation[u] \in Callers
        BY <2>2, <3>2, <1>1 DEF IInv, RolesInv, LockInv, Attached, ComputePCs
      <4>2. operation[u] # operation[t]
        BY <3>2, <4>1, <1>3
      <4> QED
        BY <4>1, <4>2, <1>3
    <3> QED
      BY <3>1, <3>2
  <2>3. ASSUME NEW d \in Callers, opLock'[d] = d PROVE pc'[d] \in {"split", "append", "pre"}
    <3>1. CASE d = operation[t]
      BY <2>3, <3>1, <1>1, <1>2, <1>3
    <3>2. CASE d # operation[t]
      <4>1. opLock[d] = d /\ pc[d] \in {"split", "append", "pre"}
        BY <2>3, <3>2, <1>3 DEF IInv, LockInv
      <4>2. d # t
        BY <3>2, <1>2
      <4> QED
        BY <4>1, <4>2, <1>5
    <3> QED
      BY <3>1, <3>2
  <2> QED
    BY <2>1, <2>2, <2>3 DEF LockInv
<1>8. ListInv'
  <2>1. \A d \in Callers : contextList[d] \subseteq Contexts
    BY DEF IInv, TypeOK
  <2>2. ASSUME NEW w \in Contexts, Attached(w)'
        PROVE  /\ pc'[operation[w]] \in InTilePCs
               /\ \/ w \in contextList[operation[w]] /\ listed[w]
                  \/ pc'[operation[w]] = "append" /\ newContext[operation[w]] = w
    <3>1. Attached(w) /\ operation[w] \in Callers
      BY <2>2, <1>4 DEF IInv, RolesInv
    <3>2. /\ pc[operation[w]] \in InTilePCs
          /\ \/ w \in contextList[operation[w]] /\ listed[w]
             \/ pc[operation[w]] = "append" /\ newContext[operation[w]] = w
      BY <3>1 DEF IInv, ListInv
    <3> QED
      BY <3>1, <3>2, <1>5
  <2> QED
    BY <2>1, <2>2, <1>4, <1>5 DEF IInv, ListInv
<1>9. NewContextInv'
  BY <1>1, <1>2, <1>5 DEF IInv, NewContextInv
<1>10. CompleteInv'
  <2>1. \A d \in Callers : pc'[d] \in {"split", "append", "return"} \/ pc[d] = "return" => pc'[d] = pc[d]
    BY <1>5
  <2>2. ASSUME NEW d \in Callers, pc'[d] = "split", opLock'[d] # d PROVE contextList[d] = {}
    <3>1. pc[d] = "split"
      BY <2>1, <2>2
    <3>2. CASE opLock[d] # d
      BY <3>1, <3>2 DEF IInv, CompleteInv
    <3>3. CASE opLock[d] = d
      BY <2>2, <3>1, <3>3, <1>2, <1>3, <1>5
    <3> QED
      BY <3>2, <3>3
  <2>3. \A d \in Callers : pc'[d] # "return" /\ (complete[d] \/ ~started[d]) => contextList[d] = {}
    BY <2>1 DEF IInv, CompleteInv
  <2>4. \A d \in Callers : pc'[d] \in {"split", "append"} => ~complete[d]
    BY <2>1 DEF IInv, CompleteInv
  <2> QED
    BY <2>2, <2>3, <2>4 DEF CompleteInv
<1>11. PoolInv'
  <2>1. \A i \in 1..Len(readyList) : readyList[i] \in Contexts \ {t}
    BY <1>2 DEF IInv, TypeOK, PoolInv, ComputePCs
  <2>2. t \in Contexts => ~isDone[t]
    BY <1>2 DEF IInv, PoolInv, ComputePCs
  <2> QED
    BY <2>1, <2>2, <1>1, <1>2 DEF IInv, PoolInv, ComputePCs
<1> QED
  BY <1>6, <1>7, <1>8, <1>9, <1>10, <1>11 DEF ControlInv

\* The end of startComputeOperation(): only the last one completes the operation.
LEMMA FinishStep ==
  ASSUME IInv, NEW t \in Threads, FinishCompute(t)
  PROVE  ControlInv'
<1> USE SchedulerAssumption DEF Threads
<1> DEFINE o == operation[t]
<1>1. /\ pc[t] = "finish" /\ pc'[t] = (IF t \in Callers THEN "join" ELSE "retire")
      /\ \A u \in Threads \ {t} : pc'[u] = pc[u]
  BY DEF FinishCompute, IInv, TypeOK
<1>2. o \in Callers /\ (t \in Callers => o = t) /\ opLock[o] = NoThread
  BY <1>1 DEF IInv, RolesInv, Attached, ComputePCs, FinishCompute, Free, Op
<1>3. UNCHANGED <<opLock, newContext, started, operation, listed, isDone, readyList>>
  BY DEF FinishCompute, opVars, poolVars, preVars
<1>4. t \in Contexts => Attached(t) /\ t \in contextList[o] /\ listed[t]
  <2>1. pc[o] # "append"
    BY <1>2 DEF IInv, LockInv
  <2> QED
    BY <2>1, <1>1 DEF IInv, ListInv, Attached, ComputePCs
<1>5. /\ contextList'[o] = contextList[o] \ {t}
      /\ \A d \in Callers \ {o} : contextList'[d] = contextList[d]
      /\ IsLast(t) <=> contextList'[o] = {}
  <2>1. ListWithout(t) = contextList[o] \ {t}
    BY <1>2, <1>4 DEF ListWithout, Op, IInv, TypeOK
  <2> QED
    BY <2>1, <1>2 DEF FinishCompute, IsLast, Op, IInv, TypeOK
<1>6. /\ complete'[o] => complete[o] \/ contextList'[o] = {}
      /\ \A d \in Callers \ {o} : complete'[d] = complete[d]
  <2>1. CASE complete' = complete
    BY <2>1
  <2>2. CASE IsLast(t) /\ complete' = [complete EXCEPT ![o] = TRUE]
    BY <2>2, <1>2, <1>5 DEF IInv, TypeOK
  <2> QED
    BY <2>1, <2>2 DEF FinishCompute, Op
<1>7. pc[o] \notin {"split", "append"}
  <2>1. CASE t \in Callers
    BY <2>1, <1>1, <1>2
  <2>2. CASE t \in Contexts
    BY <2>2, <1>2, <1>4 DEF IInv, LockInv, CompleteInv
  <2> QED
    BY <2>1, <2>2
<1> HIDE DEF o
<1>8. /\ \A w \in Contexts \ {t} : Attached(w)' <=> Attached(w)
      /\ t \in Contexts => ~Attached(t)'
      /\ \A d \in Callers \ {t} : pc'[d] = pc[d]
  BY <1>1, <1>3 DEF Attached, ComputePCs
<1>9. RolesInv'
  BY <1>1, <1>3, <1>8 DEF IInv, RolesInv, CallerPCs, ContextPCs
<1>10. LockInv'
  BY <1>1, <1>2, <1>3, <1>8 DEF IInv, LockInv
<1>11. ListInv'
  <2>1. ASSUME NEW d \in Callers, NEW w \in contextList'[d], pc'[d] # "return"
        PROVE  Attached(w)' /\ operation'[w] = d
    <3>1. w \in contextList[d] /\ w \in Contexts /\ pc[d] # "return"
      BY <2>1, <1>1, <1>5, <1>8 DEF IInv, TypeOK
    <3>2. Attached(w) /\ operation[w] = d
      BY <3>1 DEF IInv, ListInv
    <3>3. w # t
      BY <2>1, <3>2, <1>5 DEF o
    <3> QED
      BY <3>1, <3>2, <3>3, <1>3, <1>8
  <2>2. ASSUME NEW w \in Contexts, Attached(w)'
        PROVE  /\ pc'[operation'[w]] \in InTilePCs
               /\ \/ w \in contextList'[operation'[w]] /\ listed'[w]
                  \/ pc'[operation'[w]] = "append" /\ newContext'[operation'[w]] = w
    <3>1. w # t /\ Attached(w) /\ operation[w] \in Callers
      BY <2>2, <1>8 DEF IInv, RolesInv
    <3>2. /\ pc[operation[w]] \in InTilePCs
          /\ \/ w \in contextList[operation[w]] /\ listed[w]
             \/ pc[operation[w]] = "append" /\ newContext[operation[w]] = w
      BY <3>1 DEF IInv, ListInv
    <3>3. w \in contextList[operation[w]] => w \in contextList'[operation[w]]
      BY <3>1, <1>5
    <3>4. /\ pc'[operation[w]] \in InTilePCs
          /\ pc[operation[w]] = "append" => pc'[operation[w]] = "append"
      BY <3>1, <3>2, <1>1, <1>8 DEF InTilePCs
    <3> QED
      BY <3>2, <3>3, <3>4, <1>3
  <2> QED
    BY <2>1, <2>2 DEF ListInv
<1>12. NewContextInv'
  <2>1. ASSUME NEW d \in Callers, pc'[d] = "append"
        PROVE  /\ newContext[d] \in Contexts \ {t} /\ pc[newContext[d]] \in ComputePCs
               /\ operation[newContext[d]] = d
    <3>1. pc[d] = "append"
      BY <2>1, <1>1, <1>8
    <3>2. d # o
      BY <3>1, <1>7
    <3> QED
      BY <3>1, <3>2 DEF IInv, NewContextInv, o
  <2> QED
    BY <2>1, <1>1, <1>3 DEF NewContextInv
<1>13. CompleteInv'
  <2>1. \A d \in Callers : pc'[d] = "return" <=> pc[d] = "return"
    BY <1>1, <1>8
  <2>2. \A d \in Callers : pc'[d] \in {"split", "append"} => pc[d] = pc'[d] /\ d # o
    BY <1>1, <1>7, <1>8
  <2>3. ASSUME NEW d \in Callers, pc'[d] # "return", complete'[d] \/ ~started'[d]
        PROVE  contextList'[d] = {}
    <3>1. CASE d = o
      BY <2>1, <2>3, <3>1, <1>3, <1>5, <1>6 DEF IInv, CompleteInv
    <3>2. CASE d # o
      BY <2>1, <2>3, <3>2, <1>3, <1>5, <1>6 DEF IInv, CompleteInv
    <3> QED
      BY <3>1, <3>2
  <2> QED
    BY <2>2, <2>3, <1>3, <1>5, <1>6 DEF IInv, CompleteInv
<1>14. PoolInv'
  <2>1. \A i \in 1..Len(readyList) : readyList[i] \in Contexts \ {t}
    BY <1>1 DEF IInv, TypeOK, PoolInv
  <2>2. t \in Contexts => ~isDone[t]
    BY <1>1 DEF IInv, PoolInv
  <2> QED
    BY <2>1, <2>2, <1>1, <1>3 DEF IInv, PoolInv
<1> QED
  BY <1>9, <1>10, <1>11, <1>12, <1>13, <1>14 DEF ControlInv

\* A worker joins the ready list: it is on no operation's list any more.
LEMMA RetireStep ==
  ASSUME IInv, NEW w \in Contexts, Retire(w)
  PROVE  ControlInv'
<1> USE SchedulerAssumption DEF Threads
<1>1. /\ pc[w] = "retire" /\ pc'[w] = "ready" /\ ~listed'[w]
      /\ \A t \in Threads \ {w} : pc'[t] = pc[t]
      /\ \A u \in Contexts \ {w} : listed'[u] = listed[u]
      /\ readyList' = Append(readyList, w)
  BY DEF Retire, IInv, TypeOK
<1>2. UNCHANGED <<opLock, newContext, started, complete, contextList, operation, isDone>>
  BY DEF Retire, opVars, workVars
<1>3. /\ ~Attached(w) /\ ~isDone[w] /\ \A d \in Callers : pc'[d] = pc[d]
      /\ \A u \in Contexts : Attached(u)' <=> Attached(u)
  BY <1>1, <1>2 DEF Attached, ComputePCs, IInv, PoolInv
<1>4. RolesInv' /\ LockInv'
  BY <1>1, <1>2, <1>3 DEF IInv, RolesInv, LockInv, ContextPCs
<1>5. ListInv'
  <2>1. \A u \in Contexts : Attached(u) => u # w /\ operation[u] \in Callers
    BY <1>3 DEF IInv, RolesInv
  <2>2. \A d \in Callers : contextList[d] \subseteq Contexts
    BY DEF IInv, TypeOK
  <2> QED
    BY <2>1, <2>2, <1>1, <1>2, <1>3 DEF IInv, ListInv
<1>6. NewContextInv' /\ CompleteInv'
  BY <1>1, <1>2, <1>3 DEF IInv, NewContextInv, CompleteInv, ComputePCs
<1>7. PoolInv'
  <2>1. /\ Len(readyList) \in Nat /\ Len(readyList') = Len(readyList) + 1
        /\ readyList'[Len(readyList) + 1] = w
        /\ \A i \in 1..Len(readyList) : readyList'[i] = readyList[i]
    BY <1>1 DEF IInv, TypeOK
  <2>2. \A i \in 1..Len(readyList) : /\ readyList[i] \in Contexts \ {w}
                                     /\ pc[readyList[i]] = "ready" /\ ~listed[readyList[i]]
    BY <1>1 DEF IInv, TypeOK, PoolInv
  <2>3. \A i \in 1..Len(readyList') : i \in 1..Len(readyList) \/ i = Len(readyList) + 1
    BY <2>1
  <2>4. \A i \in 1..Len(readyList') :
           pc'[readyList'[i]] = "ready" /\ ~listed'[readyList'[i]]
    BY <2>1, <2>2, <2>3, <1>1
  <2>5. \A i, j \in 1..Len(readyList) : i # j => readyList[i] # readyList[j]
    BY DEF IInv, PoolInv
  <2>6. \A i, j \in 1..Len(readyList') : i # j => readyList'[i] # readyList'[j]
    BY <2>1, <2>2, <2>3, <2>5
  <2>7. \A u \in Contexts : isDone'[u] => \/ pc'[u] = "exit"
                                          \/ pc'[u] = "ready" /\ listed'[u]
    <3>1. \A u \in Contexts \ {w} : /\ isDone'[u] = isDone[u] /\ pc'[u] = pc[u]
                                    /\ listed'[u] = listed[u]
      BY <1>1, <1>2
    <3>2. ~isDone'[w]
      BY <1>2, <1>3
    <3>3. \A u \in Contexts : isDone[u] => \/ pc[u] = "exit"
                                           \/ pc[u] = "ready" /\ listed[u]
      BY DEF IInv, PoolInv
    <3> QED
      BY <3>1, <3>2, <3>3
  <2>8. \A u \in Contexts : pc'[u] = "none" => ~listed'[u]
    BY <1>1 DEF IInv, PoolInv
  <2> QED
    BY <2>4, <2>6, <2>7, <2>8 DEF PoolInv
<1> QED
  BY <1>4, <1>5, <1>6, <1>7 DEF ControlInv

\* The destructor dismisses the first ready context.
LEMMA DismissStep ==
  ASSUME IInv, DismissContext
  PROVE  ControlInv'
<1> USE SchedulerAssumption DEF Threads
<1>1. PICK w \in Contexts : w = Head(readyList) /\ w = readyList[1] /\ Len(readyList) > 0
  BY DEF DismissContext, IInv, TypeOK
<1>2. /\ Len(readyList) \in Nat /\ Len(readyList') = Len(readyList) - 1
      /\ \A i \in 1..Len(readyList') : readyList'[i] = readyList[i + 1]
  BY <1>1 DEF DismissContext, IInv, TypeOK
<1>3. /\ isDone'[w] /\ listed'[w]
      /\ \A u \in Contexts \ {w} : isDone'[u] = isDone[u] /\ listed'[u] = listed[u]
  BY <1>1 DEF DismissContext, ListedForExit, IInv, TypeOK
<1>4. UNCHANGED <<pc, opLock, newContext, started, complete, contextList, operation>>
  BY DEF DismissContext, opVars, workVars
<1>5. pc[w] = "ready" /\ ~listed[w]
  BY <1>1 DEF IInv, PoolInv
<1>6. \A u \in Contexts : Attached(u)' <=> Attached(u)
  BY <1>3, <1>4, <1>5 DEF Attached, ComputePCs
<1>7. RolesInv' /\ LockInv' /\ NewContextInv' /\ CompleteInv'
  BY <1>4, <1>6 DEF IInv, RolesInv, LockInv, NewContextInv, CompleteInv
<1>8. ListInv'
  <2>1. \A d \in Callers : contextList[d] \subseteq Contexts
    BY DEF IInv, TypeOK
  <2>2. \A u \in Contexts : Attached(u) => u # w
    BY <1>5 DEF Attached, ComputePCs
  <2> QED
    BY <2>1, <2>2, <1>3, <1>4, <1>6 DEF IInv, ListInv
<1>9. PoolInv'
  <2>1. ASSUME NEW i \in 1..Len(readyList')
        PROVE  /\ i + 1 \in 1..Len(readyList) /\ readyList'[i] = readyList[i + 1]
               /\ readyList'[i] \in Contexts \ {w}
               /\ pc[readyList'[i]] = "ready" /\ ~listed[readyList'[i]]
    <3>1. i + 1 \in 1..Len(readyList) /\ i + 1 # 1 /\ 1 \in 1..Len(readyList)
      BY <1>1, <1>2
    <3>2. readyList'[i] = readyList[i + 1]
      BY <1>2
    <3>3. readyList[i + 1] # readyList[1] /\ readyList[i + 1] \in Contexts
      BY <3>1 DEF IInv, PoolInv, TypeOK
    <3>4. pc[readyList[i + 1]] = "ready" /\ ~listed[readyList[i + 1]]
      BY <3>1 DEF IInv, PoolInv
    <3> QED
      BY <3>1, <3>2, <3>3, <3>4, <1>1
  <2>2. \A i \in 1..Len(readyList') :
           pc'[readyList'[i]] = "ready" /\ ~listed'[readyList'[i]]
    BY <2>1, <1>3, <1>4
  <2>3. ASSUME NEW i \in 1..Len(readyList'), NEW j \in 1..Len(readyList'), i # j
        PROVE  readyList'[i] # readyList'[j]
    <3>1. i + 1 \in 1..Len(readyList) /\ j + 1 \in 1..Len(readyList) /\ i + 1 # j + 1
      BY <2>1, <2>3
    <3>2. readyList[i + 1] # readyList[j + 1]
      BY <3>1 DEF IInv, PoolInv
    <3> QED
      BY <3>2, <2>1
  <2>4. \A u \in Contexts : /\ isDone'[u] => \/ pc'[u] = "exit"
                                             \/ pc'[u] = "ready" /\ listed'[u]
                            /\ pc'[u] = "none" => ~listed'[u]
    BY <1>3, <1>4, <1>5 DEF IInv, PoolInv
  <2> QED
    BY <2>2, <2>3, <2>4 DEF PoolInv
<1> QED
  BY <1>7, <1>8, <1>9 DEF ControlInv

\* Every action preserves the rest of the invariant.
LEMMA ControlStep == IInv /\ [Next]_vars => ControlInv'
<1> SUFFICES ASSUME IInv, [Next]_vars PROVE ControlInv'
  OBVIOUS
<1> USE DEF otherVars, opVars, workVars, poolVars, preVars
<1>1. CASE UNCHANGED vars
  BY <1>1, NothingMoves DEF vars
<1>2. ASSUME NEW c \in Callers, Begin(c) \/ BeginWhole(c) PROVE ControlInv'
  <2>1. PICK v \in {"tiles", "primary"} : pc' = [pc EXCEPT ![c] = v]
    BY <1>2 DEF Begin, BeginWhole
  <2>2. pc[c] = "idle" /\ UNCHANGED otherVars
    BY <1>2 DEF Begin, BeginWhole, NewOperation
  <2>3. contextList[c] = {} /\ opLock[c] # c
    BY <2>2, NoWorkers DEF IInv, LockInv, InTilePCs
  <2> QED
    BY <2>1, <2>2, <2>3, CallerMoves DEF CallerPCs
<1>3. ASSUME NEW c \in Callers, NoMoreTiles(c) PROVE ControlInv'
  <2>1. pc[c] = "tiles" /\ pc' = [pc EXCEPT ![c] = "relock"] /\ UNCHANGED otherVars
    BY <1>3 DEF NoMoreTiles
  <2>2. contextList[c] = {} /\ opLock[c] # c
    BY <2>1, NoWorkers DEF IInv, LockInv, InTilePCs
  <2> QED
    BY <2>1, <2>2, CallerMoves DEF CallerPCs
<1>4. ASSUME NEW c \in Callers, SkipTile(c) PROVE ControlInv'
  BY <1>4, NothingMoves DEF SkipTile
<1>5. ASSUME NEW c \in Callers, ClippedAway(c) \/ NextTile(c) PROVE ControlInv'
  BY <1>5, TileStep
<1>6. ASSUME NEW c \in Callers, TooThin(c) PROVE ControlInv'
  <2>1. /\ pc[c] = "split" /\ opLock[c] = NoThread /\ UNCHANGED otherVars
        /\ pc' = [pc EXCEPT ![c] = "primary"]
    BY <1>6 DEF TooThin, Free
  <2>2. opLock[c] # c
    BY <2>1, SchedulerAssumption
  <2> QED
    BY <2>1, <2>2, CallerMoves DEF CallerPCs, InTilePCs
<1>7. ASSUME NEW c \in Callers, PrimaryEmpty(c) \/ PrimaryCompute(c) PROVE ControlInv'
  <2>1. PICK v \in {"join", "func"} : pc' = [pc EXCEPT ![c] = v]
    BY <1>7 DEF PrimaryEmpty, PrimaryCompute, StartCompute
  <2>2. pc[c] = "primary"
    BY <1>7 DEF PrimaryEmpty, PrimaryCompute
  <2>3. operation' = operation
    <3>1. operation \in [Threads -> Callers \cup {NoThread}] /\ operation[c] = c
      BY DEF IInv, TypeOK, RolesInv
    <3> QED
      BY <1>7, <3>1 DEF PrimaryEmpty, PrimaryCompute, StartCompute
  <2>4. UNCHANGED otherVars
    BY <1>7, <2>3 DEF PrimaryEmpty, PrimaryCompute
  <2>5. opLock[c] # c
    BY <2>2 DEF IInv, LockInv
  <2> QED
    BY <2>1, <2>2, <2>4, <2>5, CallerMoves DEF CallerPCs, InTilePCs
<1>8. ASSUME NEW c \in Callers, NothingToJoin(c) \/ Joined(c) PROVE ControlInv'
  <2>1. PICK v \in {"tiles", "relock"} : pc' = [pc EXCEPT ![c] = v]
    BY <1>8 DEF NothingToJoin, Joined
  <2>2. pc[c] = "join" /\ (complete[c] \/ ~started[c]) /\ UNCHANGED otherVars
    BY <1>8 DEF NothingToJoin, Joined
  <2>3. contextList[c] = {} /\ opLock[c] # c
    BY <2>2 DEF IInv, CompleteInv, LockInv
  <2> QED
    BY <2>1, <2>2, <2>3, CallerMoves DEF CallerPCs
<1>9. ASSUME NEW c \in Callers, WaitComplete(c) PROVE ControlInv'
  BY <1>9, NothingMoves DEF WaitComplete
<1>10. ASSUME NEW c \in Callers, Relock(c) PROVE ControlInv'
  <2>1. pc[c] = "relock" /\ pc' = [pc EXCEPT ![c] = "return"] /\ UNCHANGED otherVars
    BY <1>10 DEF Relock
  <2>2. contextList[c] = {} /\ opLock[c] # c
    BY <2>1, NoWorkers DEF IInv, LockInv, InTilePCs
  <2> QED
    BY <2>1, <2>2, CallerMoves DEF CallerPCs
<1>11. ASSUME NEW t \in Threads, SelectFunction(t) \/ NoFunctionLeft(t) PROVE ControlInv'
  <2>1. /\ pc[t] = "func" /\ UNCHANGED otherVars
        /\ \E v \in {"run", "finish"} : pc' = [pc EXCEPT ![t] = v]
    BY <1>11 DEF SelectFunction, NoFunctionLeft
  <2> QED
    BY <2>1, ComputeMoves
<1>12. ASSUME NEW t \in Threads, ComputeSucceeds(t) \/ ComputeFails(t) \/ ResetFails(t)
       PROVE  ControlInv'
  <2>1. /\ pc[t] = "run" /\ UNCHANGED otherVars
        /\ \E v \in {"func", "finish"} : pc' = [pc EXCEPT ![t] = v]
    BY <1>12 DEF ComputeSucceeds, ComputeFails, ResetFails
  <2> QED
    BY <2>1, ComputeMoves
<1>13. ASSUME NEW t \in Threads, CheckFuncData(t) PROVE ControlInv'
  <2>1. /\ pc[t] = "func" /\ opLock[operation[t]] = NoThread
        /\ UNCHANGED <<newContext, started, complete, contextList, operation, listed,
                       isDone, readyList>>
    BY <1>13 DEF CheckFuncData, LockedCheck, Free, Op
  <2>2. CASE UNCHANGED <<opLock, pc>>
    BY <2>1, <2>2, NothingMoves
  <2>3. CASE opLock' = opLock /\ pc' = [pc EXCEPT ![t] = "run"]
    BY <2>1, <2>3, ComputeMoves
  <2>4. CASE opLock' = [opLock EXCEPT ![operation[t]] = t] /\ pc' = [pc EXCEPT ![t] = "pre"]
    BY <2>1, <2>4, PreprocessStep
  <2> QED
    BY <1>13, <2>2, <2>3, <2>4 DEF CheckFuncData, Op
<1>14. ASSUME NEW t \in Threads, CallPreprocess(t) PROVE ControlInv'
  <2>1. PICK v \in {"run", "func"} : pc' = [pc EXCEPT ![t] = v]
    BY <1>14 DEF CallPreprocess
  <2>2. /\ pc[t] = "pre" /\ opLock' = [opLock EXCEPT ![operation[t]] = NoThread]
        /\ UNCHANGED <<newContext, started, complete, contextList, operation, listed,
                       isDone, readyList>>
    BY <1>14 DEF CallPreprocess, Op
  <2> QED
    BY <2>1, <2>2, PreprocessStep
<1>15. ASSUME NEW t \in Threads, SpuriousWakeup(t) PROVE ControlInv'
  BY <1>15, NothingMoves DEF SpuriousWakeup
<1>16. ASSUME NEW w \in Contexts, WakeUp(w) PROVE ControlInv'
  <2>1. pc[w] = "ready" /\ UNCHANGED <<opLock, newContext, started, complete, contextList,
                                       listed, isDone, readyList>>
    BY <1>16 DEF WakeUp
  <2>2. CASE UNCHANGED <<pc, workVars>>
    BY <2>1, <2>2, NothingMoves
  <2>3. CASE listed[w] /\ isDone[w] /\ pc' = [pc EXCEPT ![w] = "exit"] /\ UNCHANGED workVars
    BY <2>1, <2>3, WorkerMoves DEF ContextPCs
  <2>4. CASE listed[w] /\ ~isDone[w] /\ StartCompute(w, Op(w), rows[w])
    <3>1. operation' = operation
      BY <2>4 DEF StartCompute, Op, IInv, TypeOK
    <3>2. pc' = [pc EXCEPT ![w] = "func"]
      BY <2>4 DEF StartCompute
    <3> QED
      BY <2>1, <2>4, <3>1, <3>2, WorkerMoves DEF ContextPCs, ComputePCs
  <2> QED
    BY <1>16, <2>2, <2>3, <2>4 DEF WakeUp
<1>17. CASE BeginClose \/ JoinContext \/ EndClose
  BY <1>17, NothingMoves DEF BeginClose, JoinContext, EndClose
<1>18. CASE Closed
  BY <1>18, NothingMoves DEF Closed, vars
<1> HIDE DEF otherVars, opVars, workVars, poolVars, preVars
<1> QED
  BY <1>1, <1>2, <1>3, <1>4, <1>5, <1>6, <1>7, <1>8, <1>9, <1>10, <1>11, <1>12,
     <1>13, <1>14, <1>15, <1>16, <1>17, <1>18, LockForSplitStep, EmptyStripStep,
     CreateThreadStep, AppendContextStep, WakeContextStep, SplitFailsStep,
     SplitDoneStep, ReturnStep, FinishStep, RetireStep, DismissStep
  DEF Next, Execute, StartThreads, Compute, Worker, Close

-----------------------------------------------------------------------------
\* The invariant holds before the first call.
LEMMA InvariantInit == Init => IInv
<1> SUFFICES ASSUME Init PROVE IInv
  OBVIOUS
<1> USE SchedulerAssumption DEF Init, Threads
<1>1. TypeOK
  BY TypeInit
<1>2. \A w \in Contexts : ~Attached(w)
  BY DEF Attached, ComputePCs
<1>3. RolesInv /\ LockInv
  BY <1>2 DEF RolesInv, LockInv, CallerPCs, ContextPCs
<1>4. ListInv /\ NewContextInv
  BY <1>2 DEF ListInv, NewContextInv
<1>5. CompleteInv /\ PoolInv
  BY DEF CompleteInv, PoolInv
<1> QED
  BY <1>1, <1>3, <1>4, <1>5 DEF IInv

\* IInv is an inductive invariant of the scheduler.
THEOREM InvariantHolds == Spec => []IInv
<1>1. IInv /\ [Next]_vars => IInv'
  BY TypeStep, ControlStep DEF IInv, ControlInv
<1> QED
  BY InvariantInit, <1>1, PTL DEF Spec

\* Every variable of the scheduler has its type in every reachable state.
THEOREM TypeCorrect == Spec => []TypeOK
BY InvariantHolds, PTL DEF IInv

\* The XiliOperation that execute() keeps on its caller's stack is not left
\* by its caller while a worker thread still uses it.
THEOREM OperationSafe == Spec => []OperationOutlivesWorkers
<1>1. IInv => OperationOutlivesWorkers
  <2> SUFFICES ASSUME IInv, NEW c \in Callers, Users(c) # {} PROVE pc[c] \in InTilePCs
    BY DEF OperationOutlivesWorkers
  <2>1. PICK w \in Contexts : Attached(w) /\ operation[w] = c
    BY DEF Users
  <2> QED
    BY <2>1 DEF IInv, ListInv
<1> QED
  BY InvariantHolds, <1>1, PTL

\* The ready list never names a context that is at work, has been given work
\* or has been dismissed, and never names a context twice.
THEOREM ReadyContextsIdle == Spec => []PoolInv
BY InvariantHolds, PTL DEF IInv

-----------------------------------------------------------------------------
(***************************************************************************)
(* Nothing in OpScheduler is given away twice or lost, for any number of   *)
(* callers, contexts, processors and rows.                                 *)
(*                                                                         *)
(* Rows: no two threads compute the same row, no row is computed again,    *)
(* and a tile that is left with success has been computed as a whole.      *)
(* startThreads() has given away the rows below a bound, to threads or as  *)
(* empty; every one of them is with a thread, computed or empty, and with  *)
(* one of these only.  A thread that gives up its rows without having      *)
(* computed them makes the operation fail.                                 *)
(*                                                                         *)
(* Contexts: PoolInv says that the ready list names idle contexts only,    *)
(* and none twice; what is added here is that no idle context is missing,  *)
(* through every place that takes one off the list and may not need it     *)
(* after all.                                                              *)
(*                                                                         *)
(* Preprocess routines: the one of a function is called once.  The         *)
(* operation's lock is released and taken again between the look at the    *)
(* result and the call in checkFuncData(); that a thread which calls the   *)
(* routine still holds it, and has found no result, is the invariant.      *)
(***************************************************************************)

SplitPCs == {"split", "append", "primary"}

\* The rows below Upto(c) have been given away: while a new context is not on
\* the list yet the loop has not advanced, and the caller takes the rest.
Upto(c) == IF pc[c] = "append" THEN next[c] + StripSize(c)
           ELSE IF pc[c] \in SplitPCs THEN next[c] ELSE y2[c] + 1

WorksFor(t, c) == Working(t) /\ operation[t] = c

RowsIn(c) ==
    /\ y2[c] \in Int /\ y2[c] + 1 \in Nat /\ next[c] \in Nat
    /\ pc[c] \in SplitPCs => Upto(c) \in 0..(y2[c] + 1)
    /\ pc[c] = "idle" => next[c] = 0 /\ y2[c] + 1 = 0
    /\ done[c] \cup void[c] \subseteq 0..(Upto(c) - 1)
    /\ \A t \in Threads : WorksFor(t, c) => rows[t] \subseteq 0..(Upto(c) - 1)

RowsApart(c) ==
    \A t \in Threads : WorksFor(t, c) =>
        /\ rows[t] \cap done[c] = {}
        /\ \A u \in Threads \ {t} : WorksFor(u, c) => rows[t] \cap rows[u] = {}

NoReset == "reset" \notin Failures

\* No row is lost unless the operation has failed.
RowsKept(c) ==
    status[c] => \A r \in 0..(Upto(c) - 1) :
        \/ r \in done[c] \cup void[c]
        \/ \E t \in Threads : WorksFor(t, c) /\ r \in rows[t]

RowsInv(c) == RowsIn(c) /\ RowsApart(c) /\ (NoReset => RowsKept(c))

\* A thread that reports success has computed its rows.
SuccessInv ==
    NoReset => \A t \in Threads : pc[t] \in ComputePCs /\ ctxStatus[t] => rows[t] = {}

-----------------------------------------------------------------------------
\* What happens to the rows of one operation, whatever the step is.

\* Nothing.
LEMMA Kept ==
  ASSUME NEW c \in Callers, RowsInv(c),
         y2'[c] = y2[c], next'[c] \in Nat, Upto(c)' = Upto(c),
         pc'[c] \in SplitPCs => pc[c] \in SplitPCs,
         pc'[c] = "idle" => pc[c] = "idle" /\ next'[c] = next[c],
         done'[c] = done[c], void'[c] = void[c], status'[c] => status[c],
         \A t \in Threads : /\ WorksFor(t, c)' <=> WorksFor(t, c)
                            /\ WorksFor(t, c) => rows'[t] = rows[t]
  PROVE  RowsInv(c)'
<1>1. RowsIn(c)'
  BY DEF RowsInv, RowsIn
<1>2. RowsApart(c)'
  BY DEF RowsInv, RowsApart
<1>3. NoReset => RowsKept(c)'
  BY DEF RowsInv, RowsKept
<1> QED
  BY <1>1, <1>2, <1>3 DEF RowsInv, NoReset

\* A new tile, or none: no rows have been given away.
LEMMA Started ==
  ASSUME NEW c \in Callers,
         y2'[c] \in Int, y2'[c] + 1 \in Nat, next'[c] \in Nat, Upto(c)' = 0,
         pc'[c] = "idle" => next'[c] = 0 /\ y2'[c] + 1 = 0,
         done'[c] = {}, void'[c] = {}, \A t \in Threads : ~WorksFor(t, c)'
  PROVE  RowsInv(c)'
<1>1. RowsIn(c)'
  BY DEF RowsIn
<1>2. RowsApart(c)'
  BY DEF RowsApart
<1>3. RowsKept(c)'
  BY DEF RowsKept
<1> QED
  BY <1>1, <1>2, <1>3 DEF RowsInv, NoReset

\* More rows are given to a thread that has not worked for the operation.
LEMMA GivenToThread ==
  ASSUME NEW c \in Callers, NEW w \in Threads, RowsInv(c), ~WorksFor(w, c),
         Upto(c) \in Nat, Upto(c)' \in Upto(c)..(y2[c] + 1),
         y2'[c] = y2[c], next'[c] \in Nat, pc'[c] # "idle",
         rows'[w] = Upto(c)..(Upto(c)' - 1), WorksFor(w, c)',
         done'[c] = done[c], void'[c] = void[c], status'[c] => status[c],
         \A t \in Threads \ {w} : /\ WorksFor(t, c)' <=> WorksFor(t, c)
                                  /\ WorksFor(t, c) => rows'[t] = rows[t]
  PROVE  RowsInv(c)'
<1> DEFINE m == Upto(c)
           n == Upto(c)'
<1>1. /\ m \in Nat /\ n \in Nat /\ m <= n /\ n <= y2[c] + 1
      /\ y2[c] \in Int /\ y2[c] + 1 \in Nat
  BY DEF RowsInv, RowsIn
<1>2. /\ done[c] \cup void[c] \subseteq 0..(m - 1)
      /\ \A t \in Threads : WorksFor(t, c) => rows[t] \subseteq 0..(m - 1)
  BY DEF RowsInv, RowsIn
<1>3. rows'[w] = m..(n - 1)
  OBVIOUS
<1>4. RowsIn(c)'
  <2> HIDE DEF m, n
  <2>1. 0..(m - 1) \subseteq 0..(n - 1) /\ m..(n - 1) \subseteq 0..(n - 1) /\ n \in 0..(y2[c] + 1)
    BY <1>1
  <2>2. /\ (done[c] \cup void[c])' \subseteq 0..(n - 1)
        /\ \A t \in Threads : WorksFor(t, c)' => rows'[t] \subseteq 0..(n - 1)
    BY <1>2, <1>3, <2>1
  <2> QED
    BY <1>1, <2>1, <2>2 DEF RowsIn, n
<1>5. RowsApart(c)'
  <2> HIDE DEF m, n
  <2>1. 0..(m - 1) \cap m..(n - 1) = {}
    BY <1>1
  <2>2. /\ rows'[w] \cap done'[c] = {}
        /\ \A u \in Threads \ {w} : WorksFor(u, c)' => rows'[w] \cap rows'[u] = {}
    BY <1>2, <1>3, <2>1
  <2>3. ASSUME NEW t \in Threads \ {w}, WorksFor(t, c)'
        PROVE  /\ rows'[t] \cap done'[c] = {}
               /\ \A u \in Threads \ {t} : WorksFor(u, c)' => rows'[t] \cap rows'[u] = {}
    BY <2>2, <2>3 DEF RowsInv, RowsApart
  <2> QED
    BY <2>2, <2>3 DEF RowsApart
<1>6. ASSUME NoReset PROVE RowsKept(c)'
  <2> SUFFICES ASSUME status[c], NEW r \in 0..(n - 1)
               PROVE  \/ r \in (done[c] \cup void[c])'
                      \/ \E t \in Threads : WorksFor(t, c)' /\ r \in rows'[t]
    BY DEF RowsKept
  <2>1. CASE r \in m..(n - 1)
    BY <2>1, <1>3
  <2>2. CASE r \in 0..(m - 1)
    BY <2>2, <1>6 DEF RowsInv, RowsKept
  <2> QED
    BY <1>1, <2>1, <2>2
<1> QED
  BY <1>4, <1>5, <1>6 DEF RowsInv, NoReset

\* Nothing has to be computed of more rows.
LEMMA FoundEmpty ==
  ASSUME NEW c \in Callers, RowsInv(c),
         Upto(c) \in Nat, Upto(c)' \in Upto(c)..(y2[c] + 1),
         y2'[c] = y2[c], next'[c] \in Nat, pc'[c] # "idle",
         void'[c] = void[c] \cup Upto(c)..(Upto(c)' - 1),
         done'[c] = done[c], status'[c] => status[c],
         \A t \in Threads : /\ WorksFor(t, c)' <=> WorksFor(t, c)
                            /\ WorksFor(t, c) => rows'[t] = rows[t]
  PROVE  RowsInv(c)'
<1> DEFINE m == Upto(c)
           n == Upto(c)'
<1>1. /\ m \in Nat /\ n \in Nat /\ m <= n /\ n <= y2[c] + 1
      /\ y2[c] \in Int /\ y2[c] + 1 \in Nat
  BY DEF RowsInv, RowsIn
<1>2. /\ done[c] \cup void[c] \subseteq 0..(m - 1)
      /\ \A t \in Threads : WorksFor(t, c) => rows[t] \subseteq 0..(m - 1)
  BY DEF RowsInv, RowsIn
<1>3. void'[c] = void[c] \cup m..(n - 1)
  OBVIOUS
<1>4. RowsIn(c)'
  <2> HIDE DEF m, n
  <2>1. 0..(m - 1) \subseteq 0..(n - 1) /\ m..(n - 1) \subseteq 0..(n - 1) /\ n \in 0..(y2[c] + 1)
    BY <1>1
  <2>2. /\ (done[c] \cup void[c])' \subseteq 0..(n - 1)
        /\ \A t \in Threads : WorksFor(t, c)' => rows'[t] \subseteq 0..(n - 1)
    BY <1>2, <1>3, <2>1
  <2> QED
    BY <1>1, <2>1, <2>2 DEF RowsIn, n
<1>5. RowsApart(c)'
  BY DEF RowsInv, RowsApart
<1>6. ASSUME NoReset PROVE RowsKept(c)'
  <2> SUFFICES ASSUME status[c], NEW r \in 0..(n - 1)
               PROVE  \/ r \in (done[c] \cup void[c])'
                      \/ \E t \in Threads : WorksFor(t, c)' /\ r \in rows'[t]
    BY DEF RowsKept
  <2>1. CASE r \in m..(n - 1)
    BY <2>1, <1>3
  <2>2. CASE r \in 0..(m - 1)
    BY <2>2, <1>6 DEF RowsInv, RowsKept
  <2> QED
    BY <1>1, <2>1, <2>2
<1> QED
  BY <1>4, <1>5, <1>6 DEF RowsInv, NoReset

\* A thread writes its rows.
LEMMA RowsWritten ==
  ASSUME NEW c \in Callers, NEW t \in Threads, RowsInv(c), WorksFor(t, c),
         y2'[c] = y2[c], next'[c] = next[c], Upto(c)' = Upto(c),
         pc'[c] \in SplitPCs => pc[c] \in SplitPCs, pc'[c] # "idle",
         done'[c] = done[c] \cup rows[t], rows'[t] = {},
         void'[c] = void[c], status'[c] => status[c],
         \A u \in Threads : /\ WorksFor(u, c)' <=> WorksFor(u, c)
                            /\ u # t => rows'[u] = rows[u]
  PROVE  RowsInv(c)'
<1>1. RowsIn(c)'
  BY DEF RowsInv, RowsIn
<1>2. RowsApart(c)'
  BY DEF RowsInv, RowsApart
<1>3. NoReset => RowsKept(c)'
  BY DEF RowsInv, RowsKept
<1> QED
  BY <1>1, <1>2, <1>3 DEF RowsInv, NoReset

\* A thread leaves: its rows are computed or the operation fails.
LEMMA ThreadLeaves ==
  ASSUME NEW c \in Callers, NEW t \in Threads, RowsInv(c),
         y2'[c] = y2[c], next'[c] = next[c], Upto(c)' = Upto(c),
         pc'[c] \in SplitPCs => pc[c] \in SplitPCs, pc'[c] # "idle",
         done'[c] = done[c], void'[c] = void[c],
         status'[c] => status[c] /\ (NoReset => rows[t] = {}),
         ~WorksFor(t, c)',
         \A u \in Threads \ {t} : /\ WorksFor(u, c)' <=> WorksFor(u, c)
                                  /\ rows'[u] = rows[u]
  PROVE  RowsInv(c)'
<1>1. RowsIn(c)'
  BY DEF RowsInv, RowsIn
<1>2. RowsApart(c)'
  BY DEF RowsInv, RowsApart
<1>3. NoReset => RowsKept(c)'
  BY DEF RowsInv, RowsKept
<1> QED
  BY <1>1, <1>2, <1>3 DEF RowsInv, NoReset

-----------------------------------------------------------------------------
\* The arithmetic of startThreads(): a strip lies above the last row.
LEMMA Quotient == ASSUME NEW h \in Nat, NEW n \in Nat \ {0} PROVE h \div n \in Nat
  OBVIOUS

LEMMA StripFits ==
  ASSUME NEW c \in Callers, RowsInv(c)
  PROVE  /\ StripSize(c) \in Nat
         /\ next[c] < StopY(c) => /\ next[c] + StripSize(c) \in next[c]..(y2[c] + 1)
                                  /\ Strip(c) = next[c]..(next[c] + StripSize(c) - 1)
<1> DEFINE h == y2[c] + 1
<1>1. h \in Nat /\ next[c] \in Nat /\ y2[c] = h - 1 /\ y2[c] \in Int
  BY DEF RowsInv, RowsIn
<1> HIDE DEF h
<1>2. h \div NumCPUs \in Nat
  <2>1. NumCPUs \in Nat \ {0}
    BY SchedulerAssumption
  <2> QED
    BY <1>1, <2>1, Quotient
<1>3. StripSize(c) \in Nat
  BY <1>2 DEF StripSize, h
<1> QED
  BY <1>1, <1>3 DEF StopY, Strip

\* The types the steps below need.
LEMMA Types ==
  ASSUME IInv
  PROVE  /\ pc \in [Threads -> CallerPCs \cup ContextPCs]
         /\ y2 \in [Callers -> Int] /\ next \in [Callers -> Int]
         /\ status \in [Callers -> BOOLEAN]
         /\ operation \in [Threads -> Callers \cup {NoThread}]
         /\ rows \in [Threads -> SUBSET Int]
         /\ ctxStatus \in [Threads -> BOOLEAN]
         /\ listed \in [Contexts -> BOOLEAN] /\ isDone \in [Contexts -> BOOLEAN]
         /\ done \in [Callers -> SUBSET Int] /\ void \in [Callers -> SUBSET Int]
         /\ \A c \in Callers : c \in Threads /\ c \notin Contexts /\ operation[c] = c
         /\ \A w \in Contexts : w \in Threads /\ w \notin Callers
BY SchedulerAssumption DEF IInv, TypeOK, RolesInv, Threads

\* Working is a matter of where a thread is.
LEMMA WorkingIs ==
  ASSUME IInv
  PROVE  /\ \A c, d \in Callers : WorksFor(c, d) <=> c = d /\ pc[c] \in ComputePCs
         /\ \A w \in Contexts, d \in Callers :
               WorksFor(w, d) <=> Attached(w) /\ operation[w] = d
BY Types DEF WorksFor, Working

AllRows == \A c \in Callers : RowsInv(c)

\* A caller goes on, and nothing else.
LEMMA CallerGoesOn ==
  ASSUME IInv, AllRows, NEW c \in Callers, NEW v, v \notin ComputePCs,
         pc[c] \notin ComputePCs, pc' = [pc EXCEPT ![c] = v],
         Upto(c)' = Upto(c), v \in SplitPCs => pc[c] \in SplitPCs, v # "idle",
         UNCHANGED <<y2, next, operation, rows, listed, isDone, done, void, status>>
  PROVE  AllRows'
<1> SUFFICES ASSUME NEW d \in Callers PROVE RowsInv(d)'
  BY DEF AllRows
<1>1. /\ pc'[c] = v /\ \A t \in Threads \ {c} : pc'[t] = pc[t]
      /\ pc'[d] = IF d = c THEN v ELSE pc[d]
  BY Types
<1>2. \A t \in Threads : WorksFor(t, d)' <=> WorksFor(t, d)
  BY <1>1, Types DEF WorksFor, Working, Attached
<1>3. Upto(d)' = Upto(d)
  BY <1>1 DEF Upto, StripSize
<1>4. next[d] \in Nat /\ RowsInv(d)
  BY DEF AllRows, RowsInv, RowsIn
<1> QED
  BY <1>1, <1>2, <1>3, <1>4, Kept

\* Nothing happens to the operations of other callers.
LEMMA OtherCaller ==
  ASSUME AllRows, NEW c \in Callers, NEW d \in Callers, d # c,
         pc'[d] = pc[d], y2'[d] = y2[d], next'[d] = next[d], done'[d] = done[d],
         void'[d] = void[d], status'[d] = status[d],
         \A t \in Threads : /\ WorksFor(t, d)' <=> WorksFor(t, d)
                            /\ WorksFor(t, d) => rows'[t] = rows[t]
  PROVE  RowsInv(d)'
<1>1. RowsInv(d) /\ next[d] \in Nat
  BY DEF AllRows, RowsInv, RowsIn
<1>2. Upto(d)' = Upto(d)
  BY DEF Upto, StripSize
<1> QED
  BY <1>1, <1>2, Kept

\* The calls and tiles of execute().
LEMMA TileRows ==
  ASSUME IInv, AllRows, NEW c \in Callers,
         \/ Begin(c) \/ BeginWhole(c) \/ NoMoreTiles(c) \/ SkipTile(c)
         \/ ClippedAway(c) \/ NextTile(c) \/ Relock(c) \/ Return(c)
  PROVE  AllRows'
<1> USE DEF opVars, workVars, poolVars, preVars
<1>0. \A w \in Contexts : Attached(w) => pc[operation[w]] \in InTilePCs
  BY DEF IInv, ListInv
<1>1. CASE Begin(c) \/ NoMoreTiles(c) \/ Relock(c)
  <2>1. \E v \in {"tiles", "relock", "return"} : pc' = [pc EXCEPT ![c] = v]
    BY <1>1 DEF Begin, NoMoreTiles, Relock
  <2>2. /\ pc[c] \in {"idle", "tiles", "relock"}
        /\ UNCHANGED <<y2, next, operation, rows, listed, isDone, done, void, status>>
    BY <1>1 DEF Begin, NewOperation, NoMoreTiles, Relock
  <2>3. Upto(c)' = Upto(c)
    BY <2>1, <2>2, Types DEF Upto, SplitPCs
  <2> QED
    BY <2>1, <2>2, <2>3, CallerGoesOn DEF ComputePCs, SplitPCs
<1>2. CASE \/ BeginWhole(c) \/ SkipTile(c) \/ ClippedAway(c) \/ NextTile(c) \/ Return(c)
  <2>1. /\ pc[c] \in {"idle", "tiles", "return"}
        /\ UNCHANGED <<operation, rows, listed, isDone>>
        /\ \A d \in Callers \ {c} : /\ y2'[d] = y2[d] /\ next'[d] = next[d]
                                    /\ status'[d] = status[d]
                                    /\ done'[d] = done[d] /\ void'[d] = void[d]
    BY <1>2, Types DEF BeginWhole, NewOperation, SkipTile, ClippedAway, NextTile, Return
  <2>2. PICK v \in {"primary", "tiles", "split", "idle"} :
           /\ pc'[c] = v /\ \A t \in Threads \ {c} : pc'[t] = pc[t]
    <3>1. pc' = pc \/ \E v \in {"primary", "tiles", "split", "idle"} : pc' = [pc EXCEPT ![c] = v]
      BY <1>2 DEF BeginWhole, SkipTile, ClippedAway, NextTile, Return
    <3>2. pc' = pc => pc[c] = "tiles"
      BY <1>2, Types DEF BeginWhole, NewOperation, SkipTile, ClippedAway, NextTile, Return
    <3> QED
      BY <3>1, <3>2, Types
  <2>3. \A t \in Threads, d \in Callers : WorksFor(t, d)' <=> WorksFor(t, d)
    BY <2>1, <2>2, Types DEF WorksFor, Working, Attached, ComputePCs
  <2>4. \A t \in Threads : ~WorksFor(t, c)'
    BY <1>0, <2>1, <2>3, Types DEF WorksFor, Working, ComputePCs, InTilePCs, Threads
  <2>5. RowsInv(c)
    BY DEF AllRows
  <2>6. /\ y2'[c] \in Int /\ y2'[c] + 1 \in Nat /\ next'[c] \in Nat /\ Upto(c)' = 0
        /\ pc'[c] = "idle" => next'[c] = 0 /\ y2'[c] + 1 = 0
        /\ done'[c] = {} /\ void'[c] = {}
    <3>1. CASE SkipTile(c) \/ ClippedAway(c) \/ Return(c)
      <4>1. y2'[c] = -1 /\ done'[c] = {} /\ void'[c] = {} /\ pc'[c] \in {"tiles", "idle"}
        BY <3>1, <2>2, Types DEF SkipTile, ClippedAway, Return
      <4>2. next'[c] = next[c] \/ next'[c] = 0
        BY <3>1, Types DEF SkipTile, ClippedAway, Return
      <4>3. pc'[c] = "idle" => next'[c] = 0
        BY <3>1, <2>1, Types DEF SkipTile, ClippedAway, Return
      <4> QED
        BY <4>1, <4>2, <4>3, <2>5 DEF RowsInv, RowsIn, Upto, SplitPCs
    <3>2. CASE NextTile(c)
      <4>1. PICK h \in Heights : y2' = [y2 EXCEPT ![c] = h - 1]
        BY <3>2 DEF NextTile
      <4>2. h \in Nat \ {0} /\ y2'[c] = h - 1
        BY <4>1, SchedulerAssumption, Types
      <4>3. /\ next'[c] = 0 /\ done'[c] = {} /\ void'[c] = {}
            /\ pc'[c] \in {"split", "primary"}
        BY <3>2, Types DEF NextTile
      <4> QED
        BY <4>2, <4>3 DEF Upto, SplitPCs
    <3>3. CASE BeginWhole(c)
      <4>1. PICK h \in Heights : y2' = [y2 EXCEPT ![c] = h - 1]
        BY <3>3 DEF BeginWhole
      <4>2. h \in Nat \ {0} /\ y2'[c] = h - 1
        BY <4>1, SchedulerAssumption, Types
      <4>3. /\ pc[c] = "idle" /\ pc'[c] = "primary"
            /\ next'[c] = next[c] /\ done'[c] = done[c] /\ void'[c] = void[c]
        BY <3>3, Types DEF BeginWhole, NewOperation
      <4>4. next[c] = 0 /\ Upto(c) = 0
        BY <4>3, <2>5 DEF RowsInv, RowsIn, Upto, SplitPCs
      <4>5. done[c] = {} /\ void[c] = {}
        BY <4>4, <2>5 DEF RowsInv, RowsIn
      <4> QED
        BY <4>2, <4>3, <4>4, <4>5 DEF Upto, SplitPCs
    <3> QED
      BY <1>2, <3>1, <3>2, <3>3
  <2>7. RowsInv(c)'
    BY <2>4, <2>6, Started
  <2>8. \A d \in Callers \ {c} : RowsInv(d)'
    BY <2>1, <2>2, <2>3, Types, OtherCaller
  <2> QED
    BY <2>7, <2>8 DEF AllRows
<1> QED
  BY <1>1, <1>2

\* A step after which the same threads work on the same rows.
LEMMA NobodyMoves ==
  ASSUME AllRows, UNCHANGED <<y2, next, done, void, status>>,
         \A c \in Callers : \/ pc'[c] = pc[c]
                            \/ pc[c] \notin SplitPCs /\ pc'[c] \notin SplitPCs \cup {"idle"},
         \A t \in Threads, c \in Callers :
            /\ WorksFor(t, c)' <=> WorksFor(t, c)
            /\ WorksFor(t, c) => rows'[t] = rows[t]
  PROVE  AllRows'
<1> SUFFICES ASSUME NEW c \in Callers PROVE RowsInv(c)'
  BY DEF AllRows
<1>1. RowsInv(c) /\ next[c] \in Nat
  BY DEF AllRows, RowsInv, RowsIn
<1>2. Upto(c)' = Upto(c)
  BY DEF Upto, StripSize, SplitPCs
<1> QED
  BY <1>1, <1>2, Kept

\* startThreads() begins and ends.
LEMMA SplitBounds ==
  ASSUME IInv, AllRows, NEW c \in Callers, TooThin(c) \/ LockForSplit(c) \/ SplitDone(c)
  PROVE  AllRows'
<1> USE DEF opVars, workVars, poolVars, preVars
<1>1. CASE TooThin(c) \/ SplitDone(c)
  <2>1. /\ pc[c] = "split" /\ pc' = [pc EXCEPT ![c] = "primary"]
        /\ UNCHANGED <<y2, next, operation, rows, listed, isDone, done, void, status>>
    BY <1>1 DEF TooThin, SplitDone
  <2>2. Upto(c)' = Upto(c)
    BY <2>1, Types DEF Upto, SplitPCs
  <2> QED
    BY <2>1, <2>2, CallerGoesOn DEF ComputePCs, SplitPCs
<1>2. CASE LockForSplit(c)
  BY <1>2, NobodyMoves DEF LockForSplit, WorksFor, Working, Attached
<1> QED
  BY <1>1, <1>2

\* A strip with nothing to compute.
LEMMA StripEmpty ==
  ASSUME IInv, AllRows, NEW c \in Callers, EmptyStrip(c)
  PROVE  AllRows'
<1> USE DEF opVars, workVars, poolVars, preVars
<1>1. /\ pc[c] = "split" /\ next[c] < StopY(c)
      /\ UNCHANGED <<pc, y2, operation, rows, listed, isDone, done, status>>
      /\ next' = [next EXCEPT ![c] = @ + StripSize(c)]
      /\ void' = [void EXCEPT ![c] = @ \cup Strip(c)]
  BY DEF EmptyStrip, Splitting
<1>2. \A t \in Threads, d \in Callers : WorksFor(t, d)' <=> WorksFor(t, d)
  BY <1>1 DEF WorksFor, Working, Attached
<1>3. RowsInv(c) /\ next[c] \in Nat
  BY DEF AllRows, RowsInv, RowsIn
<1>4. /\ StripSize(c) \in Nat /\ next[c] + StripSize(c) \in next[c]..(y2[c] + 1)
      /\ Strip(c) = next[c]..(next[c] + StripSize(c) - 1)
  BY <1>1, <1>3, StripFits
<1>5. Upto(c) = next[c] /\ Upto(c)' = next[c] + StripSize(c) /\ next'[c] = next[c] + StripSize(c)
  BY <1>1, Types DEF Upto, SplitPCs
<1>6. void'[c] = void[c] \cup Upto(c)..(Upto(c)' - 1)
  BY <1>1, <1>4, <1>5, Types
<1>7. RowsInv(c)'
  BY <1>1, <1>2, <1>3, <1>4, <1>5, <1>6, FoundEmpty
<1>8. \A d \in Callers \ {c} : RowsInv(d)'
  BY <1>1, <1>2, Types, OtherCaller
<1> QED
  BY <1>7, <1>8 DEF AllRows

\* A strip is given to a new thread.
LEMMA StripToNew ==
  ASSUME IInv, AllRows, NEW c \in Callers, CreateThread(c)
  PROVE  AllRows'
<1> USE DEF opVars, workVars, poolVars, preVars
<1>1. /\ pc[c] = "split" /\ next[c] < StopY(c)
      /\ UNCHANGED <<y2, next, listed, isDone, done, void, status>>
  BY DEF CreateThread, Splitting
<1>2. PICK w \in Contexts : CreateThread(c)!2!(w)
  BY DEF CreateThread
<1>3. /\ pc[w] = "none" /\ pc'[w] = "func" /\ pc'[c] = "append"
      /\ \A t \in Threads \ {w, c} : pc'[t] = pc[t]
      /\ operation'[w] = c /\ rows'[w] = Strip(c)
      /\ \A t \in Threads \ {w} : operation'[t] = operation[t] /\ rows'[t] = rows[t]
  BY <1>2, Types
<1>4. \A t \in Threads \ {w}, d \in Callers : WorksFor(t, d)' <=> WorksFor(t, d)
  BY <1>1, <1>3, Types DEF WorksFor, Working, Attached, ComputePCs
<1>5. /\ \A d \in Callers : ~WorksFor(w, d) /\ (WorksFor(w, d)' <=> d = c)
      /\ WorksFor(w, c)'
  BY <1>3, Types DEF WorksFor, Working, Attached, ComputePCs
<1>6. RowsInv(c) /\ next[c] \in Nat
  BY DEF AllRows, RowsInv, RowsIn
<1>7. /\ StripSize(c) \in Nat /\ next[c] + StripSize(c) \in next[c]..(y2[c] + 1)
      /\ Strip(c) = next[c]..(next[c] + StripSize(c) - 1)
  BY <1>1, <1>6, StripFits
<1>8. Upto(c) = next[c] /\ Upto(c)' = next[c] + StripSize(c)
  BY <1>1, <1>3 DEF Upto, SplitPCs, StripSize
<1>9. RowsInv(c)'
  <2>1. /\ Upto(c) \in Nat /\ Upto(c)' \in Upto(c)..(y2[c] + 1)
        /\ next'[c] \in Nat /\ rows'[w] = Upto(c)..(Upto(c)' - 1)
    BY <1>1, <1>3, <1>6, <1>7, <1>8
  <2>2. w \in Threads /\ pc'[c] # "idle"
    BY <1>1, <1>2, <1>3, Types
  <2>3. \A t \in Threads \ {w} : /\ WorksFor(t, c)' <=> WorksFor(t, c)
                                 /\ WorksFor(t, c) => rows'[t] = rows[t]
    BY <1>3, <1>4
  <2> QED
    BY <1>1, <1>5, <1>6, <2>1, <2>2, <2>3, GivenToThread
<1>10. \A d \in Callers \ {c} : RowsInv(d)'
  BY <1>1, <1>3, <1>4, <1>5, Types, OtherCaller
<1> QED
  BY <1>9, <1>10 DEF AllRows

\* The new context comes on the operation's list.
LEMMA NewContextListed ==
  ASSUME IInv, AllRows, NEW c \in Callers, AppendContext(c)
  PROVE  AllRows'
<1> USE DEF opVars, workVars, poolVars, preVars
<1> DEFINE w == newContext[c]
<1>1. /\ pc[c] = "append" /\ pc' = [pc EXCEPT ![c] = "split"]
      /\ listed' = [listed EXCEPT ![w] = TRUE]
      /\ next' = [next EXCEPT ![c] = @ + StripSize(c)]
      /\ UNCHANGED <<y2, operation, rows, isDone, done, void, status>>
  BY DEF AppendContext
<1>2. w \in Contexts /\ pc[w] \in ComputePCs
  BY <1>1 DEF IInv, NewContextInv
<1> HIDE DEF w
<1>3. \A t \in Threads : pc'[t] \in ComputePCs <=> pc[t] \in ComputePCs
  BY <1>1, Types DEF ComputePCs
<1>4. \A u \in Contexts : Attached(u)' <=> Attached(u)
  <2>1. \A u \in Contexts : pc'[u] = pc[u] /\ (u # w => listed'[u] = listed[u])
    BY <1>1, <1>2, Types
  <2> QED
    BY <1>1, <1>2, <2>1 DEF Attached
<1>5. \A t \in Threads, d \in Callers : WorksFor(t, d)' <=> WorksFor(t, d)
  BY <1>1, <1>3, <1>4, Types DEF WorksFor, Working, Attached
<1>6. RowsInv(c) /\ next[c] \in Nat /\ StripSize(c) \in Nat
  BY StripFits DEF AllRows, RowsInv, RowsIn
<1>7. Upto(c)' = Upto(c) /\ next'[c] \in Nat
  BY <1>1, <1>6, Types DEF Upto, SplitPCs
<1>8. RowsInv(c)'
  BY <1>1, <1>5, <1>6, <1>7, Types, Kept DEF SplitPCs
<1>9. \A d \in Callers \ {c} : RowsInv(d)'
  BY <1>1, <1>5, Types, OtherCaller
<1> QED
  BY <1>8, <1>9 DEF AllRows

\* A strip is given to a thread that waits.
LEMMA StripToReady ==
  ASSUME IInv, AllRows, NEW c \in Callers, WakeContext(c)
  PROVE  AllRows'
<1> USE DEF opVars, workVars, poolVars, preVars
<1>1. PICK w \in Contexts :
         /\ pc[w] = "ready" /\ ~listed[w] /\ ~isDone[w]
         /\ operation' = [operation EXCEPT ![w] = c]
         /\ rows' = [rows EXCEPT ![w] = Strip(c)]
         /\ listed' = [listed EXCEPT ![w] = TRUE]
  <2>1. readyList \in Seq(Contexts) /\ readyList # <<>>
    BY DEF IInv, TypeOK, WakeContext
  <2>2. 1 \in 1..Len(readyList) /\ Head(readyList) = readyList[1] /\ readyList[1] \in Contexts
    BY <2>1
  <2>3. /\ pc[readyList[1]] = "ready" /\ ~listed[readyList[1]] /\ ~isDone[readyList[1]]
    BY <2>2 DEF IInv, PoolInv
  <2> QED
    BY <2>2, <2>3 DEF WakeContext
<1>2. /\ pc[c] = "split" /\ next[c] < StopY(c)
      /\ next' = [next EXCEPT ![c] = @ + StripSize(c)]
      /\ UNCHANGED <<pc, y2, isDone, done, void, status>>
  BY DEF WakeContext, Splitting
<1>3. /\ operation'[w] = c /\ rows'[w] = Strip(c) /\ listed'[w]
      /\ \A t \in Threads \ {w} : operation'[t] = operation[t] /\ rows'[t] = rows[t]
      /\ \A u \in Contexts \ {w} : listed'[u] = listed[u]
  BY <1>1, <1>2, Types
<1>4. \A t \in Threads \ {w}, d \in Callers : WorksFor(t, d)' <=> WorksFor(t, d)
  BY <1>1, <1>2, <1>3, Types DEF WorksFor, Working, Attached
<1>5. /\ \A d \in Callers : ~WorksFor(w, d) /\ (WorksFor(w, d)' <=> d = c)
      /\ WorksFor(w, c)'
  <2>1. w \in Contexts /\ w \in Threads
    BY <1>2, Types
  <2>2. ~Attached(w) /\ Attached(w)'
    BY <1>1, <1>2, <1>3 DEF Attached, ComputePCs
  <2> QED
    BY <1>3, <2>1, <2>2 DEF WorksFor, Working
<1>6. RowsInv(c) /\ next[c] \in Nat
  BY DEF AllRows, RowsInv, RowsIn
<1>7. /\ StripSize(c) \in Nat /\ next[c] + StripSize(c) \in next[c]..(y2[c] + 1)
      /\ Strip(c) = next[c]..(next[c] + StripSize(c) - 1)
  BY <1>2, <1>6, StripFits
<1>8. /\ Upto(c) = next[c] /\ Upto(c)' = next[c] + StripSize(c)
      /\ next'[c] = next[c] + StripSize(c)
      /\ \A d \in Callers \ {c} : next'[d] = next[d]
  BY <1>2, Types DEF Upto, SplitPCs
<1>9. RowsInv(c)'
  <2>1. /\ Upto(c) \in Nat /\ Upto(c)' \in Upto(c)..(y2[c] + 1)
        /\ next'[c] \in Nat /\ rows'[w] = Upto(c)..(Upto(c)' - 1)
    BY <1>2, <1>3, <1>6, <1>7, <1>8
  <2>2. w \in Threads /\ pc'[c] # "idle"
    BY <1>1, <1>2, <1>3, Types
  <2>3. \A t \in Threads \ {w} : /\ WorksFor(t, c)' <=> WorksFor(t, c)
                                 /\ WorksFor(t, c) => rows'[t] = rows[t]
    BY <1>3, <1>4
  <2> QED
    BY <1>2, <1>5, <1>6, <2>1, <2>2, <2>3, GivenToThread
<1>10. ASSUME NEW d \in Callers \ {c} PROVE RowsInv(d)'
  <2>1. \A t \in Threads : /\ WorksFor(t, d)' <=> WorksFor(t, d)
                           /\ WorksFor(t, d) => rows'[t] = rows[t]
    BY <1>3, <1>4, <1>5
  <2> QED
    BY <1>2, <1>8, <2>1, OtherCaller
<1> QED
  BY <1>9, <1>10 DEF AllRows

\* The whole tile is given up: the operation has failed.
LEMMA GivenUp ==
  ASSUME NEW c \in Callers, RowsInv(c), pc[c] \in SplitPCs, Upto(c) = next[c],
         y2'[c] = y2[c], next'[c] = next[c], pc'[c] = "return", ~status'[c],
         done'[c] = done[c], void'[c] = void[c],
         \A t \in Threads : ~WorksFor(t, c)'
  PROVE  RowsInv(c)'
<1>1. /\ y2[c] \in Int /\ y2[c] + 1 \in Nat /\ next[c] \in 0..(y2[c] + 1)
      /\ done[c] \cup void[c] \subseteq 0..(next[c] - 1)
  BY DEF RowsInv, RowsIn
<1>2. pc'[c] \notin SplitPCs /\ Upto(c)' = y2[c] + 1
  BY DEF Upto, SplitPCs
<1>3. 0..(next[c] - 1) \subseteq 0..(y2[c] + 1 - 1)
  BY <1>1
<1>4. RowsIn(c)'
  BY <1>1, <1>2, <1>3 DEF RowsIn
<1>5. RowsApart(c)' /\ RowsKept(c)'
  BY DEF RowsApart, RowsKept
<1> QED
  BY <1>4, <1>5 DEF RowsInv, NoReset

\* The threads of the operation are killed.
LEMMA SplitGivenUp ==
  ASSUME IInv, AllRows, NEW c \in Callers, SplitFails(c)
  PROVE  AllRows'
<1> USE DEF opVars, workVars, poolVars, preVars
<1>1. /\ pc[c] = "split" /\ pc'[c] = "return" /\ ~status'[c]
      /\ \A d \in Callers \ {c} : status'[d] = status[d]
      /\ UNCHANGED <<y2, next, operation, rows, isDone, done, void>>
  BY Types DEF SplitFails, Splitting
<1>2. contextList[c] \subseteq Contexts
  BY DEF IInv, TypeOK
<1>3. /\ \A t \in Threads \ {c} : pc'[t] = IF t \in contextList[c] THEN "none" ELSE pc[t]
      /\ \A w \in Contexts : listed'[w] <=> listed[w] /\ w \notin contextList[c]
  BY <1>1 DEF SplitFails, Killed
<1>4. \A w \in Contexts : Attached(w)' <=> Attached(w) /\ w \notin contextList[c]
  BY <1>1, <1>3, Types DEF Attached, ComputePCs
<1>5. \A w \in Contexts : Attached(w) => (operation[w] = c <=> w \in contextList[c])
  BY <1>1 DEF IInv, ListInv
<1>6. \A d \in Callers \ {c} : pc'[d] = pc[d]
  BY <1>2, <1>3, Types
<1>7. \A t \in Threads : ~WorksFor(t, c)'
  <2>1. ASSUME NEW t \in Contexts PROVE ~WorksFor(t, c)'
    BY <1>1, <1>4, <1>5 DEF WorksFor, Working
  <2>2. ASSUME NEW t \in Callers PROVE ~WorksFor(t, c)'
    BY <1>1, Types DEF WorksFor, Working, ComputePCs
  <2> QED
    BY <2>1, <2>2 DEF Threads
<1>8. ASSUME NEW d \in Callers \ {c} PROVE \A t \in Threads : WorksFor(t, d)' <=> WorksFor(t, d)
  <2>1. ASSUME NEW t \in Contexts PROVE WorksFor(t, d)' <=> WorksFor(t, d)
    BY <1>1, <1>4, <1>5 DEF WorksFor, Working
  <2>2. ASSUME NEW t \in Callers PROVE WorksFor(t, d)' <=> WorksFor(t, d)
    BY <1>1, <1>6, Types DEF WorksFor, Working
  <2> QED
    BY <2>1, <2>2 DEF Threads
<1>9. RowsInv(c) /\ pc[c] \in SplitPCs /\ Upto(c) = next[c]
  BY <1>1 DEF AllRows, SplitPCs, Upto
<1>10. RowsInv(c)'
  BY <1>1, <1>7, <1>9, GivenUp
<1>11. \A d \in Callers \ {c} : RowsInv(d)'
  BY <1>1, <1>6, <1>8, OtherCaller
<1> QED
  BY <1>10, <1>11 DEF AllRows

\* The caller takes what is left of the tile.
LEMMA RestToCaller ==
  ASSUME IInv, AllRows, NEW c \in Callers, PrimaryEmpty(c) \/ PrimaryCompute(c)
  PROVE  AllRows'
<1> USE DEF opVars, workVars, poolVars, preVars
<1>1. /\ pc[c] = "primary"
      /\ UNCHANGED <<y2, next, listed, isDone, done, status>>
  BY DEF PrimaryEmpty, PrimaryCompute
<1>2. RowsInv(c) /\ next[c] \in Nat /\ y2[c] \in Int
  BY DEF AllRows, RowsInv, RowsIn
<1>3. Upto(c) = next[c] /\ Upto(c) \in 0..(y2[c] + 1)
  BY <1>1, <1>2 DEF Upto, SplitPCs, RowsInv, RowsIn
<1>4. PICK v \in {"join", "func"} : pc' = [pc EXCEPT ![c] = v]
  BY DEF PrimaryEmpty, PrimaryCompute, StartCompute
<1>5. /\ pc'[c] = v /\ \A t \in Threads \ {c} : pc'[t] = pc[t]
  BY <1>4, Types
<1>6. Upto(c)' = y2[c] + 1
  BY <1>1, <1>5 DEF Upto, SplitPCs
<1>7. Upto(c)' \in Upto(c)..(y2[c] + 1) /\ Upto(c)..(Upto(c)' - 1) = Remainder(c)
  BY <1>2, <1>3, <1>6 DEF Remainder
<1>8. CASE PrimaryEmpty(c)
  <2>1. /\ pc'[c] = "join" /\ UNCHANGED <<operation, rows>>
        /\ void' = [void EXCEPT ![c] = @ \cup Remainder(c)]
    BY <1>8, Types DEF PrimaryEmpty
  <2>2. \A t \in Threads, d \in Callers : WorksFor(t, d)' <=> WorksFor(t, d)
    BY <1>1, <1>5, <2>1, Types DEF WorksFor, Working, Attached, ComputePCs
  <2>3. void'[c] = void[c] \cup Upto(c)..(Upto(c)' - 1)
    BY <1>7, <2>1, Types
  <2>4. RowsInv(c)'
    BY <1>1, <1>2, <1>3, <1>7, <2>1, <2>2, <2>3, FoundEmpty
  <2>5. \A d \in Callers \ {c} : RowsInv(d)'
    BY <1>1, <1>5, <2>1, <2>2, Types, OtherCaller
  <2> QED
    BY <2>4, <2>5 DEF AllRows
<1>9. CASE PrimaryCompute(c)
  <2>1. /\ pc'[c] = "func" /\ operation'[c] = c /\ rows'[c] = Remainder(c) /\ void' = void
        /\ \A t \in Threads \ {c} : operation'[t] = operation[t] /\ rows'[t] = rows[t]
    BY <1>9, Types DEF PrimaryCompute, StartCompute
  <2>2. \A t \in Threads \ {c}, d \in Callers : WorksFor(t, d)' <=> WorksFor(t, d)
    BY <1>1, <1>5, <2>1, Types DEF WorksFor, Working, Attached
  <2>3. \A d \in Callers : ~WorksFor(c, d) /\ (WorksFor(c, d)' <=> c = d)
    BY <1>1, <2>1, Types DEF WorksFor, Working, ComputePCs
  <2>4. RowsInv(c)'
    BY <1>1, <1>2, <1>3, <1>7, <2>1, <2>2, <2>3, Types, GivenToThread
  <2>5. \A d \in Callers \ {c} : RowsInv(d)'
    BY <1>1, <1>5, <2>1, <2>2, <2>3, Types, OtherCaller
  <2> QED
    BY <2>4, <2>5 DEF AllRows
<1> QED
  BY <1>8, <1>9

\* The wait for the last worker.
LEMMA JoinRows ==
  ASSUME IInv, AllRows, NEW c \in Callers, NothingToJoin(c) \/ WaitComplete(c) \/ Joined(c)
  PROVE  AllRows'
<1> USE DEF opVars, workVars, poolVars, preVars
<1>1. CASE NothingToJoin(c) \/ Joined(c)
  <2>1. PICK v \in {"relock", "tiles"} : pc' = [pc EXCEPT ![c] = v]
    BY <1>1 DEF NothingToJoin, Joined
  <2>2. /\ pc[c] = "join"
        /\ UNCHANGED <<y2, next, operation, rows, listed, isDone, done, void, status>>
    BY <1>1 DEF NothingToJoin, Joined
  <2>3. Upto(c)' = Upto(c)
    BY <2>1, <2>2, Types DEF Upto, SplitPCs
  <2> QED
    BY <2>1, <2>2, <2>3, CallerGoesOn DEF ComputePCs, SplitPCs
<1>2. CASE WaitComplete(c)
  BY <1>2, NobodyMoves DEF WaitComplete, WorksFor, Working, Attached
<1> QED
  BY <1>1, <1>2

\* startComputeOperation() up to the call of a routine, and a routine that fails.
LEMMA RoutineTried ==
  ASSUME IInv, AllRows, NEW t \in Threads,
         \/ SelectFunction(t) \/ CheckFuncData(t) \/ CallPreprocess(t)
         \/ ComputeFails(t) \/ ResetFails(t) \/ NoFunctionLeft(t)
  PROVE  AllRows'
<1> USE DEF opVars, workVars, poolVars, preVars
<1>1. /\ pc[t] \in ComputePCs
      /\ UNCHANGED <<y2, next, operation, rows, listed, isDone, done, void, status>>
  BY DEF SelectFunction, CheckFuncData, CallPreprocess, ComputeFails, ResetFails,
         NoFunctionLeft, ComputePCs
<1>2. pc' = pc \/ \E v \in ComputePCs : pc' = [pc EXCEPT ![t] = v]
  BY DEF SelectFunction, CheckFuncData, CallPreprocess, ComputeFails, ResetFails,
         NoFunctionLeft, ComputePCs
<1>3. pc'[t] \in ComputePCs /\ \A u \in Threads \ {t} : pc'[u] = pc[u]
  BY <1>1, <1>2, Types
<1>4. \A u \in Threads, d \in Callers : WorksFor(u, d)' <=> WorksFor(u, d)
  BY <1>1, <1>3, Types DEF WorksFor, Working, Attached
<1>5. \A d \in Callers : \/ pc'[d] = pc[d]
                         \/ pc[d] \notin SplitPCs /\ pc'[d] \notin SplitPCs \cup {"idle"}
  BY <1>1, <1>3, Types DEF ComputePCs, SplitPCs
<1> QED
  BY <1>1, <1>4, <1>5, NobodyMoves

\* A thread that computes works for an operation that has not ended.
LEMMA ComputesForCaller ==
  ASSUME IInv, NEW t \in Threads, pc[t] \in ComputePCs
  PROVE  /\ operation[t] \in Callers /\ WorksFor(t, operation[t])
         /\ pc[operation[t]] # "idle"
<1>1. CASE t \in Callers
  BY <1>1, Types DEF WorksFor, Working, ComputePCs
<1>2. CASE t \in Contexts
  BY <1>2 DEF WorksFor, Working, Attached, IInv, RolesInv, ListInv, InTilePCs
<1> QED
  BY <1>1, <1>2 DEF Threads

\* A routine writes its rows; the thread ends with them written, or in failure.
LEMMA RoutineEnds ==
  ASSUME IInv, AllRows, SuccessInv, NEW t \in Threads, ComputeSucceeds(t) \/ FinishCompute(t)
  PROVE  AllRows'
<1> USE DEF opVars, workVars, poolVars, preVars
<1>1. /\ pc[t] \in {"run", "finish"} /\ pc[t] \in ComputePCs
      /\ UNCHANGED <<y2, next, operation, listed, isDone, void>>
      /\ rows' = [rows EXCEPT ![t] = {}]
  BY DEF ComputeSucceeds, FinishCompute, ComputePCs
<1>2. PICK c \in Callers : c = operation[t] /\ WorksFor(t, c) /\ pc[c] # "idle"
  BY <1>1, ComputesForCaller
<1>3. rows'[t] = {} /\ \A u \in Threads \ {t} : rows'[u] = rows[u]
  BY <1>1, Types
<1>4. PICK v \in {"finish", "join", "retire"} : pc' = [pc EXCEPT ![t] = v]
  BY DEF ComputeSucceeds, FinishCompute
<1>5. pc'[t] = v /\ \A u \in Threads \ {t} : pc'[u] = pc[u]
  BY <1>4, Types
<1>6. \A d \in Callers : \/ pc'[d] = pc[d]
                         \/ pc[d] \notin SplitPCs /\ pc'[d] \notin SplitPCs \cup {"idle"}
  BY <1>1, <1>5, Types DEF ComputePCs, SplitPCs
<1>7. \A d \in Callers : Upto(d)' = Upto(d)
  BY <1>1, <1>6 DEF Upto, StripSize, SplitPCs
<1>8. \A u \in Threads \ {t}, d \in Callers : WorksFor(u, d)' <=> WorksFor(u, d)
  BY <1>1, <1>5, Types DEF WorksFor, Working, Attached
<1>9. \A d \in Callers : RowsInv(d) /\ next[d] \in Nat
  BY DEF AllRows, RowsInv, RowsIn
<1>10. \A d \in Callers \ {c} : ~WorksFor(t, d) /\ ~WorksFor(t, d)'
  BY <1>1, <1>2 DEF WorksFor
<1>11. CASE ComputeSucceeds(t)
  <2>1. /\ done' = [done EXCEPT ![c] = @ \cup rows[t]]
        /\ status' = status /\ pc'[t] = "finish"
    BY <1>2, <1>11, Types DEF ComputeSucceeds, Op
  <2>2. WorksFor(t, c)'
    BY <1>1, <1>2, <2>1 DEF WorksFor, Working, Attached, ComputePCs
  <2>3. RowsInv(c)'
    <3>1. done'[c] = done[c] \cup rows[t]
      BY <1>2, <2>1, Types
    <3>2. \A u \in Threads : /\ WorksFor(u, c)' <=> WorksFor(u, c)
                             /\ u # t => rows'[u] = rows[u]
      BY <1>2, <1>3, <1>8, <2>2
    <3> QED
      BY <1>1, <1>2, <1>3, <1>6, <1>7, <1>9, <2>1, <3>1, <3>2, RowsWritten
  <2>4. ASSUME NEW d \in Callers \ {c} PROVE RowsInv(d)'
    <3>1. done'[d] = done[d]
      BY <2>1, Types
    <3>2. \A u \in Threads : /\ WorksFor(u, d)' <=> WorksFor(u, d)
                             /\ WorksFor(u, d) => rows'[u] = rows[u]
      BY <1>3, <1>8, <1>10
    <3> QED
      BY <1>1, <1>6, <1>7, <1>9, <2>1, <3>1, <3>2, Kept
  <2> QED
    BY <2>3, <2>4 DEF AllRows
<1>12. CASE FinishCompute(t)
  <2>1. /\ status' = [status EXCEPT ![c] = status[c] /\ ctxStatus[t]]
        /\ done' = done /\ pc'[t] \in {"join", "retire"}
    BY <1>2, <1>12, Types DEF FinishCompute, StatusAfter, Op
  <2>2. ~WorksFor(t, c)'
    BY <2>1, Types DEF WorksFor, Working, Attached, ComputePCs
  <2>3. /\ status'[c] => status[c] /\ ctxStatus[t]
        /\ \A d \in Callers \ {c} : status'[d] = status[d]
    BY <1>2, <2>1, Types
  <2>4. RowsInv(c)'
    <3>1. status'[c] => status[c] /\ (NoReset => rows[t] = {})
      BY <1>1, <2>3 DEF SuccessInv
    <3> QED
      BY <1>1, <1>2, <1>3, <1>6, <1>7, <1>8, <1>9, <2>1, <2>2, <3>1, ThreadLeaves
  <2>5. ASSUME NEW d \in Callers \ {c} PROVE RowsInv(d)'
    <3>1. \A u \in Threads : /\ WorksFor(u, d)' <=> WorksFor(u, d)
                             /\ WorksFor(u, d) => rows'[u] = rows[u]
      BY <1>3, <1>8, <1>10
    <3> QED
      BY <1>1, <1>6, <1>7, <1>9, <2>1, <2>3, <3>1, Kept
  <2> QED
    BY <2>4, <2>5 DEF AllRows
<1> QED
  BY <1>11, <1>12

\* Between two strips a worker works for nobody.
LEMMA WorkerRows ==
  ASSUME IInv, AllRows, NEW w \in Contexts, Worker(w)
  PROVE  AllRows'
<1> USE DEF opVars, workVars, poolVars, preVars
<1>1. /\ UNCHANGED <<y2, next, done, void, status, isDone>>
      /\ pc[w] \in {"retire", "ready"}
  BY DEF Worker, Retire, WakeUp
<1>2. operation' = operation /\ rows' = rows
  <2>1. CASE UNCHANGED <<operation, rows>>
    BY <2>1
  <2>2. CASE StartCompute(w, Op(w), rows[w])
    BY <2>2, Types DEF StartCompute, Op
  <2> QED
    BY <2>1, <2>2 DEF Worker, Retire, WakeUp
<1>3. pc' = pc \/ \E v \in {"ready", "func", "exit"} : pc' = [pc EXCEPT ![w] = v]
  BY DEF Worker, Retire, WakeUp, StartCompute
<1>4. \A t \in Threads \ {w} : pc'[t] = pc[t]
  BY <1>3, Types
<1>5. /\ \A u \in Contexts \ {w} : listed'[u] = listed[u]
      /\ Attached(w)' <=> Attached(w)
  <2>1. CASE Retire(w)
    BY <2>1, Types DEF Retire, Attached, ComputePCs
  <2>2. CASE WakeUp(w)
    <3>1. UNCHANGED <<listed, isDone>> /\ pc[w] = "ready"
      BY <2>2 DEF WakeUp
    <3>2. \/ ~listed[w] /\ pc' = pc
          \/ listed[w] /\ ~isDone[w] /\ pc'[w] = "func"
          \/ listed[w] /\ isDone[w] /\ pc'[w] = "exit"
      BY <2>2, Types DEF WakeUp, StartCompute
    <3> QED
      BY <3>1, <3>2 DEF Attached, ComputePCs
  <2> QED
    BY <2>1, <2>2 DEF Worker
<1>6. \A t \in Threads, d \in Callers : WorksFor(t, d)' <=> WorksFor(t, d)
  BY <1>1, <1>2, <1>4, <1>5, Types DEF WorksFor, Working, Attached
<1>7. \A d \in Callers : pc'[d] = pc[d]
  BY <1>4, Types
<1> QED
  BY <1>1, <1>2, <1>6, <1>7, NobodyMoves

\* ~XiliScheduler() wakes a worker that works for nobody.
LEMMA DismissRows ==
  ASSUME IInv, AllRows, DismissContext
  PROVE  AllRows'
<1> USE DEF opVars, workVars, poolVars, preVars
<1>1. PICK w \in Contexts :
         /\ pc[w] = "ready" /\ ~listed[w]
         /\ isDone' = [isDone EXCEPT ![w] = TRUE]
         /\ listed' = [listed EXCEPT ![w] = TRUE]
  <2>1. readyList \in Seq(Contexts) /\ readyList # <<>>
    BY DEF IInv, TypeOK, DismissContext
  <2>2. 1 \in 1..Len(readyList) /\ Head(readyList) = readyList[1] /\ readyList[1] \in Contexts
    BY <2>1
  <2>3. pc[readyList[1]] = "ready" /\ ~listed[readyList[1]]
    BY <2>2 DEF IInv, PoolInv
  <2> QED
    BY <2>2, <2>3 DEF DismissContext, ListedForExit
<1>2. UNCHANGED <<pc, y2, next, operation, rows, done, void, status>>
  BY DEF DismissContext
<1>3. \A u \in Contexts : Attached(u)' <=> Attached(u)
  <2>1. \A u \in Contexts \ {w} : listed'[u] = listed[u] /\ isDone'[u] = isDone[u]
    BY <1>1, Types
  <2>2. isDone'[w] /\ pc[w] = "ready" /\ ~listed[w]
    BY <1>1, Types
  <2> QED
    BY <1>2, <2>1, <2>2 DEF Attached, ComputePCs
<1>4. \A t \in Threads, d \in Callers : WorksFor(t, d)' <=> WorksFor(t, d)
  BY <1>2, <1>3 DEF WorksFor, Working
<1> QED
  BY <1>2, <1>4, NobodyMoves

-----------------------------------------------------------------------------
\* Every step.

\* A step after which no other thread reports success.
LEMMA SuccessKept ==
  ASSUME IInv, SuccessInv,
         \A t \in Threads : \/ ~(pc'[t] \in ComputePCs /\ ctxStatus'[t])
                            \/ /\ pc[t] \in ComputePCs /\ ctxStatus[t]
                               /\ rows'[t] = rows[t]
  PROVE  SuccessInv'
BY DEF SuccessInv, NoReset

\* Only a routine that has written all rows sets the status to success.
LEMMA SuccessStep == IInv /\ SuccessInv /\ [Next]_vars => SuccessInv'
<1> SUFFICES ASSUME IInv, SuccessInv, [Next]_vars PROVE SuccessInv'
  OBVIOUS
<1> USE DEF opVars, workVars, poolVars, preVars
<1>1. CASE UNCHANGED vars
  BY <1>1, SuccessKept DEF vars
<1>2. ASSUME NEW c \in Callers, Begin(c) \/ BeginWhole(c) PROVE SuccessInv'
  <2>1. UNCHANGED <<rows, ctxStatus>> /\ \E v \in {"tiles", "primary"} : pc' = [pc EXCEPT ![c] = v]
    BY <1>2 DEF Begin, BeginWhole, NewOperation
  <2>2. \A t \in Threads : pc'[t] \in ComputePCs => pc[t] \in ComputePCs
    BY <2>1, Types DEF ComputePCs
  <2> QED
    BY <2>1, <2>2, SuccessKept
<1>3. ASSUME NEW c \in Callers, CreateThread(c) PROVE SuccessInv'
  <2>1. PICK w \in Contexts : CreateThread(c)!2!(w)
    BY <1>3 DEF CreateThread
  <2>2. ~ctxStatus'[w] /\ pc'[c] = "append"
    BY <2>1, Types
  <2>3. \A t \in Threads \ {w, c} : /\ pc'[t] = pc[t] /\ rows'[t] = rows[t]
                                    /\ ctxStatus'[t] = ctxStatus[t]
    BY <2>1, Types
  <2> QED
    BY <2>2, <2>3, SuccessKept DEF ComputePCs
<1>4. ASSUME NEW c \in Callers, WakeContext(c) PROVE SuccessInv'
  <2>1. PICK w \in Contexts : pc[w] = "ready" /\ rows' = [rows EXCEPT ![w] = Strip(c)]
    <3>1. readyList \in Seq(Contexts) /\ readyList # <<>>
      BY <1>4 DEF IInv, TypeOK, WakeContext
    <3>2. 1 \in 1..Len(readyList) /\ Head(readyList) = readyList[1] /\ readyList[1] \in Contexts
      BY <3>1
    <3>3. pc[readyList[1]] = "ready"
      BY <3>2 DEF IInv, PoolInv
    <3> QED
      BY <1>4, <3>2, <3>3 DEF WakeContext
  <2>2. UNCHANGED <<pc, ctxStatus>>
    BY <1>4 DEF WakeContext
  <2>3. \A t \in Threads \ {w} : rows'[t] = rows[t]
    BY <2>1, Types
  <2> QED
    BY <2>1, <2>2, <2>3, SuccessKept DEF ComputePCs
<1>5. ASSUME NEW c \in Callers, SplitFails(c) PROVE SuccessInv'
  <2>1. UNCHANGED <<rows, ctxStatus>> /\ \A t \in Threads : pc'[t] \in {"return", "none", pc[t]}
    BY <1>5 DEF SplitFails
  <2> QED
    BY <2>1, SuccessKept DEF ComputePCs
<1>6. ASSUME NEW c \in Callers, PrimaryCompute(c) PROVE SuccessInv'
  <2>1. /\ ~ctxStatus'[c]
        /\ \A t \in Threads \ {c} : /\ pc'[t] = pc[t] /\ rows'[t] = rows[t]
                                    /\ ctxStatus'[t] = ctxStatus[t]
    BY <1>6, Types DEF PrimaryCompute, StartCompute
  <2> QED
    BY <2>1, SuccessKept
<1>7. ASSUME NEW c \in Callers,
             \/ NoMoreTiles(c) \/ SkipTile(c) \/ ClippedAway(c) \/ NextTile(c)
             \/ TooThin(c) \/ LockForSplit(c) \/ EmptyStrip(c) \/ AppendContext(c)
             \/ SplitDone(c) \/ PrimaryEmpty(c) \/ NothingToJoin(c)
             \/ WaitComplete(c) \/ Joined(c) \/ Relock(c) \/ Return(c)
      PROVE  SuccessInv'
  <2>1. UNCHANGED <<rows, ctxStatus>>
    BY <1>7 DEF NoMoreTiles, SkipTile, ClippedAway, NextTile, TooThin, LockForSplit,
                EmptyStrip, AppendContext, SplitDone, PrimaryEmpty, NothingToJoin,
                WaitComplete, Joined, Relock, Return
  <2>2. \/ pc' = pc
        \/ \E v \in {"relock", "split", "primary", "join", "tiles", "return", "idle"} :
              pc' = [pc EXCEPT ![c] = v]
    BY <1>7 DEF NoMoreTiles, SkipTile, ClippedAway, NextTile, TooThin, LockForSplit,
                EmptyStrip, AppendContext, SplitDone, PrimaryEmpty, NothingToJoin,
                WaitComplete, Joined, Relock, Return
  <2>3. \A t \in Threads : pc'[t] \in ComputePCs => pc[t] \in ComputePCs
    BY <2>2, Types DEF ComputePCs
  <2> QED
    BY <2>1, <2>3, SuccessKept
<1>8. ASSUME NEW t \in Threads, Compute(t) \/ SpuriousWakeup(t) PROVE SuccessInv'
  <2>1. CASE ComputeSucceeds(t)
    <3>1. rows'[t] = {} /\ \A u \in Threads \ {t} : rows'[u] = rows[u]
      BY <2>1, Types DEF ComputeSucceeds
    <3>2. \A u \in Threads \ {t} : pc'[u] = pc[u] /\ ctxStatus'[u] = ctxStatus[u]
      BY <2>1, Types DEF ComputeSucceeds
    <3> QED
      BY <3>1, <3>2 DEF SuccessInv, NoReset
  <2>2. CASE ResetFails(t)
    BY <2>2 DEF ResetFails, SuccessInv, NoReset
  <2>3. CASE ComputeFails(t) \/ FinishCompute(t)
    <3>1. ~ctxStatus'[t]
      BY <2>3, Types DEF ComputeFails, FinishCompute
    <3>2. \A u \in Threads \ {t} : ctxStatus'[u] = ctxStatus[u] /\ rows'[u] = rows[u]
      BY <2>3, Types DEF ComputeFails, FinishCompute
    <3>3. \A u \in Threads \ {t} : pc'[u] = pc[u]
      <4>1. \E v \in {"func", "join", "retire"} : pc' = [pc EXCEPT ![t] = v]
        BY <2>3 DEF ComputeFails, FinishCompute
      <4> QED
        BY <4>1, Types
    <3> QED
      BY <3>1, <3>2, <3>3, SuccessKept
  <2>4. CASE \/ SelectFunction(t) \/ CheckFuncData(t) \/ CallPreprocess(t)
             \/ NoFunctionLeft(t)
    <3>1. pc[t] \in ComputePCs /\ UNCHANGED <<rows, ctxStatus>>
      BY <2>4 DEF SelectFunction, CheckFuncData, CallPreprocess, NoFunctionLeft, ComputePCs
    <3>2. pc' = pc \/ \E v \in ComputePCs : pc' = [pc EXCEPT ![t] = v]
      BY <2>4 DEF SelectFunction, CheckFuncData, CallPreprocess, NoFunctionLeft, ComputePCs
    <3>3. \A u \in Threads : pc'[u] \in ComputePCs => pc[u] \in ComputePCs
      BY <3>1, <3>2, Types
    <3> QED
      BY <3>1, <3>3, SuccessKept
  <2>5. CASE SpuriousWakeup(t)
    BY <2>5, SuccessKept DEF SpuriousWakeup
  <2> QED
    BY <1>8, <2>1, <2>2, <2>3, <2>4, <2>5 DEF Compute
<1>9. ASSUME NEW w \in Contexts, Worker(w) PROVE SuccessInv'
  <2>1. \/ pc' = pc \/ pc' = [pc EXCEPT ![w] = "ready"] \/ pc' = [pc EXCEPT ![w] = "exit"]
        \/ ~ctxStatus'[w] /\ pc' = [pc EXCEPT ![w] = "func"]
    BY <1>9, Types DEF Worker, Retire, WakeUp, StartCompute
  <2>2. \A t \in Threads \ {w} : /\ pc'[t] = pc[t] /\ rows'[t] = rows[t]
                                 /\ ctxStatus'[t] = ctxStatus[t]
    <3>1. \/ UNCHANGED <<rows, ctxStatus>>
          \/ StartCompute(w, Op(w), rows[w])
      BY <1>9 DEF Worker, Retire, WakeUp
    <3> QED
      BY <2>1, <3>1, Types DEF StartCompute
  <2>3. \/ ~(pc'[w] \in ComputePCs /\ ctxStatus'[w])
        \/ pc'[w] = pc[w] /\ rows'[w] = rows[w] /\ ctxStatus'[w] = ctxStatus[w]
    <3>1. CASE Retire(w)
      BY <3>1, Types DEF Retire, ComputePCs
    <3>2. CASE WakeUp(w)
      <4>1. UNCHANGED <<pc, rows, ctxStatus>> \/ ~ctxStatus'[w] \/ pc'[w] = "exit"
        BY <3>2, Types DEF WakeUp, StartCompute
      <4> QED
        BY <4>1 DEF ComputePCs
    <3> QED
      BY <1>9, <3>1, <3>2 DEF Worker
  <2> QED
    BY <2>2, <2>3, SuccessKept
<1>10. CASE BeginClose \/ Close \/ Closed
  BY <1>10, SuccessKept DEF BeginClose, Close, DismissContext, JoinContext, EndClose, Closed, vars
<1> QED
  BY <1>1, <1>2, <1>3, <1>4, <1>5, <1>6, <1>7, <1>8, <1>9, <1>10
  DEF Next, Execute, StartThreads

\* The rows after any step.
LEMMA RowsStep == IInv /\ AllRows /\ SuccessInv /\ [Next]_vars => AllRows'
<1> SUFFICES ASSUME IInv, AllRows, SuccessInv, [Next]_vars PROVE AllRows'
  OBVIOUS
<1> USE DEF opVars, workVars, poolVars, preVars
<1>1. ASSUME NEW c \in Callers, Begin(c) \/ BeginWhole(c) \/ Execute(c) PROVE AllRows'
  BY <1>1, TileRows, SplitBounds, StripEmpty, StripToNew, NewContextListed,
     StripToReady, SplitGivenUp, RestToCaller, JoinRows DEF Execute, StartThreads
<1>2. ASSUME NEW t \in Threads, Compute(t) PROVE AllRows'
  BY <1>2, RoutineTried, RoutineEnds DEF Compute
<1>3. ASSUME NEW t \in Threads, SpuriousWakeup(t) PROVE AllRows'
  BY <1>3, NobodyMoves DEF SpuriousWakeup, WorksFor, Working, Attached
<1>4. CASE BeginClose \/ JoinContext \/ EndClose \/ Closed \/ UNCHANGED vars
  <2>1. UNCHANGED <<pc, y2, next, operation, rows, listed, isDone, done, void, status>>
    BY <1>4 DEF BeginClose, JoinContext, EndClose, Closed, vars
  <2> QED
    BY <2>1, NobodyMoves DEF WorksFor, Working, Attached
<1> QED
  BY <1>1, <1>2, <1>3, <1>4, WorkerRows, DismissRows DEF Next, Close

\* Before the first call nothing has been given away.
LEMMA RowsInit == Init => AllRows /\ SuccessInv
<1> SUFFICES ASSUME Init PROVE AllRows /\ SuccessInv
  OBVIOUS
<1> USE SchedulerAssumption DEF Init, Threads
<1>1. ASSUME NEW c \in Callers PROVE RowsInv(c)
  <2>1. /\ pc[c] = "idle" /\ y2[c] = -1 /\ next[c] = 0 /\ Upto(c) = 0
        /\ done[c] = {} /\ void[c] = {}
    BY DEF Upto, SplitPCs
  <2>2. \A t \in Threads : ~WorksFor(t, c)
    BY DEF WorksFor, Working, Attached, ComputePCs
  <2> QED
    BY <2>1, <2>2 DEF RowsInv, RowsIn, RowsApart, RowsKept, SplitPCs
<1> QED
  BY <1>1 DEF AllRows, SuccessInv, ComputePCs

\* Both hold in every reachable state.
LEMMA RowsAlways == Spec => [](IInv /\ AllRows /\ SuccessInv)
BY RowsInit, RowsStep, SuccessStep, InvariantHolds, PTL DEF Spec

\* No row is given to two threads, and none is computed twice.
THEOREM RowsOnce == Spec => []RowsComputedOnce
<1>1. IInv /\ AllRows => RowsComputedOnce
  <2> SUFFICES ASSUME IInv, AllRows, NEW t \in Threads, Working(t)
               PROVE  /\ rows[t] \cap done[operation[t]] = {}
                      /\ \A u \in Threads \ {t} : Working(u) /\ operation[u] = operation[t]
                            => rows[t] \cap rows[u] = {}
    BY DEF RowsComputedOnce
  <2>1. operation[t] \in Callers
    <3>1. CASE t \in Callers
      BY <3>1, Types
    <3>2. CASE t \in Contexts
      BY <3>2 DEF Working, IInv, RolesInv
    <3> QED
      BY <3>1, <3>2 DEF Threads
  <2>2. RowsApart(operation[t])
    BY <2>1 DEF AllRows, RowsInv
  <2> QED
    BY <2>2 DEF RowsApart, WorksFor
<1> QED
  BY <1>1, RowsAlways, PTL

\* While resetFromFailed() finds memory, a tile that is left with success has
\* been computed as a whole.
THEOREM TileComputed ==
  ASSUME NoReset
  PROVE  Spec => []TileCovered
<1>1. ASSUME IInv, AllRows PROVE TileCovered
  <2> SUFFICES ASSUME NEW c \in Callers, pc[c] \in {"tiles", "relock", "return"}, status[c]
               PROVE  done[c] \cup void[c] = 0..y2[c]
    BY DEF TileCovered
  <2>1. RowsInv(c)
    BY <1>1 DEF AllRows
  <2>2. Upto(c) = y2[c] + 1 /\ y2[c] \in Int /\ Upto(c) - 1 = y2[c]
    BY <2>1 DEF Upto, SplitPCs, RowsInv, RowsIn
  <2>3. ASSUME NEW t \in Threads PROVE ~WorksFor(t, c)
    <3>1. CASE t \in Callers
      BY <1>1, <3>1, Types DEF WorksFor, Working, ComputePCs
    <3>2. CASE t \in Contexts
      BY <1>1, <3>2 DEF WorksFor, Working, IInv, ListInv, InTilePCs
    <3> QED
      BY <3>1, <3>2 DEF Threads
  <2>4. done[c] \cup void[c] \subseteq 0..y2[c]
    BY <2>1, <2>2 DEF RowsInv, RowsIn
  <2>5. \A r \in 0..y2[c] : r \in done[c] \cup void[c]
    BY <2>1, <2>2, <2>3 DEF RowsInv, RowsKept
  <2> QED
    BY <2>4, <2>5
<1>2. IInv /\ AllRows => TileCovered
  BY <1>1
<1> QED
  BY <1>2, RowsAlways, PTL
----------------------------------------------------------------------------
\* The ready list

\* Waiting for work
IsIdle(w) == pc[w] = "ready" /\ ~listed[w]
OnList(w) == \E i \in 1..Len(readyList) : readyList[i] = w
NoneMissing == \A w \in Contexts : IsIdle(w) => OnList(w)

\* Nothing taken off the list, nobody newly idle.
LEMMA ListKept ==
  ASSUME NoneMissing, readyList' = readyList,
         \A w \in Contexts : IsIdle(w)' => IsIdle(w)
  PROVE  NoneMissing'
  BY DEF NoneMissing, OnList

\* A thread goes on, by which nobody becomes idle.
LEMMA ThreadGoesOn ==
  ASSUME IInv, NoneMissing, NEW t \in Threads, NEW v, v # "ready",
         pc' = [pc EXCEPT ![t] = v], UNCHANGED <<readyList, listed>>
  PROVE  NoneMissing'
<1>1. \A w \in Contexts : IsIdle(w)' => IsIdle(w)
  BY DEF IInv, TypeOK, IsIdle, Threads
<1> QED
  BY <1>1, ListKept

\* The first context leaves the list and gets a position elsewhere.
LEMMA FirstTaken ==
  ASSUME IInv, NoneMissing, readyList # <<>>, readyList' = Tail(readyList),
         listed' = [listed EXCEPT ![Head(readyList)] = TRUE], pc' = pc
  PROVE  NoneMissing'
<1> SUFFICES ASSUME NEW w \in Contexts, IsIdle(w)' PROVE OnList(w)'
  BY DEF NoneMissing
<1>1. readyList \in Seq(Contexts) /\ listed \in [Contexts -> BOOLEAN]
  BY DEF IInv, TypeOK
<1>2. IsIdle(w) /\ w # Head(readyList)
  BY <1>1 DEF IsIdle
<1>3. PICK i \in 1..Len(readyList) : readyList[i] = w
  BY <1>2 DEF NoneMissing, OnList
<1>4. i # 1
  BY <1>2, <1>3
<1>5. i - 1 \in 1..Len(Tail(readyList)) /\ Tail(readyList)[i - 1] = w
  BY <1>1, <1>3, <1>4
<1> QED
  BY <1>5 DEF OnList

\* It goes to the end of the list, or the list stays as it is.
LEMMA FirstPutBack ==
  ASSUME IInv, NoneMissing,
         \/ readyList' = readyList
         \/ readyList # <<>> /\ readyList' = PutBack(readyList),
         \A w \in Contexts : IsIdle(w)' => IsIdle(w)
  PROVE  NoneMissing'
<1>1. CASE readyList' = readyList
  BY <1>1, ListKept
<1>2. CASE readyList # <<>> /\ readyList' = PutBack(readyList)
  <2> SUFFICES ASSUME NEW w \in Contexts, IsIdle(w)' PROVE OnList(w)'
    BY DEF NoneMissing
  <2>1. PICK i \in 1..Len(readyList) : readyList[i] = w
    BY DEF NoneMissing, OnList
  <2>2. readyList \in Seq(Contexts)
    BY DEF IInv, TypeOK
  <2>3. readyList' = Append(Tail(readyList), Head(readyList))
    BY <1>2 DEF PutBack
  <2>4. CASE i = 1
    <3>1. /\ Len(readyList) \in 1..Len(readyList')
          /\ readyList'[Len(readyList)] = w
      BY <1>2, <2>1, <2>2, <2>3, <2>4
    <3> QED
      BY <3>1 DEF OnList
  <2>5. CASE i # 1
    <3>1. i - 1 \in 1..Len(readyList') /\ readyList'[i - 1] = w
      BY <1>2, <2>1, <2>2, <2>3, <2>5
    <3> QED
      BY <3>1 DEF OnList
  <2> QED
    BY <2>4, <2>5
<1> QED
  BY <1>1, <1>2

LEMMA RetireListed ==
  ASSUME IInv, NoneMissing, NEW w \in Contexts, Retire(w)
  PROVE  NoneMissing'
<1> SUFFICES ASSUME NEW u \in Contexts, IsIdle(u)' PROVE OnList(u)'
  BY DEF NoneMissing
<1>1. readyList \in Seq(Contexts) /\ readyList' = Append(readyList, w)
  BY DEF IInv, TypeOK, Retire
<1>2. CASE u = w
  <2>1. Len(readyList) + 1 \in 1..Len(readyList') /\ readyList'[Len(readyList) + 1] = w
    BY <1>1
  <2> QED
    BY <1>2, <2>1 DEF OnList
<1>3. CASE u # w
  <2>1. IsIdle(u)
    BY <1>3 DEF IInv, TypeOK, IsIdle, Retire, Threads
  <2>2. PICK i \in 1..Len(readyList) : readyList[i] = u
    BY <2>1 DEF NoneMissing, OnList
  <2>3. i \in 1..Len(readyList') /\ readyList'[i] = u
    BY <1>1, <2>2
  <2> QED
    BY <2>3 DEF OnList
<1> QED
  BY <1>2, <1>3

\* startThreads(): contexts are taken off the list here only.
LEMMA StartThreadsListed ==
  ASSUME IInv, NoneMissing, NEW c \in Callers, StartThreads(c)
  PROVE  NoneMissing'
<1> USE DEF opVars, workVars, poolVars, preVars
<1>1. CASE TooThin(c) \/ SplitDone(c)
  <2>1. pc' = [pc EXCEPT ![c] = "primary"] /\ UNCHANGED <<readyList, listed>>
    BY <1>1 DEF TooThin, SplitDone
  <2> QED
    BY <2>1, ThreadGoesOn DEF Threads
<1>2. CASE LockForSplit(c)
  BY <1>2, ListKept DEF LockForSplit, IsIdle
<1>3. CASE EmptyStrip(c)
  <2>1. \A w \in Contexts : IsIdle(w)' => IsIdle(w)
    BY <1>3 DEF EmptyStrip, IsIdle
  <2>2. readyList' = readyList \/ (readyList # <<>> /\ readyList' = PutBack(readyList))
    BY <1>3 DEF EmptyStrip
  <2> QED
    BY <2>1, <2>2, FirstPutBack
<1>4. CASE CreateThread(c)
  <2>1. PICK w \in Contexts : pc' = [pc EXCEPT ![w] = "func", ![c] = "append"]
    BY <1>4 DEF CreateThread
  <2>2. UNCHANGED <<readyList, listed>>
    BY <1>4 DEF CreateThread
  <2>3. \A u \in Contexts : IsIdle(u)' => IsIdle(u)
    BY <2>1, <2>2 DEF IInv, TypeOK, IsIdle, Threads
  <2> QED
    BY <2>2, <2>3, ListKept
<1>5. CASE AppendContext(c)
  <2>1. \A u \in Contexts : IsIdle(u)' => IsIdle(u)
    BY <1>5 DEF IInv, TypeOK, IsIdle, AppendContext, Threads
  <2> QED
    BY <1>5, <2>1, ListKept DEF AppendContext
<1>6. CASE WakeContext(c)
  BY <1>6, FirstTaken DEF WakeContext
<1>7. CASE SplitFails(c)
  <2>1. \A u \in Contexts : IsIdle(u)' => IsIdle(u)
    BY <1>7 DEF IsIdle, SplitFails, Threads
  <2> QED
    BY <1>7, <2>1, FirstPutBack DEF SplitFails
<1> QED
  BY <1>1, <1>2, <1>3, <1>4, <1>5, <1>6, <1>7 DEF StartThreads

\* The rest of execute()
LEMMA ExecuteListed ==
  ASSUME IInv, NoneMissing, NEW c \in Callers,
         Begin(c) \/ BeginWhole(c) \/ Execute(c)
  PROVE  NoneMissing'
<1> USE DEF opVars, workVars, poolVars, preVars
<1>1. CASE StartThreads(c)
  BY <1>1, StartThreadsListed
<1>2. CASE SkipTile(c) \/ ClippedAway(c) \/ WaitComplete(c)
  BY <1>2, ListKept DEF SkipTile, ClippedAway, WaitComplete, IsIdle
<1>3. CASE Begin(c) \/ BeginWhole(c)
  <2>1. \E v \in {"tiles", "primary"} : pc' = [pc EXCEPT ![c] = v]
    BY <1>3 DEF Begin, BeginWhole
  <2>2. UNCHANGED <<readyList, listed>>
    BY <1>3 DEF Begin, BeginWhole, NewOperation
  <2> QED
    BY <2>1, <2>2, ThreadGoesOn DEF Threads
<1>4. CASE \/ NoMoreTiles(c) \/ NextTile(c) \/ PrimaryEmpty(c) \/ PrimaryCompute(c)
           \/ NothingToJoin(c) \/ Joined(c) \/ Relock(c) \/ Return(c)
  <2>1. \E v \in {"relock", "split", "primary", "join", "func", "tiles", "return", "idle"} :
           pc' = [pc EXCEPT ![c] = v]
    BY <1>4 DEF NoMoreTiles, NextTile, PrimaryEmpty, PrimaryCompute, StartCompute,
                NothingToJoin, Joined, Relock, Return
  <2>2. UNCHANGED <<readyList, listed>>
    BY <1>4 DEF NoMoreTiles, NextTile, PrimaryEmpty, PrimaryCompute,
                NothingToJoin, Joined, Relock, Return
  <2> QED
    BY <2>1, <2>2, ThreadGoesOn DEF Threads
<1> QED
  BY <1>1, <1>2, <1>3, <1>4 DEF Execute

LEMMA ComputeListed ==
  ASSUME IInv, NoneMissing, NEW t \in Threads, Compute(t) \/ SpuriousWakeup(t)
  PROVE  NoneMissing'
<1> USE DEF opVars, workVars, poolVars, preVars
<1>1. UNCHANGED <<readyList, listed>>
  BY DEF Compute, SelectFunction, CheckFuncData, CallPreprocess, ComputeSucceeds,
         ComputeFails, ResetFails, NoFunctionLeft, FinishCompute, SpuriousWakeup
<1>2. \/ pc' = pc
      \/ \E v \in {"run", "pre", "func", "finish", "join", "retire"} :
            pc' = [pc EXCEPT ![t] = v]
  BY DEF Compute, SelectFunction, CheckFuncData, CallPreprocess, ComputeSucceeds,
         ComputeFails, ResetFails, NoFunctionLeft, FinishCompute, SpuriousWakeup
<1> QED
  BY <1>1, <1>2, ThreadGoesOn, ListKept DEF IsIdle

LEMMA NextListed == IInv /\ NoneMissing /\ [Next]_vars => NoneMissing'
<1> SUFFICES ASSUME IInv, NoneMissing, [Next]_vars PROVE NoneMissing'
  OBVIOUS
<1> USE DEF opVars, workVars, poolVars, preVars
<1>1. CASE UNCHANGED vars
  BY <1>1, ListKept DEF vars, IsIdle
<1>2. ASSUME NEW w \in Contexts, WakeUp(w) PROVE NoneMissing'
  <2>1. pc' = pc \/ \E v \in {"func", "exit"} : pc' = [pc EXCEPT ![w] = v]
    BY <1>2 DEF WakeUp, StartCompute
  <2>2. UNCHANGED <<readyList, listed>>
    BY <1>2 DEF WakeUp
  <2> QED
    BY <2>1, <2>2, ThreadGoesOn, ListKept DEF IsIdle, Threads
<1>3. CASE BeginClose \/ JoinContext \/ EndClose \/ Closed
  BY <1>3, ListKept DEF BeginClose, JoinContext, EndClose, Closed, vars, IsIdle
<1>4. CASE DismissContext
  BY <1>4, FirstTaken DEF DismissContext, ListedForExit
<1> QED
  BY <1>1, <1>2, <1>3, <1>4, ExecuteListed, ComputeListed, RetireListed
  DEF Next, Worker, Close

\* The ready list names exactly the contexts that wait for work, each once.
THEOREM ReadyListCorrect == Spec => []ReadyListExact
<1>1. Init => NoneMissing
  BY DEF Init, NoneMissing, IsIdle, Threads
<1>2. IInv /\ NoneMissing => ReadyListExact
  <2> SUFFICES ASSUME IInv, NoneMissing PROVE ReadyListExact
    OBVIOUS
  <2>1. readyList \in Seq(Contexts) /\ DOMAIN readyList = 1..Len(readyList)
    BY DEF IInv, TypeOK
  <2>2. \A i \in DOMAIN readyList : readyList[i] \in Contexts /\ IsIdle(readyList[i])
    BY <2>1 DEF IInv, PoolInv, IsIdle
  <2>3. \A w \in Contexts : IsIdle(w) => \E i \in DOMAIN readyList : readyList[i] = w
    BY <2>1 DEF NoneMissing, OnList
  <2>4. \A i, j \in DOMAIN readyList : readyList[i] = readyList[j] => i = j
    BY <2>1 DEF IInv, PoolInv
  <2> QED
    BY <2>2, <2>3, <2>4 DEF ReadyListExact, IsIdle
<1> QED
  BY <1>1, <1>2, NextListed, InvariantHolds, PTL DEF Spec
----------------------------------------------------------------------------
\* Preprocess routines

\* While a routine is called there is no result of it in the operation's XilOp.
PreInv ==
    \A t \in Threads : pc[t] = "pre" =>
        func[t] \in PreFuncs /\ preStatus[xilOp[operation[t]]][func[t]] = "none"

\* The variables the invariant reads.
LEMMA PreTypes ==
  ASSUME IInv
  PROVE  /\ preStatus \in [XilOps -> [PreFuncs -> {"none", "ok", "fail"}]]
         /\ xilOp \in [Callers -> XilOps]
         /\ func \in [Threads -> Nat] /\ opLock \in [Callers -> Threads \cup {NoThread}]
BY DEF IInv, TypeOK

\* A step that neither begins a call of a routine nor changes a result.
LEMMA ResultsKept ==
  ASSUME PreInv, preVars' = preVars,
         \A t \in Threads : pc'[t] = "pre" =>
            pc[t] = "pre" /\ func'[t] = func[t] /\ operation'[t] = operation[t]
  PROVE  PreInv'
BY DEF PreInv, preVars

\* What may happen to the results.
LEMMA ResultsChange ==
  ASSUME [Next]_vars, preVars' # preVars
  PROVE  \/ \E c \in Callers : NewOperation(c)
         \/ \E t \in Threads : CallPreprocess(t)
BY DEF Next, Execute, StartThreads, Compute, Worker, Close, vars, opVars, workVars,
       poolVars, Begin, BeginWhole, NoMoreTiles, SkipTile, ClippedAway, NextTile,
       TooThin, LockForSplit, EmptyStrip, CreateThread, AppendContext, WakeContext,
       SplitFails, SplitDone, PrimaryEmpty, PrimaryCompute, NothingToJoin,
       WaitComplete, Joined, Relock, Return, SelectFunction, CheckFuncData,
       ComputeSucceeds, ComputeFails, ResetFails, NoFunctionLeft, FinishCompute,
       SpuriousWakeup, Retire, WakeUp, BeginClose, DismissContext, JoinContext,
       EndClose, Closed

\* A call of execute() begins when no thread computes for its operation, and
\* leaves the results of the XilOps in use alone.
LEMMA NewResults ==
  ASSUME IInv, NEW c \in Callers, NewOperation(c)
  PROVE  /\ pc[c] = "idle"
         /\ \A d \in Callers \ {c} : xilOp'[d] = xilOp[d]
         /\ \A d \in Callers : pc[d] # "idle"
               => /\ xilOp'[d] = xilOp[d]
                  /\ preStatus'[xilOp[d]] = preStatus[xilOp[d]]
         /\ \A t \in Threads : pc[t] \in ComputePCs => operation[t] \in Callers \ {c}
<1>1. pc[c] = "idle"
  BY DEF NewOperation
<1>2. PICK o \in XilOps : NewOperation(c)!3!(o)
  BY DEF NewOperation
<1>3. \A d \in Callers \ {c} : xilOp'[d] = xilOp[d]
  BY <1>2, PreTypes
<1>4. ASSUME NEW d \in Callers, pc[d] # "idle"
      PROVE  xilOp'[d] = xilOp[d] /\ preStatus'[xilOp[d]] = preStatus[xilOp[d]]
  <2>1. d # c /\ xilOp[d] \in XilOps
    BY <1>1, <1>4, PreTypes
  <2>2. CASE UNCHANGED preStatus
    BY <1>3, <2>1, <2>2
  <2>3. CASE ~InUse(o) /\ preStatus' = [preStatus EXCEPT
                                          ![o] = [f \in PreFuncs |-> "none"]]
    <3>1. xilOp[d] # o
      BY <1>4, <2>3 DEF InUse
    <3> QED
      BY <1>3, <2>1, <2>3, <3>1, PreTypes
  <2> QED
    BY <1>2, <2>2, <2>3
<1>5. \A t \in Threads : pc[t] \in ComputePCs => operation[t] \in Callers \ {c}
  BY <1>1, ComputesForCaller
<1> QED
  BY <1>1, <1>3, <1>4, <1>5

\* The operations of two threads that call a routine are different ones, by
\* their locks, and of different XilOps if two calls never share one.
LEMMA RoutinesApart ==
  ASSUME IInv, Apart, NEW t \in Threads, NEW u \in Threads \ {t},
         pc[t] = "pre", pc[u] = "pre"
  PROVE  xilOp[operation[t]] # xilOp[operation[u]]
<1>1. pc[t] \in ComputePCs /\ pc[u] \in ComputePCs
  BY DEF ComputePCs
<1>2. /\ operation[t] \in Callers /\ pc[operation[t]] # "idle"
      /\ operation[u] \in Callers /\ pc[operation[u]] # "idle"
  BY <1>1, ComputesForCaller
<1>3. operation[t] # operation[u]
  BY DEF IInv, LockInv
<1> QED
  BY <1>2, <1>3 DEF Apart

\* The one result that a call of a routine sets.
LEMMA ResultSet ==
  ASSUME IInv, PreInv, NEW t \in Threads, CallPreprocess(t)
  PROVE  /\ xilOp' = xilOp /\ operation[t] \in Callers
         /\ preStatus[xilOp[operation[t]]][func[t]] = "none"
         /\ \A o \in XilOps, f \in PreFuncs :
               ~(o = xilOp[operation[t]] /\ f = func[t])
                  => preStatus'[o][f] = preStatus[o][f]
<1>1. pc[t] = "pre" /\ pc[t] \in ComputePCs /\ xilOp' = xilOp
  BY DEF CallPreprocess, ComputePCs
<1>2. operation[t] \in Callers
  BY <1>1, ComputesForCaller
<1>3. preStatus[xilOp[operation[t]]][func[t]] = "none" /\ func[t] \in PreFuncs
  BY <1>1 DEF PreInv
<1> DEFINE p == xilOp[operation[t]]
<1>4. p \in XilOps
  BY <1>2, PreTypes
<1>5. PICK r \in {"ok", "fail"} :
         preStatus' = [preStatus EXCEPT ![p][func[t]] = r]
  BY DEF CallPreprocess, Op
<1>6. ASSUME NEW o \in XilOps, NEW f \in PreFuncs, ~(o = p /\ f = func[t])
      PROVE  preStatus'[o][f] = preStatus[o][f]
  <2> HIDE DEF p
  <2>1. CASE o # p
    BY <1>4, <1>5, <2>1, PreTypes
  <2>2. CASE o = p /\ f # func[t]
    <3>1. preStatus'[o] = [preStatus[o] EXCEPT ![func[t]] = r]
      BY <1>5, <2>2, PreTypes
    <3>2. preStatus[o] \in [PreFuncs -> {"none", "ok", "fail"}]
      BY PreTypes
    <3> QED
      BY <2>2, <3>1, <3>2
  <2> QED
    BY <1>6, <2>1, <2>2
<1> QED
  BY <1>1, <1>2, <1>3, <1>6

\* Every step leaves the threads that call a routine alone with it.
LEMMA PreStep == IInv /\ PreInv /\ Apart /\ [Next]_vars => PreInv'
<1> SUFFICES ASSUME IInv, PreInv, Apart, [Next]_vars PROVE PreInv'
  OBVIOUS
<1> USE DEF opVars, workVars, poolVars
<1>1. CASE UNCHANGED vars
  BY <1>1, ResultsKept DEF vars
<1>2. ASSUME NEW c \in Callers, Begin(c) \/ BeginWhole(c) PROVE PreInv'
  <2>1. /\ NewOperation(c) /\ UNCHANGED <<operation, func>>
        /\ \E v \in {"tiles", "primary"} : pc' = [pc EXCEPT ![c] = v]
    BY <1>2 DEF Begin, BeginWhole, NewOperation
  <2>2. \A t \in Threads : pc'[t] = "pre" => pc[t] = "pre"
    BY <2>1, Types
  <2>3. ASSUME NEW t \in Threads, pc[t] = "pre"
        PROVE  preStatus'[xilOp'[operation[t]]] = preStatus[xilOp[operation[t]]]
    <3>1. pc[t] \in ComputePCs
      BY <2>3 DEF ComputePCs
    <3>2. operation[t] \in Callers /\ pc[operation[t]] # "idle"
      BY <3>1, ComputesForCaller
    <3> QED
      BY <2>1, <3>2, NewResults
  <2> QED
    BY <2>1, <2>2, <2>3 DEF PreInv
<1>3. ASSUME NEW c \in Callers, CreateThread(c) PROVE PreInv'
  <2>1. PICK w \in Contexts : CreateThread(c)!2!(w)
    BY <1>3 DEF CreateThread
  <2>2. pc'[w] = "func" /\ pc'[c] = "append"
    BY <2>1, Types
  <2>3. \A t \in Threads \ {w, c} : /\ pc'[t] = pc[t] /\ func'[t] = func[t]
                                    /\ operation'[t] = operation[t]
    BY <2>1, Types, PreTypes
  <2>4. preVars' = preVars
    BY <1>3 DEF CreateThread
  <2> QED
    BY <2>2, <2>3, <2>4, ResultsKept
<1>4. ASSUME NEW c \in Callers, WakeContext(c) PROVE PreInv'
  <2>1. PICK w \in Contexts : pc[w] = "ready" /\ operation' = [operation EXCEPT ![w] = c]
    <3>1. readyList \in Seq(Contexts) /\ readyList # <<>>
      BY <1>4 DEF IInv, TypeOK, WakeContext
    <3>2. 1 \in 1..Len(readyList) /\ Head(readyList) = readyList[1] /\ readyList[1] \in Contexts
      BY <3>1
    <3>3. pc[readyList[1]] = "ready"
      BY <3>2 DEF IInv, PoolInv
    <3> QED
      BY <1>4, <3>2, <3>3 DEF WakeContext
  <2>2. UNCHANGED <<pc, func, preVars>>
    BY <1>4 DEF WakeContext
  <2>3. \A t \in Threads \ {w} : operation'[t] = operation[t]
    BY <2>1, Types
  <2> QED
    BY <2>1, <2>2, <2>3, ResultsKept
<1>5. ASSUME NEW c \in Callers, SplitFails(c) PROVE PreInv'
  <2>1. /\ UNCHANGED <<operation, func, preVars>>
        /\ \A t \in Threads : pc'[t] \in {"return", "none", pc[t]}
    BY <1>5 DEF SplitFails
  <2> QED
    BY <2>1, ResultsKept
<1>6. ASSUME NEW c \in Callers, PrimaryCompute(c) PROVE PreInv'
  <2>1. /\ pc'[c] = "func" /\ preVars' = preVars
        /\ \A t \in Threads \ {c} : /\ pc'[t] = pc[t] /\ func'[t] = func[t]
                                    /\ operation'[t] = operation[t]
    BY <1>6, Types, PreTypes DEF PrimaryCompute, StartCompute
  <2> QED
    BY <2>1, ResultsKept
<1>7. ASSUME NEW c \in Callers,
             \/ NoMoreTiles(c) \/ SkipTile(c) \/ ClippedAway(c) \/ NextTile(c)
             \/ TooThin(c) \/ LockForSplit(c) \/ EmptyStrip(c) \/ AppendContext(c)
             \/ SplitDone(c) \/ PrimaryEmpty(c) \/ NothingToJoin(c)
             \/ WaitComplete(c) \/ Joined(c) \/ Relock(c) \/ Return(c)
      PROVE  PreInv'
  <2>1. UNCHANGED <<operation, func, preVars>>
    BY <1>7 DEF NoMoreTiles, SkipTile, ClippedAway, NextTile, TooThin, LockForSplit,
                EmptyStrip, AppendContext, SplitDone, PrimaryEmpty, NothingToJoin,
                WaitComplete, Joined, Relock, Return
  <2>2. \/ pc' = pc
        \/ \E v \in {"relock", "split", "primary", "join", "tiles", "return", "idle"} :
              pc' = [pc EXCEPT ![c] = v]
    BY <1>7 DEF NoMoreTiles, SkipTile, ClippedAway, NextTile, TooThin, LockForSplit,
                EmptyStrip, AppendContext, SplitDone, PrimaryEmpty, NothingToJoin,
                WaitComplete, Joined, Relock, Return
  <2>3. \A t \in Threads : pc'[t] = "pre" => pc[t] = "pre"
    BY <2>2, Types
  <2> QED
    BY <2>1, <2>3, ResultsKept
<1>8. ASSUME NEW t \in Threads,
             \/ SelectFunction(t) \/ ComputeSucceeds(t) \/ ComputeFails(t)
             \/ ResetFails(t) \/ NoFunctionLeft(t) \/ FinishCompute(t) \/ SpuriousWakeup(t)
      PROVE  PreInv'
  <2>1. /\ UNCHANGED <<operation, preVars>>
        /\ \A u \in Threads \ {t} : func'[u] = func[u]
        /\ pc' = pc => func' = func
    BY <1>8, PreTypes, Types DEF SelectFunction, ComputeSucceeds, ComputeFails,
       ResetFails, NoFunctionLeft, FinishCompute, SpuriousWakeup
  <2>2. \/ pc' = pc
        \/ \E v \in {"run", "func", "finish", "join", "retire"} : pc' = [pc EXCEPT ![t] = v]
    BY <1>8 DEF SelectFunction, ComputeSucceeds, ComputeFails, ResetFails,
                NoFunctionLeft, FinishCompute, SpuriousWakeup
  <2>3. \A u \in Threads : pc'[u] = "pre" => pc[u] = "pre" /\ func'[u] = func[u]
    BY <2>1, <2>2, Types
  <2> QED
    BY <2>1, <2>3, ResultsKept
<1>9. ASSUME NEW t \in Threads, CheckFuncData(t) PROVE PreInv'
  <2>1. /\ func[t] \in PreFuncs /\ UNCHANGED <<operation, preVars>>
        /\ \/ preStatus[xilOp[operation[t]]][func[t]] = "none" /\ func' = func
           \/ pc' = [pc EXCEPT ![t] = "run"] /\ func' = func
           \/ pc' = pc /\ pc[t] = "func"
    BY <1>9 DEF CheckFuncData, Op
  <2>2. \A u \in Threads \ {t} : pc'[u] = pc[u] /\ func'[u] = func[u]
    BY <1>9, Types, PreTypes DEF CheckFuncData
  <2>3. pc'[t] = "pre" => func'[t] \in PreFuncs /\ preStatus[xilOp[operation[t]]][func'[t]] = "none"
    BY <2>1, Types
  <2> QED
    BY <2>1, <2>2, <2>3 DEF PreInv, preVars
<1>10. ASSUME NEW t \in Threads, CallPreprocess(t) PROVE PreInv'
  <2>1. /\ operation' = operation
        /\ \E v \in {"run", "func"} : pc' = [pc EXCEPT ![t] = v]
    BY <1>10 DEF CallPreprocess
  <2>2. \A u \in Threads \ {t} : func'[u] = func[u]
    BY <1>10, PreTypes DEF CallPreprocess
  <2>3. pc'[t] # "pre" /\ \A u \in Threads \ {t} : pc'[u] = pc[u]
    BY <2>1, Types
  <2>4. ASSUME NEW u \in Threads \ {t}, pc[u] = "pre"
        PROVE  preStatus'[xilOp'[operation[u]]][func[u]]
                  = preStatus[xilOp[operation[u]]][func[u]]
    <3>1. pc[u] \in ComputePCs /\ func[u] \in PreFuncs
      BY <2>4 DEF ComputePCs, PreInv
    <3>2. pc[t] = "pre"
      BY <1>10 DEF CallPreprocess
    <3>3. xilOp[operation[u]] # xilOp[operation[t]]
      BY <2>4, <3>2, RoutinesApart
    <3>4. xilOp[operation[u]] \in XilOps
      BY <3>1, ComputesForCaller, PreTypes
    <3> QED
      BY <1>10, <3>1, <3>3, <3>4, ResultSet
  <2> QED
    BY <2>1, <2>2, <2>3, <2>4 DEF PreInv
<1>11. ASSUME NEW w \in Contexts, Worker(w) PROVE PreInv'
  <2>1. /\ pc[w] # "pre" /\ preVars' = preVars
        /\ pc' = pc \/ \E v \in {"ready", "func", "exit"} : pc' = [pc EXCEPT ![w] = v]
    BY <1>11 DEF Worker, Retire, WakeUp, StartCompute
  <2>2. \A t \in Threads \ {w} : func'[t] = func[t] /\ operation'[t] = operation[t]
    <3>1. UNCHANGED <<operation, func>> \/ StartCompute(w, Op(w), rows[w])
      BY <1>11 DEF Worker, Retire, WakeUp
    <3> QED
      BY <3>1, Types, PreTypes DEF StartCompute
  <2>3. pc'[w] # "pre" /\ \A t \in Threads \ {w} : pc'[t] = pc[t]
    BY <2>1, Types
  <2> QED
    BY <2>1, <2>2, <2>3, ResultsKept
<1>12. CASE BeginClose \/ Close \/ Closed
  BY <1>12, ResultsKept
  DEF BeginClose, Close, DismissContext, JoinContext, EndClose, Closed, vars
<1> QED
  BY <1>1, <1>2, <1>3, <1>4, <1>5, <1>6, <1>7, <1>8, <1>9, <1>10, <1>11, <1>12
  DEF Next, Execute, StartThreads, Compute

\* The results of an XilOp in use stay.
ResultStays ==
    \A c \in Callers, f \in PreFuncs :
        pc[c] # "idle" /\ preStatus[xilOp[c]][f] # "none"
           => preStatus'[xilOp[c]][f] = preStatus[xilOp[c]][f]

\* No step changes a result.
LEMMA ResultStaysStep == IInv /\ PreInv /\ [Next]_vars => ResultStays
<1> SUFFICES ASSUME IInv, PreInv, [Next]_vars, preVars' # preVars,
                    NEW c \in Callers, NEW f \in PreFuncs,
                    pc[c] # "idle", preStatus[xilOp[c]][f] # "none"
             PROVE  preStatus'[xilOp[c]][f] = preStatus[xilOp[c]][f]
  BY DEF ResultStays, preVars
<1>1. CASE \E d \in Callers : NewOperation(d)
  BY <1>1, NewResults
<1>2. CASE \E t \in Threads : CallPreprocess(t)
  <2>1. xilOp[c] \in XilOps
    BY PreTypes
  <2> QED
    BY <1>2, <2>1, ResultSet
<1> QED
  BY <1>1, <1>2, ResultsChange

\* The preprocess routine of a function is called once for an XilOp that is
\* executed by one execute() at a time.
THEOREM PreprocessOnce == Spec /\ []Apart => PreprocessCalledOnce
<1>1. Init => PreInv
  BY DEF Init, PreInv, Threads
<1>2. PreprocessCalledOnce <=> [][ResultStays]_vars
  BY PTL DEF PreprocessCalledOnce, ResultStays
<1> QED
  BY <1>1, <1>2, PreStep, ResultStaysStep, InvariantHolds, PTL DEF Spec
=============================================================================
