------------------------------ MODULE DagLock ------------------------------
(***************************************************************************)
(* The locks of the library.  Objects that deferred operations connect are *)
(* in one DAG and share its mutex; an object outside of every DAG has a    *)
(* mutex of its own.  The DAG manager's mutex protects who belongs to      *)
(* which DAG: objects and operations hold counted references               *)
(* (XiliDagRef) that lead to the DAG, and merging two DAGs redirects the   *)
(* references of one of them.                                              *)
(*                                                                         *)
(* XilOp::insert() finds or creates the DAG of its objects, merges others  *)
(* into it and works with its mutex locked (setupAndLockDAG()); other      *)
(* calls of the API use lock() and unlock() of one object.                 *)
(*                                                                         *)
(* XilMutex is a default POSIX mutex: it does not know its owner, unlock() *)
(* releases it whoever has locked it, and its owner cannot lock it again.  *)
(* Waiting for a DAG's mutex releases the manager's; every unlockDag()     *)
(* wakes all that wait.                                                    *)
(***************************************************************************)
EXTENDS Integers, Sequences, FiniteSets

CONSTANTS Threads,
          Nobody,    \* owner of an unlocked mutex
          Objects,
          NoObject,
          MaxOps,    \* operations that may be inserted
          MaxLocks,  \* calls of lock()
          MaxDestroyed, \* operations that may be destroyed
          Calls,     \* the operations every thread may insert: their objects
          Locks      \* the objects every thread may lock

Ops == 1..MaxOps
Refs == 1..MaxOps      \* every insertion creates at most one reference,
Dags == 1..MaxOps      \* and its DAG with the same number
NoRef == 0
NoDag == 0

\* The sources of an operation, then its destination
Call == Seq(Objects)

ASSUME LockAssumption ==
    /\ Nobody \notin Threads /\ NoObject \notin Objects
    /\ MaxOps \in Nat /\ MaxLocks \in Nat /\ MaxDestroyed \in Nat
    /\ Calls \in [Threads -> SUBSET Call]
    /\ Locks \in [Threads -> SUBSET Objects]

VARIABLES
    manager,     \* thread that holds managerMutex
    dags,        \* DAGs created so far
    dagOf,       \* the DAG a reference leads to, NoDag: it has been deleted
    refCount,    \* of every reference
    dagMutex,    \* thread that holds the mutex of a DAG
    dagRef, dagRefCnt, oldDagRef,   \* of every object
    objectMutex, \* thread that holds the mutex of an object
    opRef,       \* the reference of every operation in a DAG
    opObjects,   \* the objects it connects, <<>>: it is gone
    inserted, locked,               \* calls so far
    thread       \* what every thread is doing

objVars == <<dagRef, dagRefCnt, oldDagRef>>
refVars == <<dags, dagOf, refCount>>
opVars == <<opRef, opObjects>>
vars == <<manager, refVars, dagMutex, objVars, objectMutex, opVars, inserted,
          locked, thread>>

\* A thread: where it is; its operation with the references sampled of its
\* objects and the one it has chosen; the object whose sample is looked at, or
\* the object it locks; the DAGs it is merging.
Idle == [at |-> "idle", op |-> 0, ref |-> NoRef, samples |-> <<>>, i |-> 1,
         obj |-> NoObject, dag1 |-> NoDag, dag2 |-> NoDag]

At(t, l) == thread[t].at = l
Goto(t, l) == thread' = [thread EXCEPT ![t].at = l]
----------------------------------------------------------------------------
\* Reference counts.  A change is a function that says by how much the count of
\* every reference grows; one that is no longer used is deleted.

Times(r, s) == Cardinality({i \in DOMAIN s : s[i] = r})
Count(change) ==
    /\ refCount' = [r \in Refs |-> refCount[r] + change[r]]
    /\ dagOf' = [r \in Refs |-> IF refCount[r] + change[r] = 0 THEN NoDag ELSE dagOf[r]]

Aquired(s) == [r \in Refs |-> Times(r, s)]
Released(s) == [r \in Refs |-> -Times(r, s)]

\* The references of the objects are sampled, one of them is chosen.
OnlyChosen(samples, ref) == Aquired(<<ref>>)
Sampled(samples, ref) == Aquired(Append(samples, ref))

\* setDagRef(): the first use of a reference
NotCounted == 0
FirstUse == 1

\* setDagRef(NULL) of every object in xs
AnyUse(xs) == xs
LastUse(xs) == {x \in xs : dagRefCnt[x] = 1}
GiveUp(xs) ==
    LET left == LastUse(xs)
    IN /\ dagRefCnt' = [x \in Objects |-> dagRefCnt[x] - IF x \in xs THEN 1 ELSE 0]
       /\ dagRef' = [x \in Objects |-> IF x \in left THEN NoRef ELSE dagRef[x]]
       /\ UNCHANGED oldDagRef
----------------------------------------------------------------------------
\* Locking a DAG: the caller holds the manager's mutex or sleeps until the DAG's
\* is unlocked.  A reference may lead to another DAG when it wakes up.

Has(t) == manager = t
AwakeAnyhow(t) == TRUE
HasAgain(t) == manager \in {t, Nobody}
IsFree(r) == dagMutex[dagOf[r]] = Nobody

\* lockDag() blocks.
Wait(t, r) ==
    /\ Has(t) /\ ~IsFree(r)
    /\ manager' = Nobody
    /\ UNCHANGED <<refVars, dagMutex, objVars, objectMutex, opVars, inserted, locked, thread>>

\* The DAG whose lock is needed next in mergeDAGs(): the lower number first
OwnFirst(t) == TRUE
LowerFirst(t) == thread[t].dag1 < thread[t].dag2
FirstRef(t) == IF LowerFirst(t) THEN thread[t].ref ELSE thread[t].samples[thread[t].i]
SecondRef(t) == IF LowerFirst(t) THEN thread[t].samples[thread[t].i] ELSE thread[t].ref

OnlySecondUnlocked(t) == [dagMutex EXCEPT ![dagOf[SecondRef(t)]] = Nobody]
BothUnlocked(t) == [dagMutex EXCEPT ![dagOf[FirstRef(t)]] = Nobody,
                                    ![dagOf[SecondRef(t)]] = Nobody]

\* The references still lead to the DAGs that are to be merged.
Unmerged(t) == /\ dagOf[thread[t].ref] = thread[t].dag1
               /\ dagOf[thread[t].samples[thread[t].i]] = thread[t].dag2
----------------------------------------------------------------------------
\* XilOp::insert()

\* The references of the objects are sampled and one of them is chosen, or a new
\* DAG is made.
SampleRefs(t, call) ==
    /\ At(t, "idle") /\ manager = Nobody /\ inserted < MaxOps
    /\ LET samples == [i \in DOMAIN call |-> dagRef[call[i]]]
           known == {i \in DOMAIN call : samples[i] # NoRef}
           first == CHOOSE i \in known : \A j \in known : i <= j
           new == dags + 1
           ref == IF known = {} THEN new ELSE samples[first]
           change == Sampled(samples, ref)
           o == inserted + 1
       IN /\ inserted' = o
          /\ manager' = t
          /\ dagRefCnt' = [x \in Objects |-> dagRefCnt[x] + Times(x, call)]
          /\ dags' = IF known = {} THEN new ELSE dags
          /\ refCount' = [r \in Refs |-> refCount[r] + change[r]]
          /\ dagOf' = IF known = {} THEN [dagOf EXCEPT ![new] = new] ELSE dagOf
          /\ opObjects' = [opObjects EXCEPT ![o] = call]
          /\ thread' = [thread EXCEPT ![t] = [Idle EXCEPT !.at = "iterate", !.op = o,
                                                 !.ref = ref, !.samples = samples]]
    /\ UNCHANGED <<dagMutex, dagRef, oldDagRef, objectMutex, opRef, locked>>

\* The loop over the objects: an object without a reference gets one,
SetObjectRef(t) ==
    /\ At(t, "iterate") /\ Has(t)
    /\ LET i == thread[t].i
           x == opObjects[thread[t].op][i]
           old == IF dagRef[x] = NoRef THEN <<>> ELSE <<dagRef[x]>>
           change == [r \in Refs |-> Aquired(<<thread[t].ref>>)[r] + Released(old)[r]]
       IN /\ i <= Len(thread[t].samples) /\ thread[t].samples[i] = NoRef
          /\ Count(change)
          /\ dagRef' = [dagRef EXCEPT ![x] = thread[t].ref]
          /\ dagRefCnt' = [dagRefCnt EXCEPT ![x] = FirstUse]
          /\ thread' = [thread EXCEPT ![t].i = i + 1]
    /\ UNCHANGED <<manager, dags, dagMutex, oldDagRef, objectMutex, opVars, inserted, locked>>

\* another DAG is merged,
BeginMerge(t) ==
    /\ At(t, "iterate") /\ Has(t)
    /\ LET i == thread[t].i
           r == thread[t].samples[i]
       IN /\ i <= Len(thread[t].samples) /\ r # NoRef
          /\ IF dagOf[r] = dagOf[thread[t].ref]
             THEN thread' = [thread EXCEPT ![t].i = i + 1]
             ELSE thread' = [thread EXCEPT ![t].at = "first",
                                ![t].dag1 = dagOf[thread[t].ref], ![t].dag2 = dagOf[r]]
    /\ UNCHANGED <<manager, refVars, dagMutex, objVars, objectMutex, opVars, inserted, locked>>

\* and the DAG is locked.
EndIterate(t) ==
    /\ At(t, "iterate") /\ Has(t) /\ thread[t].i > Len(thread[t].samples)
    /\ Goto(t, "lock")
    /\ UNCHANGED <<manager, refVars, dagMutex, objVars, objectMutex, opVars, inserted, locked>>

\* mergeDAGs(): both DAGs are locked; whenever the thread may have slept the
\* references may have been merged by another one.
LockFirst(t) ==
    /\ At(t, "first") /\ HasAgain(t) /\ IsFree(FirstRef(t))
    /\ manager' = t
    /\ IF Unmerged(t)
       THEN /\ dagMutex' = [dagMutex EXCEPT ![dagOf[FirstRef(t)]] = t]
            /\ Goto(t, "second")
       ELSE /\ thread' = [thread EXCEPT ![t].at = "iterate", ![t].i = 1]
            /\ UNCHANGED dagMutex
    /\ UNCHANGED <<refVars, objVars, objectMutex, opVars, inserted, locked>>

\* The references of the second DAG now lead to the first, unlockDag() of both
\* of them unlocks the first, the second is deleted.
LockSecond(t) ==
    /\ At(t, "second") /\ HasAgain(t) /\ IsFree(SecondRef(t))
    /\ manager' = t
    /\ dagMutex' = BothUnlocked(t)
    /\ dagOf' = IF Unmerged(t)
                THEN [r \in Refs |-> IF dagOf[r] = thread[t].dag2 THEN thread[t].dag1
                                                                  ELSE dagOf[r]]
                ELSE dagOf
    /\ thread' = [thread EXCEPT ![t].at = "iterate", ![t].i = 1]
    /\ UNCHANGED <<dags, refCount, objVars, objectMutex, opVars, inserted, locked>>

\* The samples are released, the caller gets a reference of its own.
LockDag(t) ==
    /\ At(t, "lock") /\ HasAgain(t) /\ IsFree(thread[t].ref)
    /\ LET r == thread[t].ref
           change == [s \in Refs |-> Aquired(<<r>>)[s] + Released(thread[t].samples)[s]]
       IN /\ dagMutex' = [dagMutex EXCEPT ![dagOf[r]] = t]
          /\ Count(change)
          /\ opRef' = [opRef EXCEPT ![thread[t].op] = r]
    /\ manager' = Nobody
    /\ thread' = [thread EXCEPT ![t].at = "insert", ![t].samples = <<>>]
    /\ UNCHANGED <<dags, objVars, objectMutex, opObjects, inserted, locked>>

\* The DAG is unlocked when the operation has been executed or deferred.
EndInsert(t) ==
    /\ At(t, "insert") /\ manager = Nobody
    /\ LET r == thread[t].ref
       IN /\ dagMutex' = [dagMutex EXCEPT ![dagOf[r]] = Nobody]
          /\ Count(Released(<<r>>))
    /\ thread' = [thread EXCEPT ![t] = Idle]
    /\ UNCHANGED <<manager, dags, objVars, objectMutex, opVars, inserted, locked>>

\* Flushing destroys operations of the DAG the thread works in.  The objects no
\* other operation connects leave the DAG.  (The destructor of an operation
\* releases its reference without the manager's mutex; here the change of the
\* counter is one step.)
WorksWith(t) == IF At(t, "insert") THEN thread[t].ref ELSE dagRef[thread[t].obj]
Connects(o, x) == \E i \in DOMAIN opObjects[o] : opObjects[o][i] = x

Destroyed == {o \in 1..inserted : opObjects[o] = <<>>}

DestroyOp(t) ==
    /\ At(t, "insert") \/ At(t, "hold")
    /\ Cardinality(Destroyed) < MaxDestroyed
    /\ manager = Nobody
    /\ \E o \in Ops :
        /\ WorksWith(t) # NoRef /\ opRef[o] # NoRef
        /\ dagOf[opRef[o]] = dagOf[WorksWith(t)]
        /\ LET left == {x \in Objects : /\ Connects(o, x)
                                       /\ \A p \in Ops \ {o} : Connects(p, x) => opRef[p] = NoRef}
               gone == LastUse(left)
               change == [r \in Refs |-> -Cardinality({x \in gone : dagRef[x] = r})
                                         + Released(<<opRef[o]>>)[r]]
           IN /\ GiveUp(left)
              /\ Count(change)
        /\ opRef' = [opRef EXCEPT ![o] = NoRef]
        /\ opObjects' = [opObjects EXCEPT ![o] = <<>>]
    /\ UNCHANGED <<manager, dags, dagMutex, objectMutex, inserted, locked, thread>>
----------------------------------------------------------------------------
\* XilObject::lock() and unlock()

LockObject(t, x) ==
    /\ At(t, "idle") /\ manager = Nobody /\ locked < MaxLocks
    /\ locked' = locked + 1
    /\ IF dagRef[x] = NoRef
       THEN /\ thread' = [thread EXCEPT ![t] = [Idle EXCEPT !.at = "mutex", !.obj = x]]
            /\ UNCHANGED <<manager, dagOf, refCount>>
       ELSE /\ manager' = t
            /\ Count(Aquired(<<dagRef[x]>>))
            /\ thread' = [thread EXCEPT ![t] = [Idle EXCEPT !.at = "dag", !.obj = x,
                                                           !.ref = dagRef[x]]]
    /\ UNCHANGED <<dags, dagMutex, objVars, objectMutex, opVars, inserted>>

\* The DAG is locked; the object may have left it, or be in another one.
LockObjectDag(t) ==
    /\ At(t, "dag") /\ HasAgain(t) /\ IsFree(thread[t].ref)
    /\ LET x == thread[t].obj
           r == thread[t].ref
       IN IF dagRef[x] = NoRef
          THEN /\ manager' = t
               /\ dagMutex' = [dagMutex EXCEPT ![dagOf[r]] = t]
               /\ Goto(t, "inside")
               /\ UNCHANGED <<dagOf, refCount, oldDagRef>>
          ELSE IF dagOf[dagRef[x]] # dagOf[r]
          THEN /\ manager' = t
               /\ Count([s \in Refs |-> Aquired(<<dagRef[x]>>)[s] + Released(<<r>>)[s]])
               /\ thread' = [thread EXCEPT ![t].ref = dagRef[x]]
               /\ UNCHANGED <<dagMutex, oldDagRef>>
          ELSE /\ manager' = Nobody
               /\ dagMutex' = [dagMutex EXCEPT ![dagOf[r]] = t]
               /\ oldDagRef' = [oldDagRef EXCEPT ![x] = r]
               /\ Goto(t, "hold")
               /\ UNCHANGED <<dagOf, refCount>>
    /\ UNCHANGED <<dags, dagRef, dagRefCnt, objectMutex, opVars, inserted, locked>>

\* The object's own mutex is locked, while the manager's and the DAG's are held,
LockMutexInside(t) ==
    /\ At(t, "inside") /\ objectMutex[thread[t].obj] = Nobody
    /\ objectMutex' = [objectMutex EXCEPT ![thread[t].obj] = t]
    /\ dagMutex' = [dagMutex EXCEPT ![dagOf[thread[t].ref]] = Nobody]
    /\ Count(Released(<<thread[t].ref>>))
    /\ manager' = Nobody
    /\ Goto(t, "hold")
    /\ UNCHANGED <<dags, objVars, opVars, inserted, locked>>

\* or without any other.
LockMutex(t) ==
    /\ At(t, "mutex") /\ objectMutex[thread[t].obj] = Nobody
    /\ objectMutex' = [objectMutex EXCEPT ![thread[t].obj] = t]
    /\ Goto(t, "hold")
    /\ UNCHANGED <<manager, refVars, dagMutex, objVars, opVars, inserted, locked>>

\* unlock() unlocks whatever lock() could have locked.
UnlockDag(t) ==
    /\ At(t, "hold") /\ manager = Nobody
    /\ LET x == thread[t].obj
           refs == {dagRef[x], oldDagRef[x]} \ {NoRef}
           old == IF oldDagRef[x] = NoRef THEN <<>> ELSE <<oldDagRef[x]>>
       IN /\ dagMutex' = [d \in Dags |-> IF \E r \in refs : dagOf[r] = d THEN Nobody
                                                                        ELSE dagMutex[d]]
          /\ Count(Released(old))
          /\ oldDagRef' = [oldDagRef EXCEPT ![x] = NoRef]
    /\ Goto(t, "unlock")
    /\ UNCHANGED <<manager, dags, dagRef, dagRefCnt, objectMutex, opVars, inserted, locked>>

UnlockMutex(t) ==
    /\ At(t, "unlock")
    /\ objectMutex' = [objectMutex EXCEPT ![thread[t].obj] = Nobody]
    /\ thread' = [thread EXCEPT ![t] = Idle]
    /\ UNCHANGED <<manager, refVars, dagMutex, objVars, opVars, inserted, locked>>
----------------------------------------------------------------------------
Init ==
    /\ manager = Nobody
    /\ dags = 0
    /\ dagOf = [r \in Refs |-> NoDag]
    /\ refCount = [r \in Refs |-> 0]
    /\ dagMutex = [d \in Dags |-> Nobody]
    /\ dagRef = [x \in Objects |-> NoRef]
    /\ dagRefCnt = [x \in Objects |-> 0]
    /\ oldDagRef = [x \in Objects |-> NoRef]
    /\ objectMutex = [x \in Objects |-> Nobody]
    /\ opRef = [o \in Ops |-> NoRef]
    /\ opObjects = [o \in Ops |-> <<>>]
    /\ inserted = 0 /\ locked = 0
    /\ thread = [t \in Threads |-> Idle]

Sleep(t) == \/ At(t, "first") /\ Wait(t, FirstRef(t))
            \/ At(t, "second") /\ Wait(t, SecondRef(t))
            \/ (At(t, "lock") \/ At(t, "dag")) /\ Wait(t, thread[t].ref)

\* A call goes on.
Step(t) ==
    \/ SetObjectRef(t) \/ BeginMerge(t) \/ EndIterate(t) \/ Sleep(t)
    \/ LockFirst(t) \/ LockSecond(t) \/ LockDag(t) \/ EndInsert(t)
    \/ LockObjectDag(t) \/ LockMutexInside(t) \/ LockMutex(t)
    \/ UnlockDag(t) \/ UnlockMutex(t)

Next == \E t \in Threads :
            \/ Step(t) \/ DestroyOp(t)
            \/ \E call \in Calls[t] : SampleRefs(t, call)
            \/ \E x \in Locks[t] : LockObject(t, x)

Spec == Init /\ [][Next]_vars
FairSpec == Spec /\ \A t \in Threads : WF_vars(Step(t))
----------------------------------------------------------------------------
\* The variables have the values the declarations say.
TypeOK ==
    /\ manager \in Threads \cup {Nobody}
    /\ dags \in 0..MaxOps
    /\ dagOf \in [Refs -> Dags \cup {NoDag}]
    /\ refCount \in [Refs -> Nat]
    /\ dagMutex \in [Dags -> Threads \cup {Nobody}]
    /\ dagRef \in [Objects -> Refs \cup {NoRef}]
    /\ dagRefCnt \in [Objects -> Nat]
    /\ oldDagRef \in [Objects -> Refs \cup {NoRef}]
    /\ objectMutex \in [Objects -> Threads \cup {Nobody}]
    /\ opRef \in [Ops -> Refs \cup {NoRef}]
    /\ opObjects \in [Ops -> Seq(Objects)]
    /\ inserted \in 0..MaxOps /\ locked \in 0..MaxLocks

\* The objects a thread works on: those of the operation it inserts, or the one
\* it has locked.
Using(t) == IF At(t, "insert") THEN {x \in Objects : Connects(thread[t].op, x)}
            ELSE IF At(t, "hold") THEN {thread[t].obj} ELSE {}

\* No two threads work on the same object.
MutualExclusion ==
    \A t, u \in Threads : t # u => Using(t) \cap Using(u) = {}

\* While a thread walks the objects of its operation, or waits for an object's
\* mutex with a DAG locked, it holds the manager's mutex, though merging and
\* locking give it up: nobody else changes a reference meanwhile.
WalksAlone ==
    \A t \in Threads : At(t, "iterate") \/ At(t, "inside") => manager = t

\* The objects of an operation are in its DAG, and that one is locked while the
\* thread inserts it.
InsertsIntoDag ==
    \A t \in Threads : At(t, "insert") =>
        /\ dagMutex[dagOf[thread[t].ref]] = t
        /\ \A x \in Using(t) : dagRef[x] # NoRef /\ dagOf[dagRef[x]] = dagOf[thread[t].ref]

\* Who holds a reference
Holders(r) ==
    {<<"object", x>> : x \in {y \in Objects : dagRef[y] = r}}
    \cup {<<"locked", x>> : x \in {y \in Objects : oldDagRef[y] = r}}
    \cup {<<"operation", o>> : o \in {p \in Ops : opRef[p] = r}}
    \cup {<<"thread", t>> : t \in {u \in Threads : /\ thread[u].ref = r
                                                  /\ thread[u].at \notin {"hold", "unlock"}}}
    \cup UNION {{<<"sample", t, i>> : i \in {j \in DOMAIN thread[t].samples :
                                                thread[t].samples[j] = r}} : t \in Threads}

\* A reference counts those that hold it: it is not deleted under any of them and
\* none is left when they have gone.
RefCountsExact == \A r \in Refs : refCount[r] = Cardinality(Holders(r))

\* A mutex that is held is held by a thread that is on its way to unlock it: the
\* manager's,
ManagerWillBeFree ==
    \A t \in Threads : manager = t =>
        thread[t].at \in {"iterate", "first", "second", "lock", "dag", "inside"}

\* that of a DAG, whatever was merged or has left it since,
DagsWillBeFree ==
    \A d \in Dags : dagMutex[d] # Nobody =>
        LET t == dagMutex[d]
        IN \/ At(t, "insert") /\ dagOf[thread[t].ref] = d
           \/ At(t, "second") /\ dagOf[FirstRef(t)] = d
           \/ At(t, "inside") /\ dagOf[thread[t].ref] = d
           \/ /\ At(t, "hold")
              /\ \E r \in {dagRef[thread[t].obj], oldDagRef[thread[t].obj]} \ {NoRef} :
                    dagOf[r] = d

\* and that of an object, whatever DAG the object is in by then.
ObjectsWillBeFree ==
    \A x \in Objects : objectMutex[x] # Nobody =>
        LET t == objectMutex[x]
        IN thread[t].obj = x /\ (At(t, "hold") \/ At(t, "unlock"))

\* No lock is leaked.
NoLockLeaked == ManagerWillBeFree /\ DagsWillBeFree /\ ObjectsWillBeFree

\* No two threads wait for each other's DAG.
NoLockCycle ==
    \A t, u \in Threads :
        ~ (/\ t # u /\ At(t, "second") /\ At(u, "second")
           /\ dagMutex[dagOf[SecondRef(t)]] = u
           /\ dagMutex[dagOf[SecondRef(u)]] = t)

\* Every call ends: no thread waits for a lock nobody unlocks.
CallsEnd == \A t \in Threads : ~At(t, "idle") ~> At(t, "idle")
============================================================================
