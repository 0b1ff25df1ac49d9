------------------------------ MODULE OpQueue ------------------------------
(***************************************************************************)
(* The operation queues that connect deferrable objects and operations:    *)
(* every object keeps a ring of entries, one for each instance of its      *)
(* contents, with the operation that writes the instance (its creator) and *)
(* the operations that read it (its dependents).  XilOp::execute() inserts *)
(* operations, flushing brings instances up to date in an order the rings  *)
(* decide, and the destructor of an operation takes the rings apart.       *)
(*                                                                         *)
(* One thread works on a DAG at a time, so the calls run to completion one *)
(* after the other; they call each other recursively while the rings       *)
(* change, which the explicit stack of calls shows.                        *)
(*                                                                         *)
(* Abstractions: an object is one tile and is flushed as a whole, a        *)
(* molecule is one operation; child images, I/O devices and operations     *)
(* that may not be deferred for other reasons than "flush" are left out.   *)
(***************************************************************************)
EXTENDS Integers, Sequences, FiniteSets

CONSTANTS Objects,      \* deferrable objects
          NoObject,     \* NULL
          MaxOps,       \* operations the application may insert
          MaxLength,    \* _XILI_MAX_OPQUEUE_LENGTH
          MaxDependents,\* operations that may depend on one entry
          Calls,        \* the operations the application inserts, see Call
          Requests,     \* what else it asks for: "sync", "toss", "destroy"
          Temps,        \* temporary objects: written once, read once
          Borrowed,     \* images whose storage belongs to the application
          MayFail       \* compute routines may fail

Ops == 1..MaxOps
NoOp == 0
Positions == 0..MaxLength-1
InvalidPosition == MaxLength

\* What the application asks for: sources, destination, whether the operation
\* covers what earlier operations wrote there (thisOpCoversPreviousOp()) and
\* whether it has to be flushed at once (must_flush).
Call == [src : Seq(Objects), dst : Objects, covers : BOOLEAN, flush : BOOLEAN]

ASSUME QueueAssumption ==
    /\ NoObject \notin Objects
    /\ MaxOps \in Nat
    /\ MaxLength \in Nat /\ MaxLength > 1
    /\ MaxDependents \in Nat
    /\ Calls \subseteq Call
    /\ Requests \subseteq {"sync", "toss", "destroy"}
    /\ Temps \subseteq Objects /\ Borrowed \subseteq Objects
    /\ MayFail \in BOOLEAN

VARIABLES
    q,          \* the ring of every object
    ops,        \* the operations
    inserted,   \* operations inserted so far
    stack,      \* calls in progress, the innermost first
    result,     \* status of the flush that returned last
    dagRefCnt,  \* uses of the object's DAG reference, 0: it has none
    destroyed,  \* objects the application has destroyed
    whenUnused, \* deleteWhenNoDependents
    deleted,    \* objects that have been deleted
    content,    \* history: the operation whose result every object holds
    lost,       \* history: operations without a result, some operation failed
    wanted,     \* history: what every object would hold without deferral
    shown       \* what the last xil_sync() made visible

objVars == <<dagRefCnt, destroyed, whenUnused, deleted>>
history == <<content, lost, wanted, shown>>
vars == <<q, ops, inserted, stack, result, objVars, history>>

\* Contents: an operation number, 0 for what an object holds at first, or
Unknown == 0-1   \* nothing the application may rely on
Spoiled == 0-2   \* computed from something else than it should have been
Contents == Ops \cup {0, Unknown, Spoiled}

Entry == [op : Ops \cup {NoOp}, deps : Seq(Ops), tossed : BOOLEAN,
          status : {"deferred", "executing", "evaluated"}]
Ring == [data : [Positions -> Entry], head : Positions, tail : Positions,
         length : 0..MaxLength]

Op == [state : {"new", "live", "deleted"}, covers : BOOLEAN, flush : BOOLEAN,
       src : Seq(Objects \cup {NoObject}), srcPos : Seq(Positions),
       srcOp : Seq(Ops \cup {NoOp}),
       dst : Objects \cup {NoObject}, dstPos : Positions \cup {InvalidPosition},
       refCount : Nat, evaluated : BOOLEAN, deleteMe : BOOLEAN,
       reads : Seq(Contents), over : Contents]

NewOp == [state |-> "new", covers |-> FALSE, flush |-> FALSE, src |-> <<>>,
          srcPos |-> <<>>, srcOp |-> <<>>, dst |-> NoObject,
          dstPos |-> InvalidPosition, refCount |-> 0, evaluated |-> FALSE,
          deleteMe |-> TRUE, reads |-> <<>>, over |-> Unknown]

\* The points a call in progress may be at: executing an operation; synchronizing
\* its destination; deleting an operation; inserting one; and calls that are about
\* an object only.
Executing == {"read", "write", "compute", "abandon", "abandoned", "computed"}
Syncing == {"entries", "creator", "next", "evaluate", "evaluated"}
Deletes == {"sources", "destination"}
Inserting == {"toss", "queue", "head", "last"}
Resting == {"dependents", "allDependents", "synced", "destroyed", "delete"}
Points == Executing \cup Syncing \cup Deletes \cup Inserting \cup Resting
              \cup {"flush", "flushed"}

\* A call in progress: where it is, the operation and the object it works on,
\* and its loop variables.
Frame == [at : Points, op : Ops \cup {NoOp}, obj : Objects \cup {NoObject},
          pos : Positions \cup {InvalidPosition}, i : Nat,
          dependent : Ops \cup {NoOp}, failed : BOOLEAN]
----------------------------------------------------------------------------
\* The ring (XilDeferrableObjectPrivate.hh)

BlankEntry == [op |-> NoOp, deps |-> <<>>, tossed |-> FALSE, status |-> "deferred"]
EmptyRing == [data |-> [p \in Positions |-> BlankEntry], head |-> 0, tail |-> 0,
              length |-> 0]

SuccUnwrapped(p) == p + 1
Succ(p) == IF p = MaxLength - 1 THEN 0 ELSE p + 1
Pred(p) == IF p = 0 THEN MaxLength - 1 ELSE p - 1

\* The first entry of an empty ring goes where the tail points to; a variant
\* moves the tail for it as for every other one.
AlwaysNext(r) == Succ(r.tail)
NewTail(r) == IF r.length = 0 THEN r.tail ELSE Succ(r.tail)
NewEntry(r) == [r EXCEPT !.tail = NewTail(r), !.length = @ + 1,
                         !.data[NewTail(r)] = BlankEntry]

\* An entry in the middle of the ring stays where it is.
RemoveTail(r, p) ==
    IF r.length > 0 /\ p = r.tail /\ p # r.head
    THEN [r EXCEPT !.tail = Pred(p), !.length = @ - 1] ELSE r
Remove(r, p) ==
    IF r.length = 0 THEN r
    ELSE IF p = r.head
    THEN [r EXCEPT !.head = IF p = r.tail THEN p ELSE Succ(p), !.length = @ - 1]
    ELSE IF p = r.tail THEN [r EXCEPT !.tail = Pred(p), !.length = @ - 1]
    ELSE r

qHead(r) == IF r.length = 0 THEN InvalidPosition ELSE r.head
qTail(r) == IF r.length = 0 THEN InvalidPosition ELSE r.tail
qNext(r, p) == IF p = r.tail THEN InvalidPosition ELSE Succ(p)

\* The positions of the queue
Queued(r) == {p \in Positions :
                 \E k \in 0..r.length-1 : p = (r.head + k) % MaxLength}

EntryOf(x, p) == q[x].data[p]
Creator(x) == IF q[x].length = 0 THEN NoOp ELSE EntryOf(x, q[x].tail).op
----------------------------------------------------------------------------
\* The stack of calls

Top == Head(stack)
At(l) == stack # <<>> /\ Top.at = l
Below == Tail(stack)

CallOf(l, o, x, p) == [at |-> l, op |-> o, obj |-> x, pos |-> p, i |-> 1,
                       dependent |-> NoOp, failed |-> FALSE]
Flush(o) == CallOf("flush", o, NoObject, InvalidPosition)
Delete(o) == CallOf("sources", o, NoObject, InvalidPosition)

\* The innermost call goes on as f; makes a call and goes on as f afterwards;
\* returns; returns a status.
Continue(f) == stack' = <<f>> \o Below
CallAndContinue(callee, f) == stack' = <<callee, f>> \o Below
Pop == stack' = Below
Return(status) == Pop /\ result' = status
----------------------------------------------------------------------------
\* Operations: destroy(), cleanupReferences(), the destructor

\* cleanupReferences(XilOp* )
NotCleared(s, a) == s
ClearedOf(s, a) == [i \in DOMAIN s |-> IF s[i] = a THEN NoOp ELSE s[i]]
\* cleanupReferences(XilDeferrableObject* )
WithoutObject(op, x) ==
    [op EXCEPT !.src = [i \in DOMAIN op.src |-> IF op.src[i] = x THEN NoObject
                                                ELSE op.src[i]],
               !.dst = IF @ = x THEN NoObject ELSE @]

\* destroy() deletes an operation nobody holds; it is evaluated in any case.
IsDeletedBy(o) == ops[o].deleteMe /\ ops[o].refCount = 0

\* The entry at p of x is removed on behalf of a.  An object without entries is
\* forgotten by a, gives up one use of its DAG reference and perhaps is deleted.
RemoveEntry(x, p, r, a, newOps) ==
    /\ q' = [q EXCEPT ![x] = Remove(r, p)]
    /\ IF Remove(r, p).length = 0
       THEN /\ ops' = [newOps EXCEPT ![a] = WithoutObject(@, x)]
            /\ dagRefCnt' = [dagRefCnt EXCEPT ![x] = @ - 1]
            /\ deleted' = IF x \in whenUnused THEN deleted \cup {x} ELSE deleted
       ELSE /\ ops' = newOps
            /\ UNCHANGED <<dagRefCnt, deleted>>

\* cleanupDependents(): the list without a, packed
Without(s, a) ==
    LET left == {i \in DOMAIN s : s[i] # a}
        Nth(k) == CHOOSE i \in left : Cardinality({j \in left : j <= i}) = k
    IN [k \in 1..Cardinality(left) |-> s[Nth(k)]]

\* cleanup(): operation a no longer depends on the entry at p of x.
Cleanup(x, p, a, next) ==
    LET e == EntryOf(x, p)
        left == Without(e.deps, a)
        c == e.op
        r == [q[x] EXCEPT !.data[p].deps = left]
    IN \/ \* nobody will read what the creator writes
          /\ left = <<>> /\ c # NoOp
          /\ p # qTail(q[x]) \/ e.tossed \/ ops[c].evaluated
          /\ q' = [q EXCEPT ![x] = r]
          /\ ops' = [ops EXCEPT ![a].srcOp = ClearedOf(@, c), ![c].evaluated = TRUE]
          /\ IF IsDeletedBy(c) THEN CallAndContinue(Delete(c), next)
                               ELSE Continue(next)
          /\ UNCHANGED <<dagRefCnt, deleted>>
       \/ /\ left = <<>> /\ c = NoOp
          /\ RemoveEntry(x, p, r, a, ops)
          /\ Continue(next)
       \/ /\ \/ left # <<>>
             \/ c # NoOp /\ p = qTail(q[x]) /\ ~e.tossed /\ ~ops[c].evaluated
          /\ q' = [q EXCEPT ![x] = r]
          /\ Continue(next)
          /\ UNCHANGED <<ops, dagRefCnt, deleted>>

DeleteSource ==
    /\ At("sources")
    /\ LET a == Top.op
           i == Top.i
           next == [Top EXCEPT !.i = @ + 1]
       IN \/ /\ i <= Len(ops[a].src) /\ ops[a].src[i] # NoObject
             /\ Cleanup(ops[a].src[i], ops[a].srcPos[i], a, next)
          \/ /\ i <= Len(ops[a].src) /\ ops[a].src[i] = NoObject
             /\ Continue(next)
             /\ UNCHANGED <<q, ops, dagRefCnt, deleted>>
          \/ /\ i > Len(ops[a].src)
             /\ Continue([Top EXCEPT !.at = "destination"])
             /\ UNCHANGED <<q, ops, dagRefCnt, deleted>>
    /\ UNCHANGED <<inserted, result, destroyed, whenUnused, history>>

\* creatorCleanup(), and the operation is gone.
DeleteDestination ==
    /\ At("destination")
    /\ LET a == Top.op
           x == ops[a].dst
           p == ops[a].dstPos
           e == EntryOf(x, p)
           gone == [ops EXCEPT ![a] = [NewOp EXCEPT !.state = "deleted"]]
       IN IF x # NoObject /\ p # InvalidPosition
          THEN LET r == [q[x] EXCEPT !.data[p].op = IF @ = a THEN NoOp ELSE @]
                   cleared == [o \in Ops |->
                       IF \E i \in DOMAIN e.deps : e.deps[i] = o
                       THEN [gone[o] EXCEPT !.srcOp = ClearedOf(@, a)]
                       ELSE gone[o]]
               IN IF e.deps = <<>> /\ e.op \in {a, NoOp}
                  THEN RemoveEntry(x, p, r, a, cleared)
                  ELSE /\ q' = [q EXCEPT ![x] = r]
                       /\ ops' = cleared
                       /\ UNCHANGED <<dagRefCnt, deleted>>
          ELSE /\ ops' = gone
               /\ UNCHANGED <<q, dagRefCnt, deleted>>
    /\ Pop
    /\ UNCHANGED <<inserted, result, destroyed, whenUnused, history>>
----------------------------------------------------------------------------
\* Flushing

SetStatus(x, p, status) ==
    q' = [q EXCEPT ![x].data[p].status = IF @ = "evaluated" THEN @ ELSE status]

\* flush(): nothing to do, or the operation is marked and its sources are read.
\* (A tile that is being executed puts the thread to sleep: no step.)
StartFlush ==
    /\ At("flush")
    /\ LET o == Top.op
           status == EntryOf(ops[o].dst, ops[o].dstPos).status
       IN \/ /\ status = "evaluated"
             /\ Return("success")
             /\ UNCHANGED <<q, ops>>
          \/ /\ status = "deferred"
             /\ SetStatus(ops[o].dst, ops[o].dstPos, "executing")
             /\ ops' = [ops EXCEPT ![o].refCount = @ + 1]
             /\ Continue([Top EXCEPT !.at = "read"])
             /\ result' = "success"
    /\ UNCHANGED <<inserted, objVars, history>>

\* The operation that writes what operation o reads from its source i
LastCreator(o, i) == Creator(ops[o].src[i])
SourceCreator(o, i) == EntryOf(ops[o].src[i], ops[o].srcPos[i]).op

\* The compute routine gets the storage of its sources (syncForReading()).
ReadSource ==
    /\ At("read")
    /\ LET o == Top.op
           i == Top.i
           next == [Top EXCEPT !.i = @ + 1]
           c == SourceCreator(o, i)
       IN IF result = "failure" THEN Continue([Top EXCEPT !.at = "abandon"])
          ELSE IF i > Len(ops[o].src) THEN Continue([Top EXCEPT !.at = "write"])
          ELSE IF c \in {NoOp, o} THEN Continue(next)
          ELSE CallAndContinue(Flush(c), next)
    /\ UNCHANGED <<q, ops, inserted, result, objVars, history>>

SyncOwnEntry(o) == CallOf("entries", o, ops[o].dst, ops[o].dstPos)
SyncForWriting(o) ==
    CallOf("entries", o, ops[o].dst, qHead(q[ops[o].dst]))

\* It gets the storage of its destination, or the operation is given up and
\* what has to happen before it is flushed nevertheless.
WriteDestination ==
    /\ \/ At("write") /\ CallAndContinue(SyncForWriting(Top.op), [Top EXCEPT !.at = "compute"])
       \/ At("abandon") /\ CallAndContinue(SyncForWriting(Top.op), [Top EXCEPT !.at = "abandoned"])
    /\ result' = "success"
    /\ UNCHANGED <<q, ops, inserted, objVars, history>>

\* The sources hold the instances the operation was inserted for, and so does
\* what it leaves of its destination.
ReadsItsInstances(o) ==
    /\ \A i \in DOMAIN ops[o].src :
          ops[o].reads[i] \in {Unknown, content[ops[o].src[i]]} \cup lost
    /\ ops[o].over \in {Unknown, content[ops[o].dst]} \cup lost

\* It depends on an operation without a result.
ReadsLost(o) == \/ \E i \in DOMAIN ops[o].reads : ops[o].reads[i] \in lost
                \/ ops[o].over \in lost

Compute ==
    /\ At("compute")
    /\ LET o == Top.op
           x == ops[o].dst
       IN \/ /\ result = "success"
             /\ content' = [content EXCEPT ![x] = IF ReadsItsInstances(o) THEN o
                                                  ELSE Spoiled]
             /\ lost' = IF ReadsLost(o) THEN lost \cup {o} ELSE lost
             /\ Continue([Top EXCEPT !.at = "computed"])
          \/ /\ result = "failure" \/ MayFail
             /\ Continue([Top EXCEPT !.at = "abandon"])
             /\ UNCHANGED <<content, lost>>
    /\ UNCHANGED <<q, ops, inserted, result, objVars, wanted, shown>>

\* release(): the last reference deletes an operation that may be deleted.
LastReference(o) == ops[o].refCount = 1
ReleaseDeletes(o) == ops[o].refCount = 1 /\ ops[o].deleteMe

\* The end of flush(): the tiles are evaluated, and so is the operation; the
\* last reference deletes it.
FinishFlush ==
    /\ At("computed") \/ At("abandoned")
    /\ LET o == Top.op
       IN /\ SetStatus(ops[o].dst, ops[o].dstPos, "evaluated")
          /\ ops' = [ops EXCEPT ![o].refCount = @ - 1, ![o].evaluated = TRUE]
          /\ IF ReleaseDeletes(o) THEN Continue(Delete(o)) ELSE Pop
    /\ result' = IF At("computed") THEN "success" ELSE "failure"
    /\ lost' = IF At("computed") THEN lost ELSE lost \cup {Top.op}
    /\ UNCHANGED <<inserted, objVars, content, wanted, shown>>

EndOfRing(o, p) == p = InvalidPosition
EndOfEntries(o, p) == p \in {ops[o].dstPos, InvalidPosition}

\* syncForWriting(): every entry in front of the operation's own is evaluated
\* and its creator flushed.
NextEntry ==
    /\ At("entries")
    /\ IF EndOfEntries(Top.op, Top.pos)
       THEN Return(IF Top.failed THEN "failure" ELSE "success")
       ELSE /\ CallAndContinue(CallOf("evaluate", Top.op, Top.obj, Top.pos),
                               [Top EXCEPT !.at = "creator"])
            /\ result' = "success"
    /\ UNCHANGED <<q, ops, inserted, objVars, history>>

FlushCreator ==
    /\ At("creator")
    /\ LET c == EntryOf(Top.obj, Top.pos).op
           next == [Top EXCEPT !.at = "next"]
       IN IF result = "failure" THEN Return("failure")
          ELSE /\ IF c \in {NoOp, Top.op} THEN Continue(next)
                                          ELSE CallAndContinue(Flush(c), next)
               /\ UNCHANGED result
    /\ UNCHANGED <<q, ops, inserted, objVars, history>>

AdvanceEntry ==
    /\ At("next")
    /\ Continue([Top EXCEPT !.at = "entries", !.pos = qNext(q[Top.obj], Top.pos),
                            !.failed = @ \/ result = "failure"])
    /\ UNCHANGED <<q, ops, inserted, result, objVars, history>>

\* XiliOpQueueEntry::evaluate(): the dependents of an entry are flushed, except
\* the operation that asks for it.  A flushed dependent leaves the list.
Evaluate ==
    /\ At("evaluate")
    /\ LET deps == EntryOf(Top.obj, Top.pos).deps
           d == deps[Top.i]
       IN IF Top.i > Len(deps) THEN Return(IF Top.failed THEN "failure" ELSE "success")
          ELSE /\ IF d = Top.op
                  THEN Continue([Top EXCEPT !.i = @ + 1])
                  ELSE CallAndContinue(Flush(d), [Top EXCEPT !.at = "evaluated",
                                                             !.dependent = d])
               /\ UNCHANGED result
    /\ UNCHANGED <<q, ops, inserted, objVars, history>>

\* A dependent that could not be flushed is destroyed.
Evaluated ==
    /\ At("evaluated")
    /\ LET d == Top.dependent
           next == [Top EXCEPT !.at = "evaluate", !.i = @ + 1, !.dependent = NoOp,
                               !.failed = @ \/ result = "failure"]
       IN IF result = "failure"
          THEN /\ ops' = [ops EXCEPT ![d].evaluated = TRUE]
               /\ IF IsDeletedBy(d) THEN CallAndContinue(Delete(d), next)
                                    ELSE Continue(next)
          ELSE Continue(next) /\ UNCHANGED ops
    /\ UNCHANGED <<q, inserted, result, objVars, history>>

\* XiliOpQueueEntry::flushDependents()
FlushDependents ==
    /\ At("dependents")
    /\ LET deps == EntryOf(Top.obj, Top.pos).deps
       IN IF Top.i > Len(deps) THEN Pop
          ELSE CallAndContinue(Flush(deps[Top.i]), [Top EXCEPT !.i = @ + 1])
    /\ UNCHANGED <<q, ops, inserted, result, objVars, history>>
----------------------------------------------------------------------------
\* The calls of the application

\* Objects the application may still use
Usable(x) == x \notin destroyed

Uses(call, x) == Cardinality({i \in DOMAIN call.src : call.src[i] = x})

\* addDependent(): once for every use, on the last entry or on a new one.
AddDependents(r, o, n) ==
    LET with == IF r.length = 0 THEN NewEntry(r) ELSE r
    IN IF n = 0 THEN r
       ELSE [with EXCEPT !.data[with.tail].deps = @ \o [k \in 1..n |-> o]]

\* The DAG references of x after setupAndLockDAG(): the first one comes with the
\* DAG, every other use of the object gets its own.
OneReference(call, x) ==
    IF x = call.dst \/ Uses(call, x) > 0 THEN 1 ELSE dagRefCnt[x]
References(call, x) ==
    IF dagRefCnt[x] = 0 /\ (x = call.dst \/ Uses(call, x) > 0) THEN 1
    ELSE dagRefCnt[x] + Uses(call, x) + IF x = call.dst THEN 1 ELSE 0

\* The beginning of XilOp::execute(), and the DAG references setupAndLockDAG()
\* has counted before.
Insert(call) ==
    /\ stack = <<>> /\ inserted < MaxOps
    /\ \A i \in DOMAIN call.src : Usable(call.src[i])
    /\ Usable(call.dst)
    /\ \A i \in DOMAIN call.src :
          q[call.src[i]].length > 0 =>
              Len(EntryOf(call.src[i], q[call.src[i]].tail).deps) + Uses(call, call.src[i])
                  <= MaxDependents
    /\ LET o == inserted + 1
           sources == {call.src[i] : i \in DOMAIN call.src}
           temps == sources \cap Temps
           queues == [x \in Objects |-> AddDependents(q[x], o, Uses(call, x))]
       IN /\ inserted' = o
          /\ q' = queues
          /\ ops' = [ops EXCEPT ![o] =
                [state |-> "live", covers |-> call.covers, flush |-> call.flush,
                 src |-> call.src,
                 srcPos |-> [i \in DOMAIN call.src |-> queues[call.src[i]].tail],
                 srcOp |-> [i \in DOMAIN call.src |-> Creator(call.src[i])],
                 dst |-> call.dst, dstPos |-> InvalidPosition,
                 refCount |-> 0, evaluated |-> FALSE, deleteMe |-> TRUE,
                 reads |-> [i \in DOMAIN call.src |-> wanted[call.src[i]]],
                 over |-> IF call.covers THEN Unknown ELSE wanted[call.dst]]]
          /\ dagRefCnt' = [x \in Objects |-> References(call, x)]
          /\ destroyed' = destroyed \cup temps
          /\ whenUnused' = whenUnused \cup temps
          /\ wanted' = [wanted EXCEPT ![call.dst] = o]
          /\ stack' = <<CallOf("toss", o, call.dst, InvalidPosition)>>
    /\ UNCHANGED <<result, deleted, content, lost, shown>>

\* Results nobody can ask for any more: tossIfNoDependents()
CanTossInUse(x) == q[x].length > 0
CanToss(x) == q[x].length > 0 /\ EntryOf(x, q[x].tail).deps = <<>>

\* The tail of x is tossed, and then next.
Toss(x, next) ==
    LET c == Creator(x)
        p == q[x].tail
    IN IF c = NoOp
       THEN /\ q' = [q EXCEPT ![x] = Remove(q[x], p)]
            /\ stack' = next
            /\ UNCHANGED ops
       ELSE /\ ops' = [ops EXCEPT ![c].evaluated = TRUE]
            /\ stack' = IF IsDeletedBy(c) THEN <<Delete(c)>> \o next ELSE next
            /\ UNCHANGED q

\* Operations whose results the new one covers are tossed.
TossCovered ==
    /\ At("toss")
    /\ IF ops[Top.op].covers /\ Creator(Top.obj) # NoOp /\ CanToss(Top.obj)
       THEN Toss(Top.obj, stack)
       ELSE /\ Continue([Top EXCEPT !.at = "queue"])
            /\ UNCHANGED <<q, ops>>
    /\ UNCHANGED <<inserted, result, objVars, history>>

\* setOp(): a full queue loses its head first (_qFlushQueueHead()): its
\* dependents are flushed, its creator is.
FlushHead ==
    /\ At("queue") /\ q[Top.obj].length = MaxLength
    /\ CallAndContinue(CallOf("dependents", NoOp, Top.obj, q[Top.obj].head),
                       [Top EXCEPT !.at = "head"])
    /\ UNCHANGED <<q, ops, inserted, result, objVars, history>>

SyncHead ==
    /\ At("head")
    /\ LET c == EntryOf(Top.obj, q[Top.obj].head).op
           next == [Top EXCEPT !.at = "last"]
       IN IF c = NoOp THEN Continue(next) /\ result' = "success"
                      ELSE CallAndContinue(Flush(c), next) /\ UNCHANGED result
    /\ UNCHANGED <<q, ops, inserted, objVars, history>>

SetOp ==
    /\ \/ At("queue") /\ q[Top.obj].length < MaxLength
       \/ At("last")
    /\ LET x == Top.obj
           full == At("last") /\ (result = "failure" \/ q[x].length = MaxLength)
           r == [NewEntry(q[x]) EXCEPT !.data[NewTail(q[x])].op = Top.op]
       IN /\ q' = IF full THEN q ELSE [q EXCEPT ![x] = r]
          /\ ops' = [ops EXCEPT
                ![Top.op].dstPos = IF full THEN InvalidPosition ELSE r.tail,
                ![Top.op].deleteMe = ~ops[Top.op].flush]
          /\ IF ops[Top.op].flush
             THEN CallAndContinue(Flush(Top.op), [Top EXCEPT !.at = "flushed"])
             ELSE Pop
    /\ lost' = IF At("last") /\ result = "failure" THEN lost \cup {Top.op} ELSE lost
    /\ UNCHANGED <<inserted, result, objVars, content, wanted, shown>>

\* The operation has been kept until now.
DestroyFlushed ==
    /\ At("flushed")
    /\ ops' = [ops EXCEPT ![Top.op].deleteMe = TRUE, ![Top.op].evaluated = TRUE]
    /\ IF ops[Top.op].refCount = 0 THEN Continue(Delete(Top.op)) ELSE Pop
    /\ UNCHANGED <<q, inserted, result, objVars, history>>

\* xil_sync(): flushes the creator of the last entry.
Sync(x) ==
    /\ stack = <<>> /\ Usable(x)
    /\ LET c == Creator(x)
           after == CallOf("synced", NoOp, x, InvalidPosition)
       IN stack' = IF c = NoOp THEN <<after>> ELSE <<Flush(c), after>>
    /\ result' = "success"
    /\ UNCHANGED <<q, ops, inserted, objVars, history>>

\* The application looks at the pixels.
Synced ==
    /\ At("synced")
    /\ shown' = [object |-> Top.obj,
                 value |-> IF wanted[Top.obj] \in {Unknown} \cup lost THEN Unknown
                           ELSE content[Top.obj]]
    /\ Pop
    /\ UNCHANGED <<q, ops, inserted, result, objVars, content, lost, wanted>>

\* xil_toss(): the application no longer needs the contents.
TossContents(x) ==
    /\ stack = <<>> /\ Usable(x) /\ q[x].length > 0
    /\ wanted' = [wanted EXCEPT ![x] = Unknown]
    /\ IF CanToss(x)
       THEN Toss(x, <<>>)
       ELSE /\ q' = [q EXCEPT ![x].data[q[x].tail].tossed = TRUE]
            /\ UNCHANGED <<ops, stack>>
    /\ UNCHANGED <<inserted, result, objVars, content, lost, shown>>

\* allSync(): the dependents of all entries there are now, then the creator of
\* the last one
AllSync(x) ==
    [CallOf("allDependents", NoOp, x, q[x].head) EXCEPT !.i = q[x].length]

SyncAllDependents ==
    /\ At("allDependents")
    /\ IF Top.i = 0
       THEN LET c == Creator(Top.obj)
            IN IF c = NoOp THEN Pop ELSE Continue(Flush(c))
       ELSE CallAndContinue(CallOf("dependents", NoOp, Top.obj, Top.pos),
                            [Top EXCEPT !.pos = Succ(@), !.i = @ - 1])
    /\ UNCHANGED <<q, ops, inserted, result, objVars, history>>

\* xil_destroy(): preDestroy() decides whether the object can be deleted now,
\* which it is at once when the application owns its storage.
Destroy(x) ==
    /\ stack = <<>> /\ Usable(x)
    /\ destroyed' = destroyed \cup {x}
    /\ LET after == CallOf("destroyed", NoOp, x, InvalidPosition)
       IN IF x \in Borrowed
          THEN /\ stack' = <<AllSync(x), [after EXCEPT !.at = "delete"]>>
               /\ UNCHANGED <<q, ops, whenUnused>>
          ELSE IF q[x].length = 0
          THEN /\ stack' = <<[after EXCEPT !.at = "delete"]>>
               /\ UNCHANGED <<q, ops, whenUnused>>
          ELSE IF CanToss(x)
          THEN /\ stack' = (IF Creator(x) # NoOp /\ IsDeletedBy(Creator(x))
                            THEN <<Delete(Creator(x)), after>> ELSE <<after>>)
               /\ ops' = [o \in Ops |-> IF o = Creator(x)
                                        THEN [ops[o] EXCEPT !.evaluated = TRUE]
                                        ELSE ops[o]]
               /\ UNCHANGED <<q, whenUnused>>
          ELSE /\ whenUnused' = whenUnused \cup {x}
               /\ UNCHANGED <<q, ops, stack>>
    /\ UNCHANGED <<inserted, result, dagRefCnt, deleted, history>>

\* The end of preDestroy()
DestroyedObject ==
    /\ At("destroyed") \/ At("delete")
    /\ deleted' = IF At("delete") \/ q[Top.obj].length = 0
                  THEN deleted \cup {Top.obj} ELSE deleted
    /\ Pop
    /\ UNCHANGED <<q, ops, inserted, result, dagRefCnt, destroyed, whenUnused,
                   history>>
----------------------------------------------------------------------------
Init ==
    /\ q = [x \in Objects |-> EmptyRing]
    /\ ops = [o \in Ops |-> NewOp]
    /\ inserted = 0
    /\ stack = <<>>
    /\ result = "success"
    /\ dagRefCnt = [x \in Objects |-> 0]
    /\ destroyed = {} /\ whenUnused = {} /\ deleted = {}
    /\ content = [x \in Objects |-> 0]
    /\ lost = {}
    /\ wanted = [x \in Objects |-> 0]
    /\ shown = [object |-> NoObject, value |-> Unknown]

\* evaluate() destroys a dependent whose flush has failed; flush() has done so
\* before.
DestroyedTwice ==
    At("evaluated") /\ result = "failure" /\ ops[Top.dependent].state = "deleted"

\* An operation that found no room in the queue is flushed at once.
FlushedWithoutEntry == At("flush") /\ ops[Top.op].dstPos = InvalidPosition

\* A call in progress goes on.  What the code does with freed memory or with an
\* entry outside of the queue is undefined: nothing is said about it.
Undefined == DestroyedTwice \/ FlushedWithoutEntry
Step ==
    /\ ~Undefined
    /\ \/ DeleteSource \/ DeleteDestination
       \/ StartFlush \/ ReadSource \/ WriteDestination \/ Compute \/ FinishFlush
       \/ NextEntry \/ FlushCreator \/ AdvanceEntry \/ Evaluate \/ Evaluated
       \/ FlushDependents \/ TossCovered \/ FlushHead \/ SyncHead \/ SetOp
       \/ DestroyFlushed \/ Synced \/ SyncAllDependents \/ DestroyedObject

Request ==
    \/ \E call \in Calls : Insert(call)
    \/ "sync" \in Requests /\ \E x \in Objects : Sync(x)
    \/ "toss" \in Requests /\ \E x \in Objects : TossContents(x)
    \/ "destroy" \in Requests /\ \E x \in Objects : Destroy(x)

Next == Step \/ Request

Spec == Init /\ [][Next]_vars
FairSpec == Spec /\ WF_vars(Step)
----------------------------------------------------------------------------
\* The variables have the values the declarations say.
TypeOK ==
    /\ q \in [Objects -> Ring]
    /\ ops \in [Ops -> Op]
    /\ inserted \in 0..MaxOps
    /\ stack \in Seq(Frame)
    /\ result \in {"success", "failure"}
    /\ dagRefCnt \in [Objects -> Nat]
    /\ destroyed \subseteq Objects /\ whenUnused \subseteq Objects
    /\ deleted \subseteq Objects
    /\ content \in [Objects -> Contents]
    /\ lost \subseteq Ops
    /\ wanted \in [Objects -> Contents]
    /\ shown \in [object : Objects \cup {NoObject}, value : Contents]

Wrapped(n) == IF n >= MaxLength THEN n - MaxLength ELSE n
RingOK(r) ==
    /\ r.head \in Positions /\ r.tail \in Positions /\ r.length \in 0..MaxLength
    /\ r.tail = IF r.length = 0 THEN r.head ELSE Wrapped(r.head + r.length - 1)

\* The pointers of a ring and its length say the same, whatever was inserted and
\* removed: a full queue never loses an entry to a new one, an empty one reuses
\* its place, and both pointers wrap (qNewEntry(), qRemove()).
RingsOK == \A x \in Objects : RingOK(q[x])

Idle == stack = <<>>
Live(o) == ops[o].state = "live"

\* A call in progress works on an operation and an object that still exist.
CallersLive ==
    \A n \in DOMAIN stack :
        /\ stack[n].op # NoOp => Live(stack[n].op)
        /\ stack[n].obj \notin deleted

\* Between calls operations and rings point at each other: an operation is the
\* creator of the entry it remembers and a dependent of the entries of its
\* sources, whose creators it knows; and an entry names no other operation.
LinksAgree ==
    Idle =>
    /\ \A o \in Ops : Live(o) /\ ops[o].dstPos # InvalidPosition =>
          /\ ops[o].dstPos \in Queued(q[ops[o].dst])
          /\ EntryOf(ops[o].dst, ops[o].dstPos).op = o
          /\ \A i \in DOMAIN ops[o].src :
                LET e == EntryOf(ops[o].src[i], ops[o].srcPos[i])
                IN /\ ops[o].srcPos[i] \in Queued(q[ops[o].src[i]])
                   /\ \E k \in DOMAIN e.deps : e.deps[k] = o
                   /\ ops[o].srcOp[i] = e.op
    /\ \A x \in Objects : \A p \in Queued(q[x]) :
          LET e == EntryOf(x, p)
          IN /\ e.op # NoOp => /\ Live(e.op)
                               /\ ops[e.op].dst = x /\ ops[e.op].dstPos = p
             /\ \A k \in DOMAIN e.deps :
                   /\ Live(e.deps[k])
                   /\ \E i \in DOMAIN ops[e.deps[k]].src :
                         /\ ops[e.deps[k]].src[i] = x
                         /\ ops[e.deps[k]].srcPos[i] = p

\* An operation is computed from the instances it was inserted for.
InstancesKept == \A x \in Objects : content[x] # Spoiled

\* Flushing goes back in time: whatever a flush flushes was inserted before, so
\* that no flush ever waits for itself.
FlushGoesBack ==
    \A m, n \in DOMAIN stack :
        /\ m < n
        /\ stack[m].at \in {"flush", "read", "write", "compute"}
        /\ stack[n].at \in {"read", "compute", "abandoned"}
        => stack[m].op < stack[n].op

\* An object with entries on its queue is in a DAG.
QueuedIsInDag == Idle => \A x \in Objects : q[x].length > 0 => dagRefCnt[x] > 0

\* Every inserted operation has its entry, unless another one failed that had to
\* make room for it.
InsertedIsQueued ==
    Idle => \A o \in Ops \ lost : Live(o) => ops[o].dstPos # InvalidPosition

\* The application sees what immediate execution would have shown it.
Immediate == INSTANCE ImmediateMode WITH last <- inserted, value <- wanted
ShowsImmediateMode == Immediate!Spec

\* Every call returns.
CallsReturn == stack # <<>> ~> (Idle \/ Undefined)
============================================================================
