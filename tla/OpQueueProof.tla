---------------------------- MODULE OpQueueProof ----------------------------
(***************************************************************************)
(* Theorems about OpQueue, whatever operations are inserted, flushed,      *)
(* tossed and destroyed and whichever compute routines fail.               *)
(*                                                                         *)
(* RingsAlwaysOK: the two pointers of every ring and its length agree.     *)
(* The inductive invariant Inv adds what a ring looks like, so that a      *)
(* change of its entries is known not to touch the pointers.               *)
(*                                                                         *)
(* During calls operations and rings do not point at each other, and what  *)
(* is inductive is QInv, a statement about the whole stack of calls.  A    *)
(* call relies on facts about the operation it works on (FrameOK) that the *)
(* calls above it must leave alone, which they do since they work on other *)
(* operations (StackOrder); an operation and the entries of its sources    *)
(* agree but for the sources its destructor has left (AllOpLinks,          *)
(* AllEntryLinks, Passed).  This module defines QInv and shows that the    *)
(* steps of flush(), syncForWriting() and insert() keep it, and how the    *)
(* links change when a destructor leaves a source; OpQueueLinksProof goes  *)
(* on with the steps of the destructor and the requests of the             *)
(* application.                                                            *)
(***************************************************************************)
EXTENDS OpQueue, TLAPS, SequenceTheorems, FiniteSetTheorems, WellFoundedInduction

\* What a ring looks like: a record whose two pointers and length agree
IsRing(r) ==
    r = [data |-> r.data, head |-> r.head, tail |-> r.tail, length |-> r.length]

RingInv(r) == IsRing(r) /\ RingOK(r)

Inv == /\ q = [x \in Objects |-> q[x]]
       /\ \A x \in Objects : RingInv(q[x])
----------------------------------------------------------------------------
\* A ring is sound whatever its entries are: what changes a field of an entry
\* leaves it sound.
LEMMA DataRing ==
    ASSUME NEW r, RingInv(r), NEW p, NEW v
    PROVE  /\ RingInv([r EXCEPT !.data[p].deps = v])
           /\ RingInv([r EXCEPT !.data[p].op = v])
           /\ RingInv([r EXCEPT !.data[p].status = v])
           /\ RingInv([r EXCEPT !.data[p].tossed = v])
<1>1. PICK d, h, t, l : r = [data |-> d, head |-> h, tail |-> t, length |-> l]
  BY DEF RingInv, IsRing
<1>2. ASSUME NEW w, \/ w = [r EXCEPT !.data[p].deps = v]
                    \/ w = [r EXCEPT !.data[p].op = v]
                    \/ w = [r EXCEPT !.data[p].status = v]
                    \/ w = [r EXCEPT !.data[p].tossed = v]
      PROVE  RingInv(w)
  <2>1. IsRing(w) /\ w.head = r.head /\ w.tail = r.tail /\ w.length = r.length
    BY <1>1, <1>2 DEF IsRing
  <2> QED
    BY <2>1 DEF RingInv, RingOK
<1> QED
  BY <1>2

\* An entry of a ring that is not full goes behind the last one.
LEMMA NewEntryRing ==
    ASSUME NEW r, RingInv(r), r.length < MaxLength
    PROVE  RingInv(NewEntry(r))
<1> USE QueueAssumption
<1> DEFINE s == NewEntry(r)
<1>1. PICK d, h, t, l : r = [data |-> d, head |-> h, tail |-> t, length |-> l]
  BY DEF RingInv, IsRing
<1>2. /\ IsRing(s) /\ s.head = r.head /\ s.tail = NewTail(r)
      /\ s.length = r.length + 1
  <2>1. ASSUME NEW n, NEW w, w = [r EXCEPT !.tail = n, !.length = @ + 1,
                                          !.data[n] = BlankEntry]
        PROVE  IsRing(w) /\ w.head = r.head /\ w.tail = n /\ w.length = r.length + 1
    BY <1>1, <2>1 DEF IsRing
  <2> QED
    BY <2>1 DEF NewEntry
<1>3. RingOK(s)
  <2>1. r.head \in 0..MaxLength-1 /\ r.tail \in 0..MaxLength-1
        /\ r.length \in 0..MaxLength
        /\ r.tail = IF r.length = 0 THEN r.head ELSE Wrapped(r.head + r.length - 1)
    BY DEF RingInv, RingOK, Positions
  <2>2. NewTail(r) = Wrapped(r.head + r.length)
    BY <2>1 DEF NewTail, Succ, Wrapped
  <2>3. NewTail(r) \in 0..MaxLength-1
    BY <2>1, <2>2 DEF Wrapped
  <2> QED
    BY <1>2, <2>1, <2>2, <2>3 DEF RingOK, Positions
<1> QED
  BY <1>2, <1>3 DEF RingInv

\* The first or the last entry is removed; one in the middle stays.
LEMMA RemoveRing ==
    ASSUME NEW r, RingInv(r), NEW p
    PROVE  RingInv(Remove(r, p))
<1> USE QueueAssumption
<1> DEFINE s == Remove(r, p)
<1>1. r.head \in 0..MaxLength-1 /\ r.tail \in 0..MaxLength-1
      /\ r.length \in 0..MaxLength
      /\ r.tail = IF r.length = 0 THEN r.head ELSE Wrapped(r.head + r.length - 1)
  BY DEF RingInv, RingOK, Positions
<1>2. CASE s = r
  BY <1>2
<1>3. CASE r.length # 0 /\ p = r.head
  <2>1. s = [data |-> r.data, head |-> IF p = r.tail THEN p ELSE Succ(p),
             tail |-> r.tail, length |-> r.length - 1]
    BY <1>3 DEF Remove, RingInv, IsRing
  <2>2. /\ IsRing(s) /\ s.tail = r.tail /\ s.length = r.length - 1
        /\ s.head = IF p = r.tail THEN p ELSE Succ(p)
    BY <2>1 DEF IsRing
  <2>3. RingOK(s)
    BY <1>1, <1>3, <2>2 DEF RingOK, Positions, Succ, Wrapped
  <2> QED
    BY <2>2, <2>3 DEF RingInv
<1>4. CASE r.length # 0 /\ p # r.head /\ p = r.tail
  <2>1. s = [data |-> r.data, head |-> r.head, tail |-> Pred(p),
             length |-> r.length - 1]
    BY <1>4 DEF Remove, RingInv, IsRing
  <2>2. /\ IsRing(s) /\ s.tail = Pred(p) /\ s.length = r.length - 1
        /\ s.head = r.head
    BY <2>1 DEF IsRing
  <2>3. RingOK(s)
    BY <1>1, <1>4, <2>2 DEF RingOK, Positions, Pred, Wrapped
  <2> QED
    BY <2>2, <2>3 DEF RingInv
<1> QED
  BY <1>2, <1>3, <1>4 DEF Remove

\* One ring is replaced by a sound one.
LEMMA RingReplaced ==
    ASSUME Inv, NEW x, NEW r, x \in Objects => RingInv(r), q' = [q EXCEPT ![x] = r]
    PROVE  Inv'
<1>1. q' = [y \in Objects |-> IF y = x THEN r ELSE q[y]]
  BY DEF Inv
<1>2. q' = [y \in Objects |-> q'[y]]
  BY <1>1
<1>3. ASSUME NEW y \in Objects PROVE RingInv(q'[y])
  <2>1. q'[y] = IF y = x THEN r ELSE q[y]
    BY <1>1
  <2>2. RingInv(q[y])
    BY DEF Inv
  <2> QED
    BY <2>1, <2>2
<1>4. (\A y \in Objects : RingInv(q[y]))'
  BY <1>3 DEF RingInv, IsRing, RingOK
<1> QED
  BY <1>2, <1>4 DEF Inv

\* Dependents are added to the last entry or to a new one (addDependent()).
LEMMA AddDependentsRing ==
    ASSUME NEW r, RingInv(r), NEW o, NEW n
    PROVE  RingInv(AddDependents(r, o, n))
<1> DEFINE with == IF r.length = 0 THEN NewEntry(r) ELSE r
<1>1. RingInv(with)
  BY NewEntryRing, QueueAssumption
<1>2. ASSUME NEW v PROVE RingInv([with EXCEPT !.data[with.tail].deps = v])
  <2> HIDE DEF with
  <2> QED BY <1>1, DataRing
<1> QED
  BY <1>1, <1>2 DEF AddDependents

\* An entry is removed on behalf of an operation.
LEMMA RemoveEntryInv ==
    ASSUME Inv, NEW x, NEW p, NEW r, NEW a, NEW newOps,
           x \in Objects => RingInv(r), RemoveEntry(x, p, r, a, newOps)
    PROVE  Inv'
<1>1. x \in Objects => RingInv(Remove(r, p))
  BY RemoveRing
<1>2. q' = [q EXCEPT ![x] = Remove(r, p)]
  BY DEF RemoveEntry
<1> QED
  BY <1>1, <1>2, RingReplaced

\* An operation that no longer depends on an entry leaves every ring sound.
LEMMA CleanupInv ==
    ASSUME Inv, NEW x, NEW p, NEW a, NEW next, Cleanup(x, p, a, next)
    PROVE  Inv'
<1> DEFINE left == Without(EntryOf(x, p).deps, a)
           r == [q[x] EXCEPT !.data[p].deps = left]
<1>1. x \in Objects => RingInv(r)
  <2> HIDE DEF left
  <2> QED BY DataRing DEF Inv
<1>2. \/ q' = [q EXCEPT ![x] = r]
      \/ RemoveEntry(x, p, r, a, ops)
  BY DEF Cleanup
<1> HIDE DEF r
<1> QED
  BY <1>1, <1>2, RingReplaced, RemoveEntryInv
----------------------------------------------------------------------------
\* A step that changes no ring leaves them sound.
LEMMA InvUnchanged ==
    ASSUME Inv, UNCHANGED q
    PROVE  Inv'
  BY DEF Inv, RingInv, IsRing, RingOK

\* The rings are sound at first.
LEMMA InitInv == Init => Inv
<1> SUFFICES ASSUME Init PROVE Inv
  OBVIOUS
<1>1. q = [x \in Objects |-> EmptyRing]
  BY DEF Init
<1>2. RingInv(EmptyRing)
  BY QueueAssumption DEF RingInv, IsRing, RingOK, EmptyRing, Positions, Wrapped
<1> QED
  BY <1>1, <1>2 DEF Inv

\* The destructor of an operation, one source: the rings stay sound.
LEMMA DeleteSourceInv ==
    ASSUME Inv, DeleteSource
    PROVE  Inv'
<1> DEFINE a == Top.op
           i == Top.i
           next == [Top EXCEPT !.i = @ + 1]
<1>1. \/ Cleanup(ops[a].src[i], ops[a].srcPos[i], a, next)
      \/ UNCHANGED q
  BY DEF DeleteSource
<1> QED
  BY <1>1, CleanupInv, InvUnchanged

\* The destructor of an operation, its destination: the rings stay sound.
LEMMA DeleteDestinationInv ==
    ASSUME Inv, DeleteDestination
    PROVE  Inv'
<1> DEFINE a == Top.op
           x == ops[a].dst
           p == ops[a].dstPos
           e == EntryOf(x, p)
           gone == [ops EXCEPT ![a] = [NewOp EXCEPT !.state = "deleted"]]
           r == [q[x] EXCEPT !.data[p].op = IF @ = a THEN NoOp ELSE @]
           cleared == [o \in Ops |->
                         IF \E i \in DOMAIN e.deps : e.deps[i] = o
                         THEN [gone[o] EXCEPT !.srcOp = ClearedOf(@, a)]
                         ELSE gone[o]]
<1>1. x \in Objects => RingInv(r)
  BY DataRing DEF Inv
<1>2. \/ q' = [q EXCEPT ![x] = r]
      \/ RemoveEntry(x, p, r, a, cleared)
      \/ UNCHANGED q
  BY DEF DeleteDestination
<1> HIDE DEF r, cleared
<1> QED
  BY <1>1, <1>2, RingReplaced, RemoveEntryInv, InvUnchanged

\* The status of an entry is no part of its ring.
LEMMA SetStatusInv ==
    ASSUME Inv, NEW x, NEW p, NEW status, SetStatus(x, p, status)
    PROVE  Inv'
<1> DEFINE v == IF q[x].data[p].status = "evaluated" THEN q[x].data[p].status ELSE status
<1>1. q' = [q EXCEPT ![x] = [q[x] EXCEPT !.data[p].status = v]]
  BY DEF SetStatus
<1>2. x \in Objects => RingInv([q[x] EXCEPT !.data[p].status = v])
  <2> HIDE DEF v
  <2> QED BY DataRing DEF Inv
<1> QED
  BY <1>1, <1>2, RingReplaced

\* Inserting an operation leaves the rings sound.
LEMMA InsertInv ==
    ASSUME Inv, NEW call, Insert(call)
    PROVE  Inv'
<1> DEFINE Queue(x) == AddDependents(q[x], inserted + 1, Uses(call, x))
<1>1. q' = [x \in Objects |-> Queue(x)]
  BY DEF Insert
<1>2. ASSUME NEW x \in Objects PROVE RingInv(Queue(x))
  BY AddDependentsRing DEF Inv
<1> HIDE DEF Queue
<1>3. q' = [x \in Objects |-> q'[x]] /\ \A x \in Objects : RingInv(q'[x])
  BY <1>1, <1>2
<1> QED
  BY <1>3 DEF Inv, RingInv, IsRing, RingOK

\* Tossing the last entry of a ring leaves the rings sound.
LEMMA TossInv ==
    ASSUME Inv, NEW x, NEW next, Toss(x, next)
    PROVE  Inv'
<1>1. \/ q' = [q EXCEPT ![x] = Remove(q[x], q[x].tail)]
      \/ UNCHANGED q
  BY DEF Toss
<1>2. x \in Objects => RingInv(Remove(q[x], q[x].tail))
  BY RemoveRing DEF Inv
<1> QED
  BY <1>1, <1>2, RingReplaced, InvUnchanged

\* xil_toss() leaves the rings sound.
LEMMA TossContentsInv ==
    ASSUME Inv, NEW x, TossContents(x)
    PROVE  Inv'
<1>1. \/ Toss(x, <<>>)
      \/ q' = [q EXCEPT ![x] = [q[x] EXCEPT !.data[q[x].tail].tossed = TRUE]]
  BY DEF TossContents
<1>2. x \in Objects => RingInv([q[x] EXCEPT !.data[q[x].tail].tossed = TRUE])
  BY DataRing DEF Inv
<1> QED
  BY <1>1, <1>2, RingReplaced, TossInv

\* An operation gets an entry only when the queue has room for one.
LEMMA SetOpInv ==
    ASSUME Inv, SetOp
    PROVE  Inv'
<1> DEFINE x == Top.obj
           n == NewEntry(q[x])
           r == [n EXCEPT !.data[NewTail(q[x])].op = Top.op]
           full == At("last") /\ (result = "failure" \/ q[x].length = MaxLength)
<1>1. /\ (At("queue") /\ q[x].length < MaxLength) \/ At("last")
      /\ q' = IF full THEN q ELSE [q EXCEPT ![x] = r]
  BY DEF SetOp
<1>2. ASSUME ~full, x \in Objects PROVE RingInv(r)
  <2>1. RingInv(q[x])
    BY <1>2 DEF Inv
  <2>2. q[x].length < MaxLength
    BY <1>1, <1>2, <2>1, QueueAssumption DEF RingInv, RingOK
  <2>3. RingInv(n)
    BY <2>1, <2>2, NewEntryRing
  <2> HIDE DEF n
  <2> QED
    BY <2>3, DataRing
<1> HIDE DEF r, full
<1> QED
  BY <1>1, <1>2, RingReplaced, InvUnchanged

\* Every step leaves the rings sound.
LEMMA NextInv == Inv /\ [Next]_vars => Inv'
<1> SUFFICES ASSUME Inv, [Next]_vars PROVE Inv'
  OBVIOUS
<1>1. CASE Step
  <2>1. \/ DeleteSource \/ DeleteDestination \/ StartFlush \/ FinishFlush
        \/ TossCovered \/ SetOp \/ UNCHANGED q
    BY <1>1 DEF Step, ReadSource, WriteDestination, Compute, NextEntry, FlushCreator,
       AdvanceEntry, Evaluate, Evaluated, FlushDependents, FlushHead, SyncHead,
       DestroyFlushed, Synced, SyncAllDependents, DestroyedObject
  <2>2. CASE StartFlush
    <3>1. \/ UNCHANGED q
          \/ SetStatus(ops[Top.op].dst, ops[Top.op].dstPos, "executing")
      BY <2>2 DEF StartFlush
    <3> QED
      BY <3>1, SetStatusInv, InvUnchanged
  <2>3. CASE FinishFlush
    <3>1. SetStatus(ops[Top.op].dst, ops[Top.op].dstPos, "evaluated")
      BY <2>3 DEF FinishFlush
    <3> QED
      BY <3>1, SetStatusInv
  <2>4. CASE TossCovered
    <3>1. Toss(Top.obj, stack) \/ UNCHANGED q
      BY <2>4 DEF TossCovered
    <3> QED
      BY <3>1, TossInv, InvUnchanged
  <2> QED
    BY <2>1, <2>2, <2>3, <2>4, DeleteSourceInv, DeleteDestinationInv, SetOpInv,
       InvUnchanged
<1>2. CASE Request
  <2>1. \/ \E call \in Calls : Insert(call)
        \/ \E x \in Objects : TossContents(x)
        \/ UNCHANGED q
    BY <1>2 DEF Request, Sync, Destroy
  <2> QED
    BY <2>1, InsertInv, TossContentsInv, InvUnchanged
<1>3. CASE UNCHANGED vars
  BY <1>3, InvUnchanged DEF vars
<1> QED
  BY <1>1, <1>2, <1>3 DEF Next

\* Whatever is inserted, flushed, tossed and destroyed, for every length of the
\* rings: head, tail and length of a ring agree, so that a full queue is noticed
\* before an entry is overwritten and an empty one before an entry is read.
THEOREM RingsAlwaysOK == Spec => []RingsOK
<1>1. Spec => []Inv
  BY InitInv, NextInv, PTL DEF Spec
<1>2. Inv => RingsOK
  BY DEF Inv, RingInv, RingsOK
<1> QED
  BY <1>1, <1>2, PTL
----------------------------------------------------------------------------
\* The links between operations and rings

\* The calls in progress, counted from the outermost one.
Depth == Len(stack)
AtDepth(s, h) == s[Len(s) + 1 - h]
CallAt(h) == AtDepth(stack, h)

OnObject == Syncing \cup Inserting \cup Resting
OnEntry == {"creator", "next", "evaluate", "evaluated", "dependents", "allDependents"}
Counting == {"flush", "read", "evaluate", "evaluated", "dependents", "sources"}

StatusOf(o) == EntryOf(ops[o].dst, ops[o].dstPos).status

\* What a call relies on, wherever it is on the stack.
FrameOK(f) ==
    /\ f.at \in Points
    /\ f.at \in OnObject => f.obj \in Objects
    /\ f.at \in OnEntry => f.pos \in Positions
    /\ f.at \in Counting => f.i > 0
    /\ f.at \in Resting => f.op = NoOp
    /\ f.at \notin Resting => f.op \in Ops /\ Live(f.op)
    /\ f.at \in Executing \cup Syncing =>
          /\ ops[f.op].refCount > 0 /\ ops[f.op].dstPos # InvalidPosition
          /\ StatusOf(f.op) = "executing"
    /\ f.at \in Deletes =>
          /\ ops[f.op].refCount = 0 /\ ops[f.op].deleteMe = TRUE
          /\ ops[f.op].dstPos # InvalidPosition
    /\ f.at \in Inserting =>
          ops[f.op].dstPos = InvalidPosition /\ ops[f.op].dst = f.obj
    /\ f.at = "flushed" => ops[f.op].deleteMe = FALSE
    /\ f.at = "evaluated" => f.dependent \in Ops /\ ops[f.dependent].state # "new"

\* An operation a call waits for has an entry once its flush has begun.
Waits(f) == f.at \in {"evaluated", "flushed"}
Awaited(f) == IF f.at = "flushed" THEN f.op ELSE f.dependent
Entered(o) == ops[o].state = "live" => ops[o].dstPos # InvalidPosition

FramesOK ==
    \A h \in 1..Depth :
        /\ FrameOK(CallAt(h))
        /\ CallAt(h).at \in Inserting \cup {"flushed"} => h = 1
        /\ CallAt(h).at = "flush" => h = Depth
        /\ Waits(CallAt(h)) =>
              \/ Entered(Awaited(CallAt(h)))
              \/ h + 1 = Depth /\ CallAt(Depth).at = "flush"
                 /\ CallAt(Depth).op = Awaited(CallAt(h))

\* An operation is executed once at a time, and while operations are deleted
\* nothing else happens: each deletes older ones.
StackOrder ==
    \A h \in 1..Depth : \A k \in 1..h-1 :
        /\ CallAt(h).at \in Executing /\ CallAt(k).at \in Executing \cup Syncing
              => CallAt(h).op # CallAt(k).op
        /\ CallAt(k).at \in Deletes =>
              CallAt(h).at \in Deletes /\ CallAt(h).op < CallAt(k).op

Deleting(o) == \E h \in 1..Depth : CallAt(h).at \in Deletes /\ CallAt(h).op = o
\* The destructor of o has left its source i.
Passed(o, i) ==
    \E h \in 1..Depth : /\ CallAt(h).at \in Deletes /\ CallAt(h).op = o
                        /\ CallAt(h).at = "sources" => i < CallAt(h).i

Lists(s, o) == \E k \in DOMAIN s : s[k] = o
DependsOn(o, x, p) == Lists(EntryOf(x, p).deps, o)

Knows(o, i) ==
    /\ ops[o].src[i] \in Objects
    /\ ops[o].srcPos[i] \in Queued(q[ops[o].src[i]])
    /\ DependsOn(o, ops[o].src[i], ops[o].srcPos[i])
    /\ ops[o].srcOp[i] = EntryOf(ops[o].src[i], ops[o].srcPos[i]).op

OpLinks(o) ==
    /\ o > inserted => ops[o].state = "new"
    /\ ops[o].state = "live" =>
       /\ o <= inserted
       /\ ops[o].dstPos # InvalidPosition =>
             /\ ops[o].dst \in Objects
             /\ ops[o].dstPos \in Queued(q[ops[o].dst])
             /\ EntryOf(ops[o].dst, ops[o].dstPos).op = o
       /\ Len(ops[o].srcPos) = Len(ops[o].src) /\ Len(ops[o].srcOp) = Len(ops[o].src)
       /\ \A i \in 1..Len(ops[o].src) :
             /\ ~Deleting(o) => Knows(o, i)
             /\ ops[o].src[i] # NoObject =>
                   EntryOf(ops[o].src[i], ops[o].srcPos[i]).op < o

EntryLinks(x, p) ==
    /\ p \notin Queued(q[x]) => EntryOf(x, p).op = NoOp /\ EntryOf(x, p).deps = <<>>
    /\ EntryOf(x, p).op # NoOp =>
          /\ Live(EntryOf(x, p).op)
          /\ ops[EntryOf(x, p).op].dst = x /\ ops[EntryOf(x, p).op].dstPos = p
    /\ \A d \in Ops : DependsOn(d, x, p) =>
          /\ Live(d)
          /\ \E i \in 1..Len(ops[d].src) :
                /\ ops[d].src[i] = x /\ ops[d].srcPos[i] = p
                /\ ~Passed(d, i)

Types ==
    /\ q \in [Objects -> Ring] /\ ops \in [Ops -> Op] /\ inserted \in 0..MaxOps
    /\ stack \in Seq(Frame) /\ result \in {"success", "failure"}
    /\ wanted \in [Objects -> Contents]
AllOpLinks == \A o \in Ops : OpLinks(o)
AllEntryLinks == \A x \in Objects : \A p \in Positions : EntryLinks(x, p)
QInv == Inv /\ Types /\ FramesOK /\ StackOrder /\ AllOpLinks /\ AllEntryLinks
----------------------------------------------------------------------------
\* Lists of dependents

\* A set of numbers has a least element.
LEMMA LeastPosition ==
    ASSUME NEW T, T \subseteq Nat, T # {}
    PROVE  \E n \in T : \A m \in T : n <= m
<1>1. IsWellFoundedOn(OpToRel(<, Nat), Nat)
  BY NatLessThanWellFounded
<1>2. PICK x \in T : \A y \in T : <<y, x>> \notin OpToRel(<, Nat)
  BY ONLY <1>1, WFMin, T \subseteq Nat, T # {}
<1>3. \A y \in T : <<y, x>> \notin {p \in Nat \X Nat : p[1] < p[2]}
  BY <1>2, Zenon DEF OpToRel
<1>4. ASSUME NEW y \in T PROVE x <= y
  <2>1. x \in Nat /\ y \in Nat
    OBVIOUS
  <2>2. ~ (y < x)
    BY <1>3, <2>1
  <2> QED
    BY <2>1, <2>2
<1> QED
  BY <1>4

\* The positions a list keeps are numbered in their order.
LEMMA Numbered ==
    ASSUME NEW n \in Nat, NEW K \in SUBSET (1..n)
    PROVE  /\ Cardinality(K) \in Nat
           /\ \A k \in 1..Cardinality(K) : \E i \in K : Cardinality({j \in K : j <= i}) = k
           /\ \A i \in K : Cardinality({j \in K : j <= i}) \in 1..Cardinality(K)
           /\ \A i, m \in K : Cardinality({j \in K : j <= i}) = Cardinality({j \in K : j <= m})
                                 => i = m
<1> DEFINE Upto(i) == {j \in K : j <= i}
           C(i) == Cardinality(Upto(i))
<1>1. IsFiniteSet(K)
  <2>1. IsFiniteSet(1..n)
    BY FS_Interval, 1 \in Int, n \in Int
  <2> QED
    BY <2>1, FS_Subset
<1>2. \A i \in Int : Upto(i) \subseteq K /\ IsFiniteSet(Upto(i)) /\ C(i) \in Nat /\ C(i) <= Cardinality(K)
  <2>1. ASSUME NEW i \in Int PROVE IsFiniteSet(Upto(i)) /\ C(i) <= Cardinality(K)
    <3>1. Upto(i) \subseteq K
      OBVIOUS
    <3> HIDE DEF Upto
    <3> QED BY <1>1, <3>1, FS_Subset
  <2> QED
    BY <2>1, FS_CardinalityType
<1>3. ASSUME NEW i \in 1..n, i \notin K PROVE Upto(i) = Upto(i - 1)
  <2>1. \A j \in K : j <= i <=> j <= i - 1
    <3> TAKE j \in K
    <3>1. j \in 1..n /\ j # i
      BY <1>3
    <3> QED BY <3>1
  <2> QED BY <2>1
<1>4. ASSUME NEW i \in K PROVE Upto(i) = Upto(i - 1) \cup {i} /\ i \notin Upto(i - 1) /\ C(i) = C(i - 1) + 1
  <2>1. Upto(i) = Upto(i - 1) \cup {i} /\ i \notin Upto(i - 1)
    <3>1. \A j \in K : j <= i <=> (j <= i - 1 \/ j = i)
      <4> TAKE j \in K
      <4>1. j \in 1..n /\ i \in 1..n
        OBVIOUS
      <4> QED BY <4>1
    <3>2. ~(i <= i - 1)
      <4>1. i \in 1..n
        OBVIOUS
      <4> QED BY <4>1
    <3> QED BY <3>1, <3>2
  <2>2. IsFiniteSet(Upto(i - 1))
    <3>1. i - 1 \in Int
      <4>1. i \in 1..n
        OBVIOUS
      <4> QED BY <4>1
    <3> QED BY <1>2, <3>1
  <2> HIDE DEF Upto
  <2> QED BY <2>1, <2>2, FS_AddElement
<1>5. Upto(n) = K /\ Upto(0) = {} /\ C(0) = 0 /\ C(n) = Cardinality(K)
  <2>1. Upto(n) = K
    <3>1. \A j \in K : j <= n
      <4> TAKE j \in K
      <4>1. j \in 1..n
        OBVIOUS
      <4> QED BY <4>1
    <3> QED BY <3>1
  <2>2. Upto(0) = {}
    <3>1. \A j \in K : ~(j <= 0)
      <4> TAKE j \in K
      <4>1. j \in 1..n
        OBVIOUS
      <4> QED BY <4>1
    <3> QED BY <3>1
  <2> HIDE DEF Upto
  <2> QED BY <2>1, <2>2, FS_EmptySet
<1>6. ASSUME NEW k \in 1..Cardinality(K) PROVE \E i \in K : C(i) = k
  <2> DEFINE T == {m \in 0..n : C(m) >= k}
  <2>0. Cardinality(K) \in Nat
    BY <1>1, FS_CardinalityType
  <2>1. n \in T /\ T \subseteq Nat
    <3>1. C(n) >= k
      BY <1>5, <2>0
    <3> QED BY <3>1
  <2>2. PICK m \in T : \A t \in T : m <= t
    <3> HIDE DEF T
    <3> QED BY <2>1, LeastPosition
  <2>3. m \in 0..n /\ C(m) >= k
    BY <2>2
  <2>4. m # 0
    BY <1>5, <2>3
  <2>5. m \in 1..n /\ m - 1 \in 0..n /\ C(m - 1) \in Nat /\ C(m) \in Nat
    <3>1. m \in 1..n /\ m - 1 \in 0..n /\ m \in Int /\ m - 1 \in Int
      BY <2>3, <2>4
    <3>2. C(m - 1) \in Nat /\ C(m) \in Nat
      <4> HIDE DEF C, Upto
      <4> QED BY <3>1, <1>2
    <3> QED BY <3>1, <3>2
  <2>6. ~(C(m - 1) >= k)
    <3>1. ~(m <= m - 1)
      BY <2>5
    <3> QED BY <2>2, <2>5, <3>1
  <2>7. m \in K
    <3> SUFFICES ASSUME m \notin K PROVE FALSE
      OBVIOUS
    <3>1. Upto(m) = Upto(m - 1)
      BY <2>5, <1>3
    <3> QED BY <2>3, <2>6, <3>1
  <2>8. C(m) = C(m - 1) + 1
    BY <1>4, <2>7
  <2>9. C(m) = k
    <3> HIDE DEF C
    <3> QED BY <2>3, <2>5, <2>6, <2>8, k \in 1..Cardinality(K), <2>0
  <2> QED BY <2>7, <2>9
<1>7. ASSUME NEW i \in K PROVE C(i) \in 1..Cardinality(K)
  <2>1. i \in Int /\ i - 1 \in Int
    <3>1. i \in 1..n
      OBVIOUS
    <3> QED BY <3>1
  <2>2. C(i) \in Nat /\ C(i - 1) \in Nat /\ C(i) <= Cardinality(K) /\ Cardinality(K) \in Nat
    BY <1>2, <2>1, <1>1, FS_CardinalityType
  <2>3. C(i) = C(i - 1) + 1
    BY <1>4
  <2> HIDE DEF C
  <2> QED BY <2>2, <2>3
<1>8. ASSUME NEW i \in K, NEW m \in K, i < m PROVE C(i) # C(m)
  <2>1. i \in Int /\ m \in Int /\ m - 1 \in Int /\ i <= m - 1
    <3>1. i \in 1..n /\ m \in 1..n
      OBVIOUS
    <3> QED BY <3>1, <1>8
  <2>2. Upto(i) \subseteq Upto(m - 1)
    <3>1. \A j \in K : j <= i => j <= m - 1
      <4> TAKE j \in K
      <4>1. j \in 1..n
        OBVIOUS
      <4> QED BY <2>1, <4>1
    <3> QED BY <3>1
  <2>3. C(i) <= C(m - 1)
    <3>1. IsFiniteSet(Upto(m - 1))
      BY <1>2, <2>1
    <3> HIDE DEF Upto
    <3> QED BY <2>2, <3>1, FS_Subset
  <2>4. C(m) = C(m - 1) + 1 /\ C(i) \in Nat /\ C(m - 1) \in Nat
    BY <1>4, <1>2, <2>1
  <2> HIDE DEF C
  <2> QED BY <2>3, <2>4
<1>9. ASSUME NEW i \in K, NEW m \in K, C(i) = C(m) PROVE i = m
  <2>1. i \in 1..n /\ m \in 1..n
    OBVIOUS
  <2>2. ~(i < m) /\ ~(m < i)
    BY <1>8, <1>9
  <2> QED BY <2>1, <2>2
<1>10. Cardinality(K) \in Nat
  BY <1>1, FS_CardinalityType
<1> QED
  BY <1>6, <1>7, <1>9, <1>10

\* Who is left on the list
LEMMA WithoutIs ==
    ASSUME NEW S, NEW s \in Seq(S), NEW a
    PROVE  /\ Without(s, a) \in Seq(S)
           /\ \A d : Lists(Without(s, a), d) <=> d # a /\ Lists(s, d)
<1> DEFINE K == {i \in DOMAIN s : s[i] # a}
           Nth(k) == CHOOSE i \in K : Cardinality({j \in K : j <= i}) = k
           c == Cardinality(K)
           w == [k \in 1..c |-> s[Nth(k)]]
<1>1. w = Without(s, a)
  BY DEF Without
<1>2. Len(s) \in Nat /\ DOMAIN s = 1..Len(s) /\ \A i \in 1..Len(s) : s[i] \in S
  OBVIOUS
<1>3. K \in SUBSET (1..Len(s))
  BY <1>2
<1>4. /\ c \in Nat
      /\ \A k \in 1..c : \E i \in K : Cardinality({j \in K : j <= i}) = k
      /\ \A i \in K : Cardinality({j \in K : j <= i}) \in 1..c
      /\ \A i, m \in K : Cardinality({j \in K : j <= i}) = Cardinality({j \in K : j <= m}) => i = m
  <2> HIDE DEF K
  <2> QED BY <1>2, <1>3, Numbered
<1>5. \A k \in 1..c : Nth(k) \in K /\ Cardinality({j \in K : j <= Nth(k)}) = k
  <2> HIDE DEF K
  <2> QED BY <1>4
<1>6. \A i \in K : \E k \in 1..c : Nth(k) = i
  <2> HIDE DEF K, Nth
  <2> QED BY <1>4, <1>5
<1>7. w \in Seq(S) /\ DOMAIN w = 1..c
  <2>1. \A k \in 1..c : s[Nth(k)] \in S
    BY <1>2, <1>5
  <2> HIDE DEF Nth, c
  <2> QED BY <1>4, <2>1, IsASeq
<1>8. ASSUME NEW d PROVE (\E k \in DOMAIN w : w[k] = d) <=> (d # a /\ \E k \in DOMAIN s : s[k] = d)
  <2>1. ASSUME NEW k \in 1..c, w[k] = d PROVE d # a /\ \E m \in DOMAIN s : s[m] = d
    <3>1. Nth(k) \in K /\ w[k] = s[Nth(k)]
      BY <1>5
    <3> HIDE DEF w, Nth
    <3> QED BY <2>1, <3>1
  <2>2. ASSUME NEW m \in DOMAIN s, s[m] = d, d # a PROVE \E k \in 1..c : w[k] = d
    <3>1. m \in K
      BY <2>2
    <3>2. PICK k \in 1..c : Nth(k) = m
      BY <1>6, <3>1
    <3>3. w[k] = s[Nth(k)]
      OBVIOUS
    <3> HIDE DEF w, Nth, c
    <3> QED BY <2>2, <3>2, <3>3
  <2> HIDE DEF w, c
  <2> QED BY <1>7, <2>1, <2>2
<1>9. \A d : Lists(w, d) <=> d # a /\ Lists(s, d)
  <2> HIDE DEF w
  <2> QED BY <1>8 DEF Lists
<1> HIDE DEF w
<1> QED
  BY <1>1, <1>7, <1>9
----------------------------------------------------------------------------
\* The stack and the queued positions

\* What the steps do to the stack.
Continues(f) ==
    /\ stack' \in Seq(Frame) /\ Depth' = Depth /\ AtDepth(stack', Depth) = f
    /\ \A h \in 1 .. Depth - 1 : AtDepth(stack', h) = CallAt(h)
Enters(callee, f) ==
    /\ stack' \in Seq(Frame) /\ Depth' = Depth + 1
    /\ AtDepth(stack', Depth + 1) = callee /\ AtDepth(stack', Depth) = f
    /\ \A h \in 1 .. Depth - 1 : AtDepth(stack', h) = CallAt(h)
Returns ==
    /\ stack' \in Seq(Frame) /\ Depth' = Depth - 1
    /\ \A h \in 1 .. Depth - 1 : AtDepth(stack', h) = CallAt(h)

\* The innermost call, and the calls below it
LEMMA TopCall ==
    ASSUME Types, stack # <<>>
    PROVE  /\ Depth \in Nat \ {0} /\ Top = CallAt(Depth) /\ Top \in Frame
           /\ \A h \in 1 .. Depth : CallAt(h) \in Frame
           /\ Below \in Seq(Frame) /\ Len(Below) = Depth - 1
           /\ \A h \in 1 .. Depth - 1 : Below[Depth - h] = CallAt(h)
<1>1. /\ stack \in Seq(Frame) /\ Len(stack) \in Nat \ {0} /\ Len(Tail(stack)) = Len(stack) - 1
      /\ Tail(stack) \in Seq(Frame) /\ Head(stack) = stack[1]
      /\ \A i \in 1 .. Len(stack) - 1 : Tail(stack)[i] = stack[i + 1]
      /\ \A i \in 1 .. Len(stack) : stack[i] \in Frame
  BY HeadTailProperties, ElementOfSeq, EmptySeq, LenProperties DEF Types
<1>2. \A h \in 1 .. Len(stack) - 1 : Len(stack) - h \in 1 .. Len(stack) - 1
                                    /\ (Len(stack) - h) + 1 = Len(stack) + 1 - h
  BY <1>1
<1>3. \A h \in 1 .. Len(stack) : Len(stack) + 1 - h \in 1 .. Len(stack)
  BY <1>1
<1> QED
  BY <1>1, <1>2, <1>3 DEF Depth, CallAt, AtDepth, Top, Below

\* The innermost call goes on: the calls below it stay.
LEMMA ContinueSteps ==
    ASSUME Types, stack # <<>>, NEW f \in Frame, Continue(f)
    PROVE  Continues(f)
<1>1. stack' = <<f>> \o Below
  BY DEF Continue
<1>2. PICK s, n : s = Below /\ n = Depth
  OBVIOUS
<1>3. /\ s \in Seq(Frame) /\ n \in Nat \ {0} /\ Len(s) = n - 1
      /\ \A h \in 1 .. n - 1 : s[n - h] = CallAt(h)
  BY <1>2, TopCall
<1>4. PICK t : t = <<f>> \o s
  OBVIOUS
<1>5. /\ t \in Seq(Frame) /\ Len(t) = n /\ t[1] = f
      /\ \A h \in 1 .. n - 1 : t[n + 1 - h] = s[n - h]
  <2>1. <<f>> \in Seq(Frame) /\ Len(<<f>>) = 1 /\ <<f>>[1] = f
    OBVIOUS
  <2>2. t \in Seq(Frame) /\ Len(t) = 1 + Len(s)
        /\ \A i \in 1 .. 1 + Len(s) : t[i] = IF i <= 1 THEN <<f>>[i] ELSE s[i - 1]
    BY ONLY <1>3, <1>4, <2>1, ConcatProperties
  <2>3. t[1] = f
    BY ONLY <1>3, <2>1, <2>2
  <2>4. ASSUME NEW h \in 1 .. n - 1 PROVE t[n + 1 - h] = s[n - h]
    <3>1. PICK i : i = n + 1 - h
      OBVIOUS
    <3>2. i \in 1 .. 1 + Len(s) /\ ~(i <= 1) /\ i - 1 = n - h
      BY ONLY <1>3, <3>1, h \in 1 .. n - 1
    <3> QED
      BY ONLY <2>2, <3>1, <3>2
  <2> QED
    BY ONLY <1>3, <2>2, <2>3, <2>4
<1>6. stack' = t
  BY <1>1, <1>2, <1>4
<1>7. AtDepth(stack', n) = f /\ \A h \in 1 .. n - 1 : AtDepth(stack', h) = s[n - h]
  <2>1. n + 1 - n = 1
    BY <1>3
  <2> QED
    BY <1>5, <1>6, <2>1 DEF AtDepth
<1> QED
  BY <1>2, <1>3, <1>5, <1>6, <1>7 DEF Continues, Depth

\* The innermost call makes another one.
LEMMA CallSteps ==
    ASSUME Types, stack # <<>>, NEW f \in Frame, NEW callee \in Frame, CallAndContinue(callee, f)
    PROVE  Enters(callee, f)
<1>1. stack' = <<callee, f>> \o Below
  BY DEF CallAndContinue
<1>2. PICK s, n : s = Below /\ n = Depth
  OBVIOUS
<1>3. /\ s \in Seq(Frame) /\ n \in Nat \ {0} /\ Len(s) = n - 1
      /\ \A h \in 1 .. n - 1 : s[n - h] = CallAt(h)
  BY <1>2, TopCall
<1>4. PICK t : t = <<callee, f>> \o s
  OBVIOUS
<1>5. /\ t \in Seq(Frame) /\ Len(t) = n + 1 /\ t[1] = callee /\ t[2] = f
      /\ \A h \in 1 .. n - 1 : t[n + 2 - h] = s[n - h]
  <2>1. <<callee, f>> \in Seq(Frame) /\ Len(<<callee, f>>) = 2 /\ <<callee, f>>[1] = callee
        /\ <<callee, f>>[2] = f
    OBVIOUS
  <2>2. t \in Seq(Frame) /\ Len(t) = 2 + Len(s)
        /\ \A i \in 1 .. 2 + Len(s) : t[i] = IF i <= 2 THEN <<callee, f>>[i] ELSE s[i - 2]
    BY ONLY <1>3, <1>4, <2>1, ConcatProperties
  <2>3. t[1] = callee /\ t[2] = f
    BY ONLY <1>3, <2>1, <2>2
  <2>4. ASSUME NEW h \in 1 .. n - 1 PROVE t[n + 2 - h] = s[n - h]
    <3>1. PICK i : i = n + 2 - h
      OBVIOUS
    <3>2. i \in 1 .. 2 + Len(s) /\ ~(i <= 2) /\ i - 2 = n - h
      BY ONLY <1>3, <3>1, h \in 1 .. n - 1
    <3> QED
      BY ONLY <2>2, <3>1, <3>2
  <2> QED
    BY ONLY <1>3, <2>2, <2>3, <2>4
<1>6. stack' = t
  BY <1>1, <1>2, <1>4
<1>7. AtDepth(stack', n + 1) = callee /\ AtDepth(stack', n) = f /\ \A h \in 1 .. n - 1 : AtDepth(stack', h) = s[n - h]
  <2>1. /\ n + 1 + 1 - (n + 1) = 1 /\ n + 1 + 1 - n = 2
        /\ \A h \in 1 .. n - 1 : n + 1 + 1 - h = n + 2 - h
    BY <1>3
  <2> QED
    BY <1>5, <1>6, <2>1 DEF AtDepth
<1> QED
  BY <1>2, <1>3, <1>5, <1>6, <1>7 DEF Enters, Depth

\* The innermost call returns.
LEMMA PopSteps ==
    ASSUME Types, stack # <<>>, Pop
    PROVE  Returns
<1>1. stack' = Below
  BY DEF Pop
<1>2. PICK s, n : s = Below /\ n = Depth
  OBVIOUS
<1>3. /\ s \in Seq(Frame) /\ n \in Nat \ {0} /\ Len(s) = n - 1
      /\ \A h \in 1 .. n - 1 : s[n - h] = CallAt(h)
  BY <1>2, TopCall
<1>4. \A h \in 1 .. n - 1 : AtDepth(stack', h) = s[n - h]
  <2>1. \A h \in 1 .. n - 1 : n - 1 + 1 - h = n - h
    BY <1>3
  <2> QED
    BY <1>1, <1>2, <1>3, <2>1 DEF AtDepth
<1> QED
  BY <1>1, <1>2, <1>3, <1>4 DEF Returns, Depth
\* Positions behind one another, around the end of the ring.
LEMMA WrapsAround ==
    ASSUME NEW h \in Positions, NEW k \in 0..MaxLength-1
    PROVE  (h + k) % MaxLength = Wrapped(h + k)
<1>1. PICK m, s : m = MaxLength /\ s = h + k
  OBVIOUS
<1>2. m \in Nat /\ m > 1 /\ s \in Nat /\ s < m + m
  BY <1>1, QueueAssumption DEF Positions
<1>3. s % m = IF s >= m THEN s - m ELSE s
  BY ONLY <1>2
<1> QED
  BY <1>1, <1>3 DEF Wrapped

\* The positions of a queue without the remainder
LEMMA QueuedIs ==
    ASSUME NEW r, RingOK(r)
    PROVE  Queued(r) = {p \in Positions : \/ r.head <= p /\ p < r.head + r.length
                                          \/ p + MaxLength < r.head + r.length}
<1>1. PICK m, h, n : m = MaxLength /\ h = r.head /\ n = r.length
  OBVIOUS
<1>2. m \in Nat /\ m > 1 /\ h \in 0..m-1 /\ n \in 0..m /\ Positions = 0..m-1
  BY <1>1, QueueAssumption DEF RingOK, Positions
<1>3. ASSUME NEW p \in Positions
      PROVE  (\E k \in 0..n-1 : p = (h + k) % m) <=> ((h <= p /\ p < h + n) \/ p + m < h + n)
  <2>1. \A k \in 0..n-1 : k \in 0..m-1 /\ (h + k) % m = IF h + k >= m THEN h + k - m ELSE h + k
    <3>1. \A k \in 0..n-1 : k \in 0..m-1
      BY ONLY <1>2
    <3>2. ASSUME NEW k \in 0..n-1
          PROVE  (h + k) % m = IF h + k >= m THEN h + k - m ELSE h + k
      <4>1. h \in Positions /\ k \in 0..MaxLength-1
        BY <1>1, <1>2, <3>1
      <4>2. (h + k) % MaxLength = Wrapped(h + k)
        BY ONLY <4>1, WrapsAround
      <4> QED
        BY ONLY <1>1, <1>2, <4>2 DEF Wrapped
    <3> QED
      BY <3>1, <3>2
  <2>2. p \in 0..m-1
    BY ONLY <1>2, p \in Positions
  <2>3. ASSUME NEW k \in 0..n-1, p = (h + k) % m
        PROVE  (h <= p /\ p < h + n) \/ p + m < h + n
    <3>1. p = IF h + k >= m THEN h + k - m ELSE h + k
      BY ONLY <2>1, <2>3
    <3> QED
      BY ONLY <1>2, <2>2, <3>1, k \in 0..n-1
  <2>4. ASSUME h <= p /\ p < h + n PROVE \E k \in 0..n-1 : p = (h + k) % m
    <3>1. PICK k : k = p - h
      OBVIOUS
    <3>2. k \in 0..n-1 /\ h + k = p /\ ~(h + k >= m)
      BY ONLY <1>2, <2>2, <2>4, <3>1
    <3> QED
      BY ONLY <2>1, <3>2
  <2>5. ASSUME p + m < h + n PROVE \E k \in 0..n-1 : p = (h + k) % m
    <3>1. PICK k : k = p + m - h
      OBVIOUS
    <3>2. k \in 0..n-1 /\ h + k >= m /\ h + k - m = p
      BY ONLY <1>2, <2>2, <2>5, <3>1
    <3> QED
      BY ONLY <2>1, <3>2
  <2> QED
    BY <2>3, <2>4, <2>5
<1> QED
  BY <1>1, <1>3 DEF Queued

\* What is queued when an entry is added, and when one is removed.
LEMMA QueuedEnds ==
    ASSUME NEW r, RingInv(r)
    PROVE  /\ Queued(r) \subseteq Positions
           /\ r.length = 0 => Queued(r) = {}
           /\ r.length > 0 => r.head \in Queued(r) /\ r.tail \in Queued(r)
           /\ r.head \in Positions /\ r.tail \in Positions
<1>1. RingOK(r)
  BY DEF RingInv
<1>2. /\ MaxLength \in Nat /\ MaxLength > 1 /\ r.head \in 0..MaxLength-1
      /\ r.tail \in 0..MaxLength-1 /\ r.length \in 0..MaxLength
      /\ r.tail = IF r.length = 0 THEN r.head
                  ELSE IF r.head + r.length - 1 >= MaxLength THEN r.head + r.length - 1 - MaxLength
                  ELSE r.head + r.length - 1
  BY <1>1, QueueAssumption DEF RingOK, Positions, Wrapped
<1> QED
  BY <1>1, <1>2, QueuedIs DEF Positions

\* A new entry takes a position that has not been queued.
LEMMA NewEntryQueued ==
    ASSUME NEW r, RingInv(r), r.length < MaxLength, NEW s, s = NewEntry(r)
    PROVE  /\ NewTail(r) \in Positions /\ NewTail(r) \notin Queued(r)
           /\ Queued(s) = Queued(r) \cup {NewTail(r)} /\ s.tail = NewTail(r)
           /\ s.length > 0
<1>1. RingOK(r) /\ RingInv(s) /\ RingOK(s)
  BY NewEntryRing DEF RingInv
<1>2. /\ MaxLength \in Nat /\ MaxLength > 1 /\ r.head \in 0..MaxLength-1
      /\ r.tail \in 0..MaxLength-1 /\ r.length \in 0..MaxLength
      /\ r.tail = IF r.length = 0 THEN r.head
                  ELSE IF r.head + r.length - 1 >= MaxLength THEN r.head + r.length - 1 - MaxLength
                  ELSE r.head + r.length - 1
  BY <1>1, QueueAssumption DEF RingOK, Positions, Wrapped
<1>3. s.head = r.head /\ s.length = r.length + 1 /\ s.tail = NewTail(r)
  <2>1. ASSUME NEW n, NEW w, w = [r EXCEPT !.tail = n, !.length = @ + 1,
                                          !.data[n] = BlankEntry]
        PROVE  w.head = r.head /\ w.tail = n /\ w.length = r.length + 1
    BY <2>1 DEF RingInv, IsRing
  <2> QED
    BY <2>1 DEF NewEntry
<1>4. NewTail(r) = IF r.head + r.length >= MaxLength THEN r.head + r.length - MaxLength
                   ELSE r.head + r.length
  BY <1>2 DEF NewTail, Succ
<1>5. NewTail(r) \in Positions /\ NewTail(r) \notin Queued(r)
  BY <1>1, <1>2, <1>4, QueuedIs DEF Positions
<1>6. Queued(s) = {p \in Positions : \/ r.head <= p /\ p < r.head + (r.length + 1)
                                     \/ p + MaxLength < r.head + (r.length + 1)}
  BY <1>1, <1>3, QueuedIs
<1>7. Queued(s) = Queued(r) \cup {NewTail(r)}
  BY <1>1, <1>2, <1>4, <1>6, QueuedIs DEF Positions
<1> QED
  BY <1>2, <1>3, <1>5, <1>7

\* What is removed is one position, whatever is asked for.
LEMMA RemoveQueued ==
    ASSUME NEW r, RingInv(r), NEW p, NEW s, s = Remove(r, p)
    PROVE  /\ Queued(s) \subseteq Queued(r) /\ Queued(r) \ {p} \subseteq Queued(s)
           /\ s.data = r.data /\ s.length <= r.length
           /\ s.length \in 0..MaxLength
<1>1. RingOK(r) /\ RingInv(s) /\ RingOK(s)
  BY RemoveRing DEF RingInv
<1>2. /\ MaxLength \in Nat /\ MaxLength > 1 /\ r.head \in 0..MaxLength-1
      /\ r.tail \in 0..MaxLength-1 /\ r.length \in 0..MaxLength
      /\ r.tail = IF r.length = 0 THEN r.head
                  ELSE IF r.head + r.length - 1 >= MaxLength THEN r.head + r.length - 1 - MaxLength
                  ELSE r.head + r.length - 1
  BY <1>1, QueueAssumption DEF RingOK, Positions, Wrapped
<1>3. \/ s = r
      \/ /\ r.length # 0 /\ p = r.head /\ s.data = r.data /\ s.length = r.length - 1
         /\ s.head = IF p = r.tail THEN p ELSE Succ(p)
      \/ /\ r.length # 0 /\ p = r.tail /\ s.data = r.data /\ s.length = r.length - 1
         /\ s.head = r.head
  BY DEF Remove, RingInv, IsRing
<1>4. CASE s = r
  BY <1>2, <1>4, QueueAssumption
<1>5. CASE /\ r.length # 0 /\ p = r.head /\ s.data = r.data /\ s.length = r.length - 1
           /\ s.head = IF p = r.tail THEN p ELSE Succ(p)
  <2>1. Queued(s) \subseteq Queued(r) /\ Queued(r) \ {p} \subseteq Queued(s)
    BY <1>1, <1>2, <1>5, QueuedIs DEF Positions, Succ
  <2> QED
    BY <1>2, <1>5, <2>1
<1>6. CASE /\ r.length # 0 /\ p = r.tail /\ s.data = r.data /\ s.length = r.length - 1
           /\ s.head = r.head
  <2>1. Queued(s) \subseteq Queued(r) /\ Queued(r) \ {p} \subseteq Queued(s)
    BY <1>1, <1>2, <1>6, QueuedIs DEF Positions
  <2> QED
    BY <1>2, <1>6, <2>1
<1> QED
  BY <1>3, <1>4, <1>5, <1>6
----------------------------------------------------------------------------
\* What calls in progress rely on

\* What the calls in progress see of an operation that is not theirs.
SameOp(o) ==
    /\ ops'[o].state = ops[o].state /\ ops'[o].dst = ops[o].dst
    /\ ops'[o].dstPos = ops[o].dstPos /\ ops'[o].refCount = ops[o].refCount
    /\ ops'[o].deleteMe = ops[o].deleteMe
    /\ ops[o].state = "live" /\ ops[o].dstPos # InvalidPosition => StatusOf(o)' = StatusOf(o)
Suits(f) ==
    \/ f.at \in Resting
    \/ SameOp(f.op)
    \/ /\ f.at = "flushed" /\ ops'[f.op].state = ops[f.op].state
       /\ ops'[f.op].deleteMe = ops[f.op].deleteMe
Goes(o) == /\ ops[o].state # "new" => ops'[o].state # "new"
           /\ Entered(o) => Entered(o)'

\* A call finds what it relies on after a step that leaves its operation alone.
LEMMA FrameStays ==
    ASSUME NEW f, FrameOK(f), Suits(f), \A o \in Ops : Goes(o)
    PROVE  FrameOK(f)'
<1>1. CASE f.at \in Resting
  BY <1>1 DEF FrameOK, Goes, Points, Executing, Syncing, Deletes, Inserting, Resting
<1>2. CASE f.at \notin Resting /\ SameOp(f.op)
  BY <1>2 DEF FrameOK, Goes, SameOp, Live, Points, Executing, Syncing, Deletes, Inserting, Resting
<1>3. CASE /\ f.at = "flushed" /\ ops'[f.op].state = ops[f.op].state
           /\ ops'[f.op].deleteMe = ops[f.op].deleteMe
  BY <1>3 DEF FrameOK, Goes, Live, Points, Executing, Syncing, Deletes, Inserting, Resting, OnObject, OnEntry, Counting
<1> QED
  BY <1>1, <1>2, <1>3 DEF Suits

LowerSame == \A h \in 1 .. Depth - 1 : AtDepth(stack', h) = CallAt(h)
LowerSuit == \A h \in 1 .. Depth - 1 : \A f : f = CallAt(h) => Suits(f)

\* Lower frames stay what they are.  When the innermost call begins a flush, the
\* operation has an entry.
LEMMA FramesFrom ==
    ASSUME NEW n, Depth' = n,
           \A h \in 1 .. n : \A g : g = AtDepth(stack', h) =>
              /\ FrameOK(g)'
              /\ g.at \in Inserting \cup {"flushed"} => h = 1
              /\ g.at = "flush" => h = n
              /\ Waits(g) =>
                   \/ Entered(Awaited(g))'
                   \/ /\ h + 1 = n /\ AtDepth(stack', n).at = "flush"
                      /\ AtDepth(stack', n).op = Awaited(g)
    PROVE  FramesOK'
<1>1. ASSUME NEW h \in 1 .. n, NEW g, g = AtDepth(stack', h)
      PROVE  /\ FrameOK(CallAt(h))'
             /\ (CallAt(h).at \in Inserting \cup {"flushed"} => h = 1)'
             /\ (CallAt(h).at = "flush" => h = Depth)'
             /\ (Waits(CallAt(h)) =>
                   \/ Entered(Awaited(CallAt(h)))
                   \/ h + 1 = Depth /\ CallAt(Depth).at = "flush"
                      /\ CallAt(Depth).op = Awaited(CallAt(h)))'
  <2>1. g = CallAt(h)' /\ CallAt(Depth)' = AtDepth(stack', n)
    BY <1>1 DEF CallAt
  <2>2. /\ FrameOK(g)'
        /\ g.at \in Inserting \cup {"flushed"} => h = 1
        /\ g.at = "flush" => h = n
        /\ Waits(g) =>
             \/ Entered(Awaited(g))'
             \/ /\ h + 1 = n /\ AtDepth(stack', n).at = "flush"
                /\ AtDepth(stack', n).op = Awaited(g)
    BY <1>1
  <2>3. FrameOK(CallAt(h))'
    BY <2>1, <2>2 DEF FrameOK, Live, StatusOf, EntryOf
  <2>4. (CallAt(h).at \in Inserting \cup {"flushed"} => h = 1)'
    BY <2>1, <2>2
  <2>5. (CallAt(h).at = "flush" => h = Depth)'
    BY <2>1, <2>2
  <2>6. (Waits(CallAt(h)) =>
                   \/ Entered(Awaited(CallAt(h)))
                   \/ h + 1 = Depth /\ CallAt(Depth).at = "flush"
                      /\ CallAt(Depth).op = Awaited(CallAt(h)))'
    BY <2>1, <2>2 DEF Waits, Awaited, Entered
  <2> QED
    BY <2>3, <2>4, <2>5, <2>6
<1>2. ASSUME NEW h \in 1 .. n
      PROVE  /\ FrameOK(CallAt(h))'
             /\ (CallAt(h).at \in Inserting \cup {"flushed"} => h = 1)'
             /\ (CallAt(h).at = "flush" => h = Depth)'
             /\ (Waits(CallAt(h)) =>
                   \/ Entered(Awaited(CallAt(h)))
                   \/ h + 1 = Depth /\ CallAt(Depth).at = "flush"
                      /\ CallAt(Depth).op = Awaited(CallAt(h)))'
  BY <1>1
<1> QED
  BY <1>2 DEF FramesOK

\* What holds of the calls below the innermost one after a step
LEMMA LowerFrames ==
    ASSUME FramesOK, Depth \in Nat \ {0}, LowerSuit, \A o \in Ops : Goes(o),
           CallAt(Depth).at = "flush" => Entered(CallAt(Depth).op),
           NEW h \in 1 .. Depth - 1, NEW f, f = CallAt(h)
    PROVE  /\ FrameOK(f)'
           /\ f.at \in Inserting \cup {"flushed"} => h = 1
           /\ f.at # "flush"
           /\ Waits(f) => Entered(Awaited(f))'
<1>1. /\ h \in 1 .. Depth /\ h # Depth
  OBVIOUS
<1>2. /\ FrameOK(f)
      /\ f.at \in Inserting \cup {"flushed"} => h = 1
      /\ f.at # "flush"
      /\ Waits(f) => \/ Entered(Awaited(f))
                     \/ h + 1 = Depth /\ CallAt(Depth).at = "flush"
                        /\ CallAt(Depth).op = Awaited(f)
  BY <1>1 DEF FramesOK
<1>3. Suits(f)
  BY DEF LowerSuit
<1>5. FrameOK(f)'
  BY <1>2, <1>3, FrameStays
<1>7. ASSUME Waits(f) PROVE Awaited(f) \in Ops /\ Entered(Awaited(f))'
  <2>1. Awaited(f) \in Ops
    <3>1. f.at = "evaluated" => f.dependent \in Ops
      BY <1>2 DEF FrameOK
    <3>2. f.at = "flushed" => f.op \in Ops
      BY <1>2 DEF FrameOK, Resting
    <3> QED
      BY <1>7, <3>1, <3>2 DEF Awaited, Waits
  <2>2. Entered(Awaited(f))
    BY <1>2, <1>7
  <2> QED
    BY <2>1, <2>2 DEF Goes
<1> QED
  BY <1>2, <1>5, <1>7

\* The innermost call goes on as f.
LEMMA FramesContinue ==
    ASSUME FramesOK, Depth \in Nat \ {0}, LowerSuit, \A o \in Ops : Goes(o),
           CallAt(Depth).at = "flush" => Entered(CallAt(Depth).op),
           NEW f, Continues(f), FrameOK(f)', f.at \in Inserting \cup {"flushed"} => Depth = 1,
           Waits(f) => Entered(Awaited(f))'
    PROVE  FramesOK'
<1>0. PICK n \in Nat \ {0} : n = Depth
  OBVIOUS
<1>1. Depth' = n /\ AtDepth(stack', n) = f /\ \A h \in 1 .. n - 1 : AtDepth(stack', h) = CallAt(h)
  BY <1>0 DEF Continues
<1>2. ASSUME NEW h \in 1 .. n, NEW g, g = AtDepth(stack', h)
      PROVE  /\ FrameOK(g)'
             /\ g.at \in Inserting \cup {"flushed"} => h = 1
             /\ g.at = "flush" => h = n
             /\ Waits(g) => Entered(Awaited(g))'
  <2>1. CASE h \in 1 .. n - 1
    <3>1. g = CallAt(h)
      BY <1>1, <1>2, <2>1
    <3> QED
      BY <1>0, <2>1, <3>1, LowerFrames
  <2>2. CASE h = n
    <3>1. g = f
      BY <1>1, <1>2, <2>2
    <3> QED
      BY <1>0, <2>2, <3>1
  <2> QED
    BY <2>1, <2>2
<1> QED
  BY <1>1, <1>2, FramesFrom

\* It makes a call and goes on as f afterwards.
LEMMA FramesEnter ==
    ASSUME FramesOK, Depth \in Nat \ {0}, LowerSuit, \A o \in Ops : Goes(o),
           CallAt(Depth).at = "flush" => Entered(CallAt(Depth).op),
           NEW callee, NEW f, Enters(callee, f), FrameOK(f)', FrameOK(callee)',
           f.at \in Inserting \cup {"flushed"} => Depth = 1, f.at # "flush",
           callee.at \notin Inserting \cup {"flushed"}, ~Waits(callee),
           Waits(f) => Entered(Awaited(f))' \/ (callee.at = "flush" /\ callee.op = Awaited(f))
    PROVE  FramesOK'
<1>0. PICK n \in Nat \ {0} : n = Depth
  OBVIOUS
<1>1. /\ Depth' = n + 1 /\ AtDepth(stack', n + 1) = callee /\ AtDepth(stack', n) = f
      /\ \A h \in 1 .. n - 1 : AtDepth(stack', h) = CallAt(h)
  BY <1>0 DEF Enters
<1>2. ASSUME NEW h \in 1 .. n + 1, NEW g, g = AtDepth(stack', h)
      PROVE  /\ FrameOK(g)'
             /\ g.at \in Inserting \cup {"flushed"} => h = 1
             /\ g.at = "flush" => h = n + 1
             /\ Waits(g) =>
                  \/ Entered(Awaited(g))'
                  \/ h + 1 = n + 1 /\ callee.at = "flush" /\ callee.op = Awaited(g)
  <2>1. CASE h \in 1 .. n - 1
    <3>1. g = CallAt(h)
      BY <1>1, <1>2, <2>1
    <3> QED
      BY <1>0, <2>1, <3>1, LowerFrames
  <2>2. CASE h = n
    <3>1. g = f
      BY <1>1, <1>2, <2>2
    <3> QED
      BY <1>0, <2>2, <3>1
  <2>3. CASE h = n + 1
    <3>1. g = callee
      BY <1>1, <1>2, <2>3
    <3> QED
      BY <2>3, <3>1
  <2> QED
    BY <2>1, <2>2, <2>3
<1> QED
  BY <1>1, <1>2, FramesFrom

\* It returns.
LEMMA FramesReturn ==
    ASSUME FramesOK, Depth \in Nat \ {0}, LowerSuit, \A o \in Ops : Goes(o),
           CallAt(Depth).at = "flush" => Entered(CallAt(Depth).op), Returns
    PROVE  FramesOK'
<1>0. PICK n \in Nat : n = Depth - 1
  OBVIOUS
<1>1. Depth' = n /\ \A h \in 1 .. n : AtDepth(stack', h) = CallAt(h)
  BY <1>0 DEF Returns
<1>2. ASSUME NEW h \in 1 .. n, NEW g, g = AtDepth(stack', h)
      PROVE  /\ FrameOK(g)'
             /\ g.at \in Inserting \cup {"flushed"} => h = 1
             /\ g.at = "flush" => h = n
             /\ Waits(g) => Entered(Awaited(g))'
  <2>1. g = CallAt(h) /\ h \in 1 .. Depth - 1
    BY <1>0, <1>1, <1>2
  <2> QED
    BY <2>1, LowerFrames
<1> QED
  BY <1>1, <1>2, FramesFrom
----------------------------------------------------------------------------
\* The order of calls in progress

\* The order of the stack, in terms of the frames at two heights
Ordered(f, g) ==
    /\ f.at \in Executing /\ g.at \in Executing \cup Syncing => f.op # g.op
    /\ g.at \in Deletes => f.at \in Deletes /\ f.op < g.op
Fits(f) == \A k \in 1 .. Depth - 1 : \A g : g = CallAt(k) => Ordered(f, g)

\* Two calls in progress are in order.
LEMMA OrderedBelow ==
    ASSUME StackOrder, NEW h \in 1 .. Depth, NEW k \in 1 .. h - 1
    PROVE  Ordered(CallAt(h), CallAt(k))
  BY DEF StackOrder, Ordered

\* The order of calls, counted from the outermost one
LEMMA OrderFrom ==
    ASSUME NEW n, Depth' = n,
           \A h \in 1 .. n : \A k \in 1 .. h - 1 :
              Ordered(AtDepth(stack', h), AtDepth(stack', k))
    PROVE  StackOrder'
  BY DEF StackOrder, CallAt, Ordered

\* The order of calls when the innermost one goes on
LEMMA OrderContinue ==
    ASSUME StackOrder, Depth \in Nat \ {0}, NEW f, Continues(f), Fits(f)
    PROVE  StackOrder'
<1>0. PICK n \in Nat \ {0} : n = Depth
  OBVIOUS
<1>1. Depth' = n /\ AtDepth(stack', n) = f /\ \A h \in 1 .. n - 1 : AtDepth(stack', h) = CallAt(h)
  BY <1>0 DEF Continues
<1>2. ASSUME NEW h \in 1 .. n, NEW k \in 1 .. h - 1
      PROVE  Ordered(AtDepth(stack', h), AtDepth(stack', k))
  <2>0. k \in 1 .. n - 1 /\ AtDepth(stack', k) = CallAt(k)
    BY <1>1
  <2>1. CASE h \in 1 .. n - 1
    BY <1>0, <1>1, <2>0, <2>1, OrderedBelow
  <2>2. CASE h = n
    BY <1>0, <1>1, <2>0, <2>2 DEF Fits
  <2> QED
    BY <2>1, <2>2
<1> QED
  BY <1>1, <1>2, OrderFrom

\* The order of calls when another one is made
LEMMA OrderEnter ==
    ASSUME StackOrder, Depth \in Nat \ {0}, NEW callee, NEW f, Enters(callee, f),
           Fits(f), Fits(callee), Ordered(callee, f)
    PROVE  StackOrder'
<1>0. PICK n \in Nat \ {0} : n = Depth
  OBVIOUS
<1>1. /\ Depth' = n + 1 /\ AtDepth(stack', n + 1) = callee /\ AtDepth(stack', n) = f
      /\ \A h \in 1 .. n - 1 : AtDepth(stack', h) = CallAt(h)
  BY <1>0 DEF Enters
<1>2. ASSUME NEW h \in 1 .. n + 1, NEW k \in 1 .. h - 1
      PROVE  Ordered(AtDepth(stack', h), AtDepth(stack', k))
  <2>0. k \in 1 .. n /\ (k \in 1 .. n - 1 \/ k = n) /\ (k \in 1 .. n - 1 => AtDepth(stack', k) = CallAt(k))
    BY <1>1
  <2>1. CASE h \in 1 .. n - 1
    BY <1>0, <1>1, <2>0, <2>1, OrderedBelow
  <2>2. CASE h = n
    BY <1>0, <1>1, <2>0, <2>2 DEF Fits
  <2>3. CASE h = n + 1
    BY <1>0, <1>1, <2>0, <2>3 DEF Fits
  <2> QED
    BY <2>1, <2>2, <2>3
<1> QED
  BY <1>1, <1>2, OrderFrom

\* The order of calls when the innermost one returns
LEMMA OrderReturn ==
    ASSUME StackOrder, Depth \in Nat \ {0}, Returns
    PROVE  StackOrder'
<1>0. PICK n \in Nat : n = Depth - 1
  OBVIOUS
<1>1. Depth' = n /\ \A h \in 1 .. n : AtDepth(stack', h) = CallAt(h)
  BY <1>0 DEF Returns
<1>2. ASSUME NEW h \in 1 .. n, NEW k \in 1 .. h - 1
      PROVE  Ordered(AtDepth(stack', h), AtDepth(stack', k))
  <2>0. k \in 1 .. n /\ h \in 1 .. Depth
    BY <1>0
  <2> QED
    BY <1>1, <2>0, OrderedBelow
<1> QED
  BY <1>1, <1>2, OrderFrom

\* A call that is about the same operation as the innermost one
LEMMA FitsLike ==
    ASSUME StackOrder, Depth \in Nat \ {0}, NEW f,
           f.at \in Executing => CallAt(Depth).at \in Executing /\ f.op = CallAt(Depth).op,
           CallAt(Depth).at \in Deletes => f.at \in Deletes /\ f.op = CallAt(Depth).op
    PROVE  Fits(f)
<1>1. ASSUME NEW k \in 1 .. Depth - 1, NEW g, g = CallAt(k) PROVE Ordered(f, g)
  <2>1. Ordered(CallAt(Depth), g)
    BY <1>1, OrderedBelow
  <2> QED
    BY <2>1 DEF Ordered
<1> QED
  BY <1>1 DEF Fits

\* Nothing is being deleted, unless the innermost call does.
LEMMA NoneDeleting ==
    ASSUME StackOrder, Depth \in Nat, Depth > 0 => CallAt(Depth).at \notin Deletes
    PROVE  /\ \A o : ~Deleting(o)
           /\ \A o, i : ~Passed(o, i)
           /\ \A h \in 1 .. Depth : CallAt(h).at \notin Deletes
<1>1. ASSUME NEW h \in 1 .. Depth PROVE CallAt(h).at \notin Deletes
  <2>1. CASE h = Depth
    BY <2>1
  <2>2. CASE h < Depth
    <3>1. Depth \in 1 .. Depth /\ h \in 1 .. Depth - 1
      BY <2>2
    <3>2. Ordered(CallAt(Depth), CallAt(h))
      BY <3>1, OrderedBelow
    <3> QED
      BY <3>2 DEF Ordered
  <2> QED
    BY <2>1, <2>2
<1> QED
  BY <1>1 DEF Deleting, Passed

Fresh(f) == f.at \in Deletes => f.at = "sources" /\ f.i = 1

\* A destructor that begins has not left any source.
LEMMA FreshDeletes ==
    ASSUME StackOrder, Depth \in Nat \ {0}, CallAt(Depth).at \notin Deletes,
           \/ \E f : Continues(f) /\ Fresh(f)
           \/ \E callee, f : Enters(callee, f) /\ Fresh(callee) /\ Fresh(f)
           \/ Returns
    PROVE  \A o : \A i \in Nat \ {0} : ~Passed(o, i)'
<1>1. \A h \in 1 .. Depth : CallAt(h).at \notin Deletes
  BY NoneDeleting
<1>2. ASSUME NEW h \in 1 .. Depth' PROVE Fresh(AtDepth(stack', h))
  <2>1. ASSUME NEW f, Continues(f), Fresh(f) PROVE Fresh(AtDepth(stack', h))
    BY <1>1, <2>1 DEF Continues, Fresh
  <2>2. ASSUME NEW callee, NEW f, Enters(callee, f), Fresh(callee), Fresh(f)
        PROVE Fresh(AtDepth(stack', h))
    <3>1. h \in 1 .. Depth - 1 \/ h = Depth \/ h = Depth + 1
      BY <2>2 DEF Enters
    <3> QED
      BY <1>1, <2>2, <3>1 DEF Enters, Fresh
  <2>3. ASSUME Returns PROVE Fresh(AtDepth(stack', h))
    BY <1>1, <2>3 DEF Returns, Fresh
  <2> QED
    BY <2>1, <2>2, <2>3
<1>3. ASSUME NEW o, NEW i \in Nat \ {0}, NEW h \in 1 .. Depth', NEW g, g = AtDepth(stack', h),
             g.at \in Deletes, g.at = "sources" => i < g.i
      PROVE  FALSE
  <2>1. Fresh(g)
    BY <1>2, <1>3
  <2> QED
    BY <1>3, <2>1 DEF Fresh
<1> QED
  BY <1>3 DEF Passed, CallAt

\* Steps that leave rings and operations as they are, but for what the links
\* are not about
SameLinks(o) ==
    /\ ops'[o].state = ops[o].state /\ ops'[o].dst = ops[o].dst
    /\ ops'[o].dstPos = ops[o].dstPos /\ ops'[o].src = ops[o].src
    /\ ops'[o].srcPos = ops[o].srcPos /\ ops'[o].srcOp = ops[o].srcOp
SameEntries(x) ==
    /\ Queued(q'[x]) \subseteq Queued(q[x])
    /\ \A p \in Queued(q[x]) : p \notin Queued(q'[x]) =>
          q[x].data[p].op = NoOp /\ q[x].data[p].deps = <<>>
    /\ \A p \in Positions : /\ q'[x].data[p].op = q[x].data[p].op
                            /\ q'[x].data[p].deps = q[x].data[p].deps

\* Queued positions are positions.
LEMMA QueuedPositions ==
    ASSUME NEW r PROVE Queued(r) \subseteq Positions
  BY DEF Queued

\* A step that changes no creator, no dependent and no link of an operation keeps the
\* links in agreement; blank entries may leave the queues.
LEMMA LinksKept ==
    ASSUME Types, AllOpLinks, AllEntryLinks, inserted' = inserted,
           \A o \in Ops : SameLinks(o), \A x \in Objects : SameEntries(x),
           \A o : Deleting(o) => Deleting(o)',
           \A o \in Ops : \A i \in Nat \ {0} : Passed(o, i)' =>
              Passed(o, i) \/ i \notin 1..Len(ops[o].src) \/ ops[o].src[i] = NoObject
    PROVE  AllOpLinks' /\ AllEntryLinks'
<1>1. ASSUME NEW o \in Ops PROVE OpLinks(o)'
  <2>1. OpLinks(o) /\ SameLinks(o)
    BY DEF AllOpLinks
  <2>2. ASSUME ops[o].state = "live", ops[o].dstPos # InvalidPosition
        PROVE  /\ ops[o].dst \in Objects
               /\ ops[o].dstPos \in Queued(q'[ops[o].dst])
               /\ q'[ops[o].dst].data[ops[o].dstPos].op = o
    <3>1. ops[o].dst \in Objects /\ ops[o].dstPos \in Queued(q[ops[o].dst])
          /\ q[ops[o].dst].data[ops[o].dstPos].op = o
      BY <2>1, <2>2 DEF OpLinks, EntryOf
    <3>2. SameEntries(ops[o].dst) /\ ops[o].dstPos \in Positions
      BY <3>1, QueuedPositions
    <3>3. o # NoOp
      BY DEF Ops, NoOp
    <3> QED
      BY <3>1, <3>2, <3>3 DEF SameEntries
  <2>3. ASSUME ops[o].state = "live", NEW i \in 1..Len(ops[o].src), ~Deleting(o)'
        PROVE  /\ ops[o].src[i] \in Objects
               /\ ops[o].srcPos[i] \in Queued(q'[ops[o].src[i]])
               /\ \E k \in DOMAIN q'[ops[o].src[i]].data[ops[o].srcPos[i]].deps :
                     q'[ops[o].src[i]].data[ops[o].srcPos[i]].deps[k] = o
               /\ ops[o].srcOp[i] = q'[ops[o].src[i]].data[ops[o].srcPos[i]].op
    <3>1. Knows(o, i)
      BY <2>1, <2>3 DEF OpLinks
    <3>2. SameEntries(ops[o].src[i]) /\ ops[o].srcPos[i] \in Positions
      BY <3>1, QueuedPositions DEF Knows
    <3>3. q[ops[o].src[i]].data[ops[o].srcPos[i]].deps # <<>>
      <4>1. ~Lists(<<>>, o)
        BY DEF Lists
      <4>2. Lists(q[ops[o].src[i]].data[ops[o].srcPos[i]].deps, o)
        BY <3>1 DEF Knows, DependsOn, EntryOf
      <4> QED
        BY <4>1, <4>2
    <3> QED
      BY <3>1, <3>2, <3>3 DEF SameEntries, Knows, DependsOn, Lists, EntryOf
  <2>4. ASSUME ops[o].state = "live", NEW i \in 1..Len(ops[o].src), ops[o].src[i] # NoObject
        PROVE  q'[ops[o].src[i]].data[ops[o].srcPos[i]].op < o
    <3>1. q[ops[o].src[i]].data[ops[o].srcPos[i]].op < o /\ Len(ops[o].srcPos) = Len(ops[o].src)
      BY <2>1, <2>4 DEF OpLinks, EntryOf
    <3>2. ops[o].src[i] \in Objects /\ ops[o].srcPos[i] \in Positions
      <4>1. ops[o].src \in Seq(Objects \cup {NoObject}) /\ ops[o].srcPos \in Seq(Positions)
        BY DEF Types, Op
      <4> QED
        BY <2>4, <3>1, <4>1
    <3> QED
      BY <3>1, <3>2 DEF SameEntries
  <2>5. ASSUME ops'[o].state = "live", NEW i \in 1..Len(ops'[o].src)
        PROVE  /\ (~Deleting(o) => Knows(o, i))'
               /\ (ops[o].src[i] # NoObject =>
                       EntryOf(ops[o].src[i], ops[o].srcPos[i]).op < o)'
    <3>1. ops[o].state = "live" /\ i \in 1..Len(ops[o].src)
      BY <2>1, <2>5 DEF SameLinks
    <3>2. ASSUME ~Deleting(o)' PROVE Knows(o, i)'
      <4>1. /\ ops[o].src[i] \in Objects
            /\ ops[o].srcPos[i] \in Queued(q'[ops[o].src[i]])
            /\ \E k \in DOMAIN q'[ops[o].src[i]].data[ops[o].srcPos[i]].deps :
                  q'[ops[o].src[i]].data[ops[o].srcPos[i]].deps[k] = o
            /\ ops[o].srcOp[i] = q'[ops[o].src[i]].data[ops[o].srcPos[i]].op
        BY <2>3, <3>1, <3>2
      <4>2. ops'[o].src = ops[o].src /\ ops'[o].srcPos = ops[o].srcPos /\ ops'[o].srcOp = ops[o].srcOp
        BY <2>1 DEF SameLinks
      <4> QED
        BY ONLY <4>1, <4>2 DEF Knows, DependsOn, Lists, EntryOf
    <3>3. (ops[o].src[i] # NoObject =>
                       EntryOf(ops[o].src[i], ops[o].srcPos[i]).op < o)'
      BY <2>1, <2>4, <3>1 DEF SameLinks, EntryOf
    <3> QED
      BY <3>2, <3>3
  <2>6. ASSUME ops'[o].state = "live"
        PROVE  /\ o <= inserted'
               /\ (ops[o].dstPos # InvalidPosition =>
                    /\ ops[o].dst \in Objects
                    /\ ops[o].dstPos \in Queued(q[ops[o].dst])
                    /\ EntryOf(ops[o].dst, ops[o].dstPos).op = o)'
               /\ Len(ops'[o].srcPos) = Len(ops'[o].src)
               /\ Len(ops'[o].srcOp) = Len(ops'[o].src)
    <3>1. ops[o].state = "live"
      BY <2>1, <2>6 DEF SameLinks
    <3>2. o <= inserted /\ Len(ops[o].srcPos) = Len(ops[o].src) /\ Len(ops[o].srcOp) = Len(ops[o].src)
      BY <2>1, <3>1 DEF OpLinks
    <3> QED
      BY <2>1, <2>2, <3>1, <3>2 DEF SameLinks, EntryOf
  <2>7. o > inserted' => ops'[o].state = "new"
    BY <2>1 DEF OpLinks, SameLinks
  <2> QED
    BY <2>5, <2>6, <2>7 DEF OpLinks
<1>2. ASSUME NEW x \in Objects, NEW p \in Positions PROVE EntryLinks(x, p)'
  <2>1. EntryLinks(x, p) /\ SameEntries(x)
    BY DEF AllEntryLinks
  <2>2. q'[x].data[p].op = q[x].data[p].op /\ q'[x].data[p].deps = q[x].data[p].deps
        /\ (p \notin Queued(q'[x]) =>
              p \notin Queued(q[x]) \/ (q[x].data[p].op = NoOp /\ q[x].data[p].deps = <<>>))
    BY <2>1 DEF SameEntries
  <2>3. q[x].data[p].op \in Ops \cup {NoOp}
    BY DEF Types, Ring, Entry
  <2>4. ASSUME q[x].data[p].op # NoOp
        PROVE  /\ ops'[q[x].data[p].op].state = "live" /\ ops'[q[x].data[p].op].dst = x
               /\ ops'[q[x].data[p].op].dstPos = p
    <3>1. SameLinks(q[x].data[p].op)
      BY <2>3, <2>4
    <3> QED
      BY <2>1, <2>4, <3>1 DEF EntryLinks, EntryOf, SameLinks, Live
  <2>5. ASSUME NEW d \in Ops, \E k \in DOMAIN q[x].data[p].deps : q[x].data[p].deps[k] = d
        PROVE  /\ ops'[d].state = "live"
               /\ \E i \in 1..Len(ops'[d].src) :
                     ops'[d].src[i] = x /\ ops'[d].srcPos[i] = p /\ ~Passed(d, i)'
    <3>1. SameLinks(d)
      OBVIOUS
    <3>2. Live(d)
      BY <2>1, <2>5 DEF EntryLinks, EntryOf, DependsOn, Lists
    <3>3. PICK i \in 1..Len(ops[d].src) : ops[d].src[i] = x /\ ops[d].srcPos[i] = p /\ ~Passed(d, i)
      BY <2>1, <2>5 DEF EntryLinks, EntryOf, DependsOn, Lists
    <3>4. i \in Nat \ {0}
      <4>1. ops[d].src \in Seq(Objects \cup {NoObject})
        BY DEF Types, Op
      <4>2. Len(ops[d].src) \in Nat
        BY <4>1
      <4> QED
        BY <4>2
    <3>5. ~Passed(d, i)'
      <4>1. ops[d].src[i] # NoObject
        BY <3>3, QueueAssumption
      <4> QED
        BY <3>3, <3>4, <4>1
    <3> QED
      BY <3>1, <3>2, <3>3, <3>5 DEF SameLinks, Live
  <2>6. p \notin Queued(q'[x]) => q'[x].data[p].op = NoOp /\ q'[x].data[p].deps = <<>>
    BY <2>1, <2>2 DEF EntryLinks, EntryOf
  <2> QED
    BY <2>2, <2>4, <2>5, <2>6 DEF EntryLinks, EntryOf, DependsOn, Lists, Live
<1> QED
  BY <1>1, <1>2 DEF AllOpLinks, AllEntryLinks
----------------------------------------------------------------------------
\* Steps that change no link

\* What a step that neither adds nor removes links has to say about the calls in
\* progress: the innermost one goes on as f, makes a call, or returns.
Follows(f) ==
    /\ FrameOK(f)' /\ Fits(f) /\ Fresh(f)
    /\ f.at \in Inserting \cup {"flushed"} => Depth = 1
Called(callee) ==
    /\ FrameOK(callee)' /\ Fresh(callee)
    /\ callee.at \notin Inserting \cup Executing \cup {"flushed", "evaluated"}
GoesOn(f) == Continues(f) /\ Follows(f) /\ (Waits(f) => Entered(Awaited(f))')
MakesCall(callee, f) ==
    /\ Enters(callee, f) /\ Follows(f) /\ Called(callee)
    /\ f.at \notin Deletes /\ f.at # "flush"
    /\ Waits(f) => Entered(Awaited(f))' \/ (callee.at = "flush" /\ callee.op = Awaited(f))

\* The stack after a step of a call that deletes nothing itself
LEMMA StackStep ==
    ASSUME FramesOK, StackOrder, Depth \in Nat \ {0}, CallAt(Depth).at \notin Deletes,
           LowerSuit, \A o \in Ops : Goes(o),
           CallAt(Depth).at = "flush" => Entered(CallAt(Depth).op),
           \/ \E f : GoesOn(f)
           \/ \E callee, f : MakesCall(callee, f)
           \/ Returns
    PROVE  /\ FramesOK' /\ StackOrder'
           /\ \A o : \A i \in Nat \ {0} : ~Passed(o, i)'
<1>1. \A o : \A i \in Nat \ {0} : ~Passed(o, i)'
  <2>1. \/ \E f : Continues(f) /\ Fresh(f)
        \/ \E callee, f : Enters(callee, f) /\ Fresh(callee) /\ Fresh(f)
        \/ Returns
    BY DEF GoesOn, MakesCall, Called, Follows
  <2> QED
    BY <2>1, FreshDeletes
<1>2. CASE \E f : GoesOn(f)
  <2>1. PICK f : GoesOn(f)
    BY <1>2
  <2>2. FramesOK'
    BY <2>1, FramesContinue DEF GoesOn, Follows
  <2>3. StackOrder'
    BY <2>1, OrderContinue DEF GoesOn, Follows
  <2> QED
    BY <1>1, <2>2, <2>3
<1>3. CASE \E callee, f : MakesCall(callee, f)
  <2>1. PICK callee, f : MakesCall(callee, f)
    BY <1>3
  <2>2. FramesOK'
    BY <2>1, FramesEnter DEF MakesCall, Follows, Called, Waits
  <2>3. Fits(callee) /\ Ordered(callee, f)
    <3>1. \A h \in 1 .. Depth : CallAt(h).at \notin Deletes
      BY NoneDeleting
    <3> QED
      BY <2>1, <3>1 DEF Fits, Ordered, MakesCall, Called
  <2>4. StackOrder'
    BY <2>1, <2>3, OrderEnter DEF MakesCall, Follows
  <2> QED
    BY <1>1, <2>2, <2>4
<1>4. CASE Returns
  BY <1>1, <1>4, FramesReturn, OrderReturn
<1> QED
  BY <1>2, <1>3, <1>4

\* The invariant after a step of a call that changes no link
LEMMA StepInv ==
    ASSUME QInv, Depth \in Nat \ {0}, CallAt(Depth).at \notin Deletes, Inv', Types',
           LowerSuit, \A o \in Ops : Goes(o),
           CallAt(Depth).at = "flush" => Entered(CallAt(Depth).op),
           inserted' = inserted,
           \A o \in Ops : SameLinks(o), \A x \in Objects : SameEntries(x),
           \/ \E f : GoesOn(f)
           \/ \E callee, f : MakesCall(callee, f)
           \/ Returns
    PROVE  QInv'
<1>1. FramesOK /\ StackOrder /\ AllOpLinks /\ AllEntryLinks /\ Types
  BY DEF QInv
<1>2. \A o : ~Deleting(o)
  BY <1>1, NoneDeleting
<1>3. FramesOK' /\ StackOrder' /\ \A o : \A i \in Nat \ {0} : ~Passed(o, i)'
  BY <1>1, StackStep
<1>4. AllOpLinks' /\ AllEntryLinks'
  BY <1>1, <1>2, <1>3, LinksKept
<1> QED
  BY <1>3, <1>4 DEF QInv

\* Steps that change nothing but the stack and the status
LEMMA NothingChanges ==
    ASSUME UNCHANGED <<q, ops>>
    PROVE  /\ \A o : SameOp(o) /\ Goes(o) /\ SameLinks(o)
           /\ \A x : SameEntries(x)
           /\ LowerSuit
           /\ \A f : FrameOK(f) => FrameOK(f)'
           /\ \A o : Entered(o) => Entered(o)'
<1>1. \A o : SameOp(o) /\ Goes(o) /\ SameLinks(o)
  BY DEF SameOp, Goes, Entered, SameLinks, StatusOf, EntryOf
<1>2. \A x : SameEntries(x)
  BY DEF SameEntries
<1>3. LowerSuit
  BY <1>1 DEF LowerSuit, Suits
<1>4. ASSUME NEW f, FrameOK(f) PROVE FrameOK(f)'
  BY <1>1, <1>4, FrameStays DEF Suits
<1>5. \A o : Entered(o) => Entered(o)'
  BY DEF Entered
<1> QED
  BY <1>1, <1>2, <1>3, <1>4, <1>5

Next1(f) ==
    /\ f \in Frame /\ FrameOK(f)
    /\ f.at \notin Deletes
    /\ f.at \in Executing => Top.at \in Executing /\ f.op = Top.op
    /\ f.at \in Inserting \cup {"flushed"} => Depth = 1
Callee1(callee) ==
    /\ callee \in Frame /\ FrameOK(callee)
    /\ callee.at \notin Deletes \cup Inserting \cup Executing \cup {"flushed", "evaluated"}

\* The invariant after a step that changes the stack only
LEMMA PureStep ==
    ASSUME QInv, stack # <<>>, Top.at \notin Deletes, Top.at # "flush",
           UNCHANGED <<q, ops, inserted, wanted>>, result' \in {"success", "failure"},
           \/ \E f : Continue(f) /\ Next1(f) /\ ~Waits(f)
           \/ \E callee, f : /\ CallAndContinue(callee, f) /\ Next1(f) /\ Callee1(callee)
                             /\ f.at # "flush"
                             /\ Waits(f) => callee.at = "flush" /\ callee.op = Awaited(f)
           \/ Pop
    PROVE  QInv'
<1>1. Types /\ StackOrder /\ Inv
  BY DEF QInv
<1>2. Depth \in Nat \ {0} /\ Top = CallAt(Depth)
  BY <1>1, TopCall
<1>3. Inv'
  BY <1>1, InvUnchanged
<1>4. /\ \A o : SameOp(o) /\ Goes(o) /\ SameLinks(o)
      /\ \A x : SameEntries(x)
      /\ LowerSuit
      /\ \A f : FrameOK(f) => FrameOK(f)'
  BY NothingChanges
<1>5. ASSUME NEW f, Next1(f) PROVE Follows(f)
  <2>1. Fits(f)
    BY <1>1, <1>2, <1>5, FitsLike DEF Next1
  <2> QED
    BY <1>4, <1>5, <2>1 DEF Next1, Follows, Fresh
<1>6. CASE \E f : Continue(f) /\ Next1(f) /\ ~Waits(f)
  <2>1. PICK f : Continue(f) /\ Next1(f) /\ ~Waits(f)
    BY <1>6
  <2>2. Continues(f) /\ GoesOn(f)
    BY <1>1, <1>5, <2>1, ContinueSteps DEF GoesOn, Next1
  <2>3. Types'
    BY <1>1, <2>2 DEF Types, Continues
  <2> QED
    BY <1>2, <1>3, <1>4, <2>2, <2>3, StepInv
<1>7. CASE \E callee, f : /\ CallAndContinue(callee, f) /\ Next1(f) /\ Callee1(callee)
                          /\ f.at # "flush"
                          /\ Waits(f) => callee.at = "flush" /\ callee.op = Awaited(f)
  <2>1. PICK callee, f : /\ CallAndContinue(callee, f) /\ Next1(f) /\ Callee1(callee)
                         /\ f.at # "flush"
                         /\ Waits(f) => callee.at = "flush" /\ callee.op = Awaited(f)
    BY <1>7
  <2>2. Enters(callee, f)
    BY <1>1, <2>1, CallSteps DEF Next1, Callee1
  <2>3. Types'
    BY <1>1, <2>2 DEF Types, Enters
  <2>4. Called(callee)
    BY <1>4, <2>1 DEF Called, Callee1, Fresh
  <2>5. MakesCall(callee, f)
    BY <1>5, <2>1, <2>2, <2>4 DEF MakesCall, Next1
  <2> QED
    BY <1>2, <1>3, <1>4, <2>3, <2>5, StepInv
<1>8. CASE Pop
  <2>1. Returns
    BY <1>1, <1>8, PopSteps
  <2>2. Types'
    BY <1>1, <2>1 DEF Types, Returns
  <2> QED
    BY <1>2, <1>3, <1>4, <2>1, <2>2, StepInv
<1> QED
  BY <1>6, <1>7, <1>8
----------------------------------------------------------------------------
\* Steps of a flush

\* A call that begins
LEMMA CallFrame ==
    ASSUME NEW l \in Points, NEW o \in Ops \cup {NoOp}, NEW x \in Objects \cup {NoObject},
           NEW p \in Positions \cup {InvalidPosition}
    PROVE  /\ CallOf(l, o, x, p) \in Frame
           /\ CallOf(l, o, x, p).at = l /\ CallOf(l, o, x, p).op = o
           /\ CallOf(l, o, x, p).obj = x /\ CallOf(l, o, x, p).pos = p
           /\ CallOf(l, o, x, p).i = 1 /\ CallOf(l, o, x, p).dependent = NoOp
  BY DEF CallOf, Frame

\* A call that goes on at another point
LEMMA AtFrame ==
    ASSUME NEW f \in Frame, NEW l \in Points
    PROVE  LET g == [f EXCEPT !.at = l]
               n == [f EXCEPT !.i = @ + 1]
           IN /\ g \in Frame /\ g.at = l /\ g.op = f.op /\ g.obj = f.obj /\ g.pos = f.pos
              /\ g.i = f.i /\ g.dependent = f.dependent
              /\ n \in Frame /\ n.at = f.at /\ n.op = f.op /\ n.obj = f.obj
              /\ n.pos = f.pos /\ n.i = f.i + 1 /\ n.dependent = f.dependent
  BY DEF Frame

\* What the innermost call relies on holds.
LEMMA TopIsOK ==
    ASSUME QInv, stack # <<>>
    PROVE  /\ Types /\ Depth \in Nat \ {0} /\ Top = CallAt(Depth) /\ Top \in Frame
           /\ FrameOK(Top)
           /\ Top.at \in Inserting \cup {"flushed"} => Depth = 1
<1>1. Types /\ FramesOK
  BY DEF QInv
<1>2. Depth \in Nat \ {0} /\ Top = CallAt(Depth) /\ Top \in Frame
  BY <1>1, TopCall
<1>3. Depth \in 1 .. Depth
  BY <1>2
<1>4. FrameOK(CallAt(Depth)) /\ (CallAt(Depth).at \in Inserting \cup {"flushed"} => Depth = 1)
  BY <1>1, <1>3 DEF FramesOK
<1>5. FrameOK(Top)
  BY <1>2, <1>4 DEF FrameOK
<1> QED
  BY <1>1, <1>2, <1>4, <1>5

\* The fields of a call
LEMMA FrameIs ==
    ASSUME NEW f \in Frame
    PROVE  /\ f = [at |-> f.at, op |-> f.op, obj |-> f.obj, pos |-> f.pos, i |-> f.i,
                   dependent |-> f.dependent, failed |-> f.failed]
           /\ f.at \in Points /\ f.op \in Ops \cup {NoOp}
           /\ f.obj \in Objects \cup {NoObject}
           /\ f.pos \in Positions \cup {InvalidPosition} /\ f.i \in Nat
           /\ f.dependent \in Ops \cup {NoOp} /\ f.failed \in BOOLEAN
  BY DEF Frame

\* What the entries of a ring hold
LEMMA EntryIs ==
    ASSUME QInv, NEW x \in Objects, NEW p \in Positions
    PROVE  /\ EntryOf(x, p) \in Entry
           /\ EntryOf(x, p).op \in Ops \cup {NoOp}
           /\ EntryOf(x, p).op # NoOp =>
                 /\ Live(EntryOf(x, p).op) /\ ops[EntryOf(x, p).op].dst = x
                 /\ ops[EntryOf(x, p).op].dstPos = p
           /\ EntryOf(x, p).deps \in Seq(Ops)
           /\ \A k \in 1..Len(EntryOf(x, p).deps) :
                 EntryOf(x, p).deps[k] \in Ops /\ Live(EntryOf(x, p).deps[k])
<1>1. EntryOf(x, p) \in Entry
  BY DEF QInv, Types, Ring, EntryOf
<1>2. EntryOf(x, p).op \in Ops \cup {NoOp} /\ EntryOf(x, p).deps \in Seq(Ops)
  BY <1>1 DEF Entry
<1>3. EntryLinks(x, p)
  BY DEF QInv, AllEntryLinks
<1>4. \A k \in 1..Len(EntryOf(x, p).deps) :
         EntryOf(x, p).deps[k] \in Ops /\ k \in DOMAIN EntryOf(x, p).deps
  BY <1>2
<1>5. \A k \in 1..Len(EntryOf(x, p).deps) : Live(EntryOf(x, p).deps[k])
  BY <1>3, <1>4 DEF EntryLinks, DependsOn, Lists
<1> QED
  BY <1>1, <1>2, <1>3, <1>4, <1>5 DEF EntryLinks

\* The ring of an object
LEMMA RingIs ==
    ASSUME QInv, NEW x \in Objects
    PROVE  /\ q[x] \in Ring /\ RingInv(q[x]) /\ q[x].head \in Positions
           /\ q[x].tail \in Positions /\ q[x].length \in 0..MaxLength
           /\ InvalidPosition \notin Positions
<1>1. q[x] \in Ring /\ RingInv(q[x])
  BY DEF QInv, Inv, Types
<1> QED
  BY <1>1, QueueAssumption DEF Ring, InvalidPosition, Positions

\* The creator of the last entry of an object is an operation that lives.
LEMMA CreatorIs ==
    ASSUME QInv, NEW x \in Objects
    PROVE  /\ Creator(x) \in Ops \cup {NoOp}
           /\ Creator(x) # NoOp =>
                 /\ Live(Creator(x)) /\ ops[Creator(x)].dst = x
                 /\ ops[Creator(x)].dstPos = q[x].tail
                 /\ ops[Creator(x)].dstPos # InvalidPosition
                 /\ q[x].length > 0
<1>1. q[x].tail \in Positions /\ InvalidPosition \notin Positions /\ q[x].length \in 0..MaxLength
  BY RingIs
<1> QED
  BY <1>1, EntryIs, QueueAssumption DEF Creator

\* The call that flushes a live operation relies on nothing else.
LEMMA FlushCall ==
    ASSUME NEW c \in Ops, Live(c)
    PROVE  Callee1(Flush(c)) /\ Next1(Flush(c)) /\ ~Waits(Flush(c))
           /\ Flush(c).at = "flush" /\ Flush(c).op = c
<1>1. Flush(c) \in Frame
  BY CallFrame DEF Flush, Points
<1>2. FrameOK(Flush(c))
  BY DEF Flush, CallOf, FrameOK, OnObject, OnEntry, Counting, Points, Executing, Syncing, Deletes,
         Inserting, Resting
<1> QED
  BY <1>1, <1>2 DEF Flush, CallOf, Callee1, Next1, Waits, Points, Executing, Syncing, Deletes,
         Inserting, Resting

\* A call about an object relies on the object only.
LEMMA OnObjectCall ==
    ASSUME NEW l \in Resting, NEW x \in Objects, NEW p \in Positions \cup {InvalidPosition},
           l \in OnEntry => p \in Positions
    PROVE  Callee1(CallOf(l, NoOp, x, p))
<1>1. CallOf(l, NoOp, x, p) \in Frame
  BY CallFrame DEF Points
<1>2. FrameOK(CallOf(l, NoOp, x, p))
  BY DEF CallOf, FrameOK, OnObject, OnEntry, Counting, Points, Executing, Syncing, Deletes,
         Inserting, Resting
<1> QED
  BY <1>1, <1>2 DEF CallOf, Callee1, Points, Executing, Syncing, Deletes, Inserting, Resting

\* The calls of syncForWriting() and evaluate() are about the operation of the
\* call that makes them.
LEMMA SyncCall ==
    ASSUME NEW f \in Frame, FrameOK(f), f.at \in Executing \cup Syncing,
           NEW l \in {"entries", "evaluate"}, NEW x \in Objects,
           NEW p \in Positions \cup {InvalidPosition}, l = "evaluate" => p \in Positions
    PROVE  Callee1(CallOf(l, f.op, x, p))
<1>1. f.op \in Ops
  BY DEF FrameOK, Resting, Executing, Syncing
<1>2. CallOf(l, f.op, x, p) \in Frame
  BY <1>1, CallFrame DEF Syncing, Points
<1>3. FrameOK(CallOf(l, f.op, x, p))
  BY DEF CallOf, FrameOK, OnObject, OnEntry, Counting, Points, Executing, Syncing, Deletes,
         Inserting, Resting
<1> QED
  BY <1>2, <1>3 DEF CallOf, Callee1, Points, Executing, Syncing, Deletes, Inserting, Resting

\* The innermost call goes on at another point.
LEMMA GoesOnAt ==
    ASSUME QInv, stack # <<>>, NEW g \in Frame, g.op = Top.op, g.obj = Top.obj,
           \/ Top.at \in Executing /\ g.at \in Executing
           \/ Top.at \in Syncing /\ g.at \in Syncing
           \/ Top.at \in Inserting /\ g.at \in Inserting
           \/ Top.at \in Resting /\ g.at = Top.at,
           g.at \in OnEntry => g.pos \in Positions,
           g.at \in Counting => g.i > 0,
           g.at = "evaluated" => g.dependent \in Ops /\ Live(g.dependent)
    PROVE  Next1(g)
<1>0. PICK f \in Frame : f = Top /\ FrameOK(f) /\ (f.at \in Inserting => Depth = 1)
  BY TopIsOK
<1>1. FrameOK(g)
  BY <1>0 DEF FrameOK, OnObject, Counting, Points, Executing, Syncing, Deletes, Inserting, Resting, Live
<1> QED
  BY <1>0, <1>1 DEF Next1, Executing, Syncing, Deletes, Inserting, Resting
----------------------------------------------------------------------------
\* ReadSource keeps the invariant.
LEMMA ReadSourceQ ==
    ASSUME QInv, ReadSource
    PROVE  QInv'
<1> DEFINE o == Top.op
           i == Top.i
           next == [Top EXCEPT !.i = @ + 1]
           c == SourceCreator(o, i)
<1>0. stack # <<>> /\ Top.at = "read"
  BY DEF ReadSource, At
<1>1. Types /\ Top \in Frame /\ FrameOK(Top) /\ (Top.at \in Inserting => Depth = 1)
      /\ Depth \in Nat \ {0} /\ Top = CallAt(Depth)
  BY <1>0, TopIsOK
<1>2. o \in Ops /\ Live(o) /\ i \in Nat \ {0}
  BY <1>0, <1>1, FrameIs DEF FrameOK, Resting, Counting
<1>3. next \in Frame /\ Next1(next) /\ next.at = "read"
  <2>1. next \in Frame /\ next.at = "read" /\ next.op = Top.op /\ next.obj = Top.obj /\ next.i = i + 1
    BY <1>0, <1>1, AtFrame DEF Points, Executing
  <2>2. next.i > 0
    BY <1>2, <2>1
  <2> HIDE DEF next
  <2> QED
    BY <1>0, <2>1, <2>2, GoesOnAt DEF Executing, OnEntry
<1>4. \A l \in {"abandon", "write"} : Next1([Top EXCEPT !.at = l])
  <2> TAKE l \in {"abandon", "write"}
  <2> DEFINE g == [Top EXCEPT !.at = l]
  <2>1. g \in Frame /\ g.at = l /\ g.op = Top.op /\ g.obj = Top.obj
    BY <1>1, AtFrame DEF Points, Executing
  <2> HIDE DEF g
  <2>2. Next1(g)
    BY <1>0, <2>1, GoesOnAt DEF Executing, OnEntry, Counting
  <2> QED
    BY <2>2 DEF g
<1>5. ASSUME i <= Len(ops[o].src) PROVE c \in Ops \cup {NoOp} /\ (c # NoOp => Live(c))
  <2>1. StackOrder /\ AllOpLinks
    BY DEF QInv
  <2>2. ~Deleting(o)
    BY <1>0, <1>1, <2>1, NoneDeleting DEF Deletes
  <2>3. i \in 1..Len(ops[o].src)
    <3>1. Len(ops[o].src) \in Nat
      BY <1>1, <1>2 DEF Types, Op
    <3> QED
      BY <1>2, <1>5, <3>1
  <2>4. Knows(o, i)
    BY <1>2, <2>1, <2>2, <2>3 DEF AllOpLinks, OpLinks, Live
  <2>5. ops[o].src[i] \in Objects /\ ops[o].srcPos[i] \in Positions
    BY <2>4, QueuedPositions DEF Knows
  <2> QED
    BY <2>5, EntryIs DEF SourceCreator
<1>6. \/ \E f : Continue(f) /\ Next1(f) /\ ~Waits(f)
      \/ \E callee, f : /\ CallAndContinue(callee, f) /\ Next1(f) /\ Callee1(callee)
                        /\ f.at # "flush"
                        /\ Waits(f) => callee.at = "flush" /\ callee.op = Awaited(f)
  <2>1. CASE result = "failure" \/ i > Len(ops[o].src)
    <3>1. PICK l \in {"abandon", "write"} : Continue([Top EXCEPT !.at = l])
      BY <2>1 DEF ReadSource
    <3>2. [Top EXCEPT !.at = l].at = l
      BY <1>1, FrameIs
    <3>3. ~Waits([Top EXCEPT !.at = l])
      BY <3>2 DEF Waits
    <3> QED
      BY <1>4, <3>1, <3>3
  <2>2. CASE ~(result = "failure" \/ i > Len(ops[o].src)) /\ c \in {NoOp, o}
    <3>1. Continue(next) /\ ~Waits(next)
      BY <1>3, <2>2 DEF ReadSource, Waits
    <3> QED
      BY <1>3, <3>1
  <2>3. CASE ~(result = "failure" \/ i > Len(ops[o].src)) /\ c \notin {NoOp, o}
    <3>1. CallAndContinue(Flush(c), next) /\ ~Waits(next) /\ next.at # "flush"
      BY <1>3, <2>3 DEF ReadSource, Waits
    <3>2. i <= Len(ops[o].src)
      <4>1. Len(ops[o].src) \in Nat
        BY <1>1, <1>2 DEF Types, Op
      <4> QED
        BY <1>2, <2>3, <4>1
    <3>3. Callee1(Flush(c))
      BY <1>5, <2>3, <3>2, FlushCall
    <3> QED
      BY <1>3, <3>1, <3>3
  <2> QED
    BY <2>1, <2>2, <2>3
<1>7. UNCHANGED <<q, ops, inserted, wanted>> /\ result' \in {"success", "failure"}
  BY <1>1 DEF ReadSource, history, Types
<1> QED
  BY <1>0, <1>6, <1>7, PureStep DEF Deletes

\* Positions follow each other in a ring.
LEMMA NextPositions ==
    ASSUME QInv, NEW x \in Objects
    PROVE  /\ qHead(q[x]) \in Positions \cup {InvalidPosition}
           /\ \A p \in Positions : /\ Succ(p) \in Positions
                                   /\ qNext(q[x], p) \in Positions \cup {InvalidPosition}
<1>1. q[x].head \in Positions
  BY RingIs
<1>2. \A p \in Positions : Succ(p) \in Positions
  BY QueueAssumption DEF Succ, Positions
<1> QED
  BY <1>1, <1>2 DEF qHead, qNext

\* An operation with an entry writes an object.
LEMMA DestinationIs ==
    ASSUME QInv, NEW o \in Ops, Live(o), ops[o].dstPos # InvalidPosition
    PROVE  /\ ops[o].dst \in Objects /\ ops[o].dstPos \in Positions
           /\ ops[o].dstPos \in Queued(q[ops[o].dst])
           /\ EntryOf(ops[o].dst, ops[o].dstPos).op = o
<1>1. OpLinks(o)
  BY DEF QInv, AllOpLinks
<1> QED
  BY <1>1, QueuedPositions DEF OpLinks, Live

\* WriteDestination keeps the invariant.
LEMMA WriteDestinationQ ==
    ASSUME QInv, WriteDestination
    PROVE  QInv'
<1> DEFINE o == Top.op
           Onward(l) == [Top EXCEPT !.at = l]
<1>1. PICK l \in {"compute", "abandoned"} :
         /\ stack # <<>> /\ Top.at \in {"write", "abandon"}
         /\ CallAndContinue(SyncForWriting(o), Onward(l))
  BY DEF WriteDestination, At
<1>2. Types /\ Top \in Frame /\ FrameOK(Top)
  BY <1>1, TopIsOK
<1>3. PICK f : f = Onward(l)
  OBVIOUS
<1>4. f \in Frame /\ f.at = l /\ f.op = Top.op /\ f.obj = Top.obj
  BY <1>2, <1>3, AtFrame DEF Points, Executing
<1>5. Next1(f)
  BY <1>1, <1>4, GoesOnAt DEF Executing, OnEntry, Counting
<1>6. Callee1(SyncForWriting(o))
  <2>1. o \in Ops /\ Live(o) /\ ops[o].dstPos # InvalidPosition
    BY <1>1, <1>2 DEF FrameOK, Executing, Resting
  <2>2. ops[o].dst \in Objects /\ qHead(q[ops[o].dst]) \in Positions \cup {InvalidPosition}
    BY <2>1, DestinationIs, NextPositions
  <2> QED
    BY <1>1, <1>2, <2>2, SyncCall DEF SyncForWriting, Executing
<1>7. UNCHANGED <<q, ops, inserted, wanted>> /\ result' \in {"success", "failure"}
  BY <1>2 DEF WriteDestination, history, Types
<1> QED
  BY <1>1, <1>3, <1>4, <1>5, <1>6, <1>7, PureStep DEF Deletes, Waits

\* Compute keeps the invariant.
LEMMA ComputeQ ==
    ASSUME QInv, Compute
    PROVE  QInv'
<1>1. stack # <<>> /\ Top.at = "compute"
  BY DEF Compute, At
<1>2. Types /\ Top \in Frame /\ FrameOK(Top)
  BY <1>1, TopIsOK
<1>3. PICK l \in {"computed", "abandon"} : Continue([Top EXCEPT !.at = l])
  BY DEF Compute
<1>4. PICK f : f = [Top EXCEPT !.at = l]
  OBVIOUS
<1>5. f \in Frame /\ f.at = l /\ f.op = Top.op /\ f.obj = Top.obj
  BY <1>2, <1>4, AtFrame DEF Points, Executing
<1>6. Next1(f)
  BY <1>1, <1>5, GoesOnAt DEF Executing, OnEntry, Counting
<1>7. UNCHANGED <<q, ops, inserted, wanted>> /\ result' \in {"success", "failure"}
  BY <1>2 DEF Compute, history, Types
<1> QED
  BY <1>1, <1>3, <1>4, <1>5, <1>6, <1>7, PureStep DEF Deletes, Waits

\* NextEntry keeps the invariant.
LEMMA NextEntryQ ==
    ASSUME QInv, NextEntry
    PROVE  QInv'
<1>1. stack # <<>> /\ Top.at = "entries"
  BY DEF NextEntry, At
<1>2. Types /\ Top \in Frame /\ FrameOK(Top)
  BY <1>1, TopIsOK
<1>3. UNCHANGED <<q, ops, inserted, wanted>> /\ result' \in {"success", "failure"}
  BY <1>2 DEF NextEntry, Return, history, Types
<1>4. CASE Pop
  BY <1>1, <1>3, <1>4, PureStep DEF Deletes
<1>5. CASE ~EndOfEntries(Top.op, Top.pos)
  <2>1. CallAndContinue(CallOf("evaluate", Top.op, Top.obj, Top.pos), [Top EXCEPT !.at = "creator"])
    BY <1>5 DEF NextEntry
  <2>2. Top.obj \in Objects /\ Top.pos \in Positions
    BY <1>1, <1>2, <1>5, FrameIs DEF EndOfEntries, FrameOK, OnObject, Syncing
  <2>3. PICK f : f = [Top EXCEPT !.at = "creator"]
    OBVIOUS
  <2>4. f \in Frame /\ f.at = "creator" /\ f.op = Top.op /\ f.obj = Top.obj /\ f.pos = Top.pos
    BY <1>2, <2>3, AtFrame DEF Points, Syncing
  <2>5. Next1(f)
    BY <1>1, <2>2, <2>4, GoesOnAt DEF Syncing, Counting
  <2>6. Callee1(CallOf("evaluate", Top.op, Top.obj, Top.pos))
    BY <1>1, <1>2, <2>2, SyncCall DEF Syncing
  <2> QED
    BY <1>1, <1>3, <2>1, <2>3, <2>4, <2>5, <2>6, PureStep DEF Deletes, Waits
<1> QED
  BY <1>4, <1>5 DEF NextEntry, Return

\* FlushCreator keeps the invariant.
LEMMA FlushCreatorQ ==
    ASSUME QInv, FlushCreator
    PROVE  QInv'
<1> DEFINE c == EntryOf(Top.obj, Top.pos).op
<1>1. stack # <<>> /\ Top.at = "creator"
  BY DEF FlushCreator, At
<1>2. Types /\ Top \in Frame /\ FrameOK(Top)
  BY <1>1, TopIsOK
<1>3. UNCHANGED <<q, ops, inserted, wanted>> /\ result' \in {"success", "failure"}
  BY <1>2 DEF FlushCreator, Return, history, Types
<1>4. PICK f : f = [Top EXCEPT !.at = "next"]
  OBVIOUS
<1>5. Top.obj \in Objects /\ Top.pos \in Positions
  BY <1>1, <1>2 DEF FrameOK, OnObject, OnEntry, Syncing
<1>6. f \in Frame /\ f.at = "next" /\ f.op = Top.op /\ f.obj = Top.obj /\ f.pos = Top.pos
  BY <1>2, <1>4, AtFrame DEF Points, Syncing
<1>7. Next1(f)
  BY <1>1, <1>5, <1>6, GoesOnAt DEF Syncing, Counting
<1>8. c \in Ops \cup {NoOp} /\ (c # NoOp => Live(c))
  BY <1>5, EntryIs
<1>9. \/ Pop \/ Continue(f)
      \/ c # NoOp /\ CallAndContinue(Flush(c), f)
  BY <1>4 DEF FlushCreator, Return
<1>10. c # NoOp => Callee1(Flush(c))
  BY <1>8, FlushCall
<1> HIDE DEF c
<1> QED
  BY <1>1, <1>3, <1>6, <1>7, <1>9, <1>10, PureStep DEF Deletes, Waits

\* AdvanceEntry keeps the invariant.
LEMMA AdvanceEntryQ ==
    ASSUME QInv, AdvanceEntry
    PROVE  QInv'
<1>1. stack # <<>> /\ Top.at = "next"
  BY DEF AdvanceEntry, At
<1>2. Types /\ Top \in Frame /\ FrameOK(Top)
  BY <1>1, TopIsOK
<1>3. UNCHANGED <<q, ops, inserted, wanted>> /\ result' \in {"success", "failure"}
  BY <1>2 DEF AdvanceEntry, history, Types
<1>4. PICK f : f = [Top EXCEPT !.at = "entries", !.pos = qNext(q[Top.obj], Top.pos),
                              !.failed = @ \/ result = "failure"]
  OBVIOUS
<1>5. Top.obj \in Objects /\ Top.pos \in Positions
  BY <1>1, <1>2 DEF FrameOK, OnObject, OnEntry, Syncing
<1>6. qNext(q[Top.obj], Top.pos) \in Positions \cup {InvalidPosition}
  BY <1>5, NextPositions
<1>7. f \in Frame /\ f.at = "entries" /\ f.op = Top.op /\ f.obj = Top.obj
  <2>1. "entries" \in Points
    BY DEF Points, Syncing
  <2>2. Top.failed \in BOOLEAN
    BY <1>2, FrameIs
  <2>3. (Top.failed \/ result = "failure") \in BOOLEAN
    OBVIOUS
  <2> QED
    BY <1>2, <1>4, <1>6, <2>1, <2>3 DEF Frame
<1>8. Next1(f)
  BY <1>1, <1>7, GoesOnAt DEF Syncing, Counting, OnEntry
<1>9. Continue(f)
  BY <1>4 DEF AdvanceEntry
<1> QED
  BY <1>1, <1>3, <1>7, <1>8, <1>9, PureStep DEF Deletes, Waits

\* Evaluate keeps the invariant.
LEMMA EvaluateQ ==
    ASSUME QInv, Evaluate
    PROVE  QInv'
<1> DEFINE deps == EntryOf(Top.obj, Top.pos).deps
           d == deps[Top.i]
<1>1. stack # <<>> /\ Top.at = "evaluate"
  BY DEF Evaluate, At
<1>2. Types /\ Top \in Frame /\ FrameOK(Top)
  BY <1>1, TopIsOK
<1>3. UNCHANGED <<q, ops, inserted, wanted>> /\ result' \in {"success", "failure"}
  BY <1>2 DEF Evaluate, Return, history, Types
<1>5. Top.obj \in Objects /\ Top.pos \in Positions /\ Top.i \in Nat \ {0}
  BY <1>1, <1>2, FrameIs DEF FrameOK, OnObject, OnEntry, Syncing, Counting
<1>6. CASE Pop
  BY <1>1, <1>3, <1>6, PureStep DEF Deletes
<1>7. CASE Continue([Top EXCEPT !.i = @ + 1])
  <2>1. PICK f : f = [Top EXCEPT !.i = @ + 1]
    OBVIOUS
  <2>2. f \in Frame /\ f.at = "evaluate" /\ f.op = Top.op /\ f.obj = Top.obj /\ f.pos = Top.pos
        /\ f.i = Top.i + 1
    BY <1>1, <1>2, <2>1, AtFrame DEF Points, Syncing
  <2>3. f.i > 0
    BY <1>5, <2>2
  <2>4. Next1(f)
    BY <1>1, <1>5, <2>2, <2>3, GoesOnAt DEF Syncing
  <2> QED
    BY <1>1, <1>3, <1>7, <2>1, <2>2, <2>4, PureStep DEF Deletes, Waits
<1>8. CASE /\ ~(Top.i > Len(deps))
           /\ CallAndContinue(Flush(d), [Top EXCEPT !.at = "evaluated", !.dependent = d])
  <2>1. d \in Ops /\ Live(d)
    <3>1. Len(deps) \in Nat
      BY <1>5, EntryIs
    <3>2. Top.i \in 1..Len(deps)
      BY <1>5, <1>8, <3>1
    <3> HIDE DEF deps
    <3> QED
      BY <1>5, <3>2, EntryIs DEF deps
  <2>2. PICK f : f = [Top EXCEPT !.at = "evaluated", !.dependent = d]
    OBVIOUS
  <2>3. f \in Frame /\ f.at = "evaluated" /\ f.op = Top.op /\ f.obj = Top.obj /\ f.pos = Top.pos
        /\ f.i = Top.i /\ f.dependent = d
    <3>1. "evaluated" \in Points
      BY DEF Points, Syncing
    <3> HIDE DEF d
    <3> QED
      BY <1>2, <2>1, <2>2, <3>1 DEF Frame
  <2>4. Next1(f)
    BY <1>1, <1>5, <2>1, <2>3, GoesOnAt DEF Syncing, OnEntry
  <2>5. Callee1(Flush(d)) /\ Flush(d).at = "flush" /\ Flush(d).op = Awaited(f) /\ f.at # "flush"
    BY <2>1, <2>3, FlushCall DEF Awaited
  <2> HIDE DEF d
  <2> QED
    BY <1>1, <1>3, <1>8, <2>2, <2>4, <2>5, PureStep DEF Deletes
<1> QED
  BY <1>6, <1>7, <1>8 DEF Evaluate, Return

\* FlushDependents keeps the invariant.
LEMMA FlushDependentsQ ==
    ASSUME QInv, FlushDependents
    PROVE  QInv'
<1> DEFINE deps == EntryOf(Top.obj, Top.pos).deps
           d == deps[Top.i]
<1>1. stack # <<>> /\ Top.at = "dependents"
  BY DEF FlushDependents, At
<1>2. Types /\ Top \in Frame /\ FrameOK(Top)
  BY <1>1, TopIsOK
<1>3. UNCHANGED <<q, ops, inserted, wanted>> /\ result' \in {"success", "failure"}
  BY <1>2 DEF FlushDependents, history, Types
<1>5. Top.obj \in Objects /\ Top.pos \in Positions /\ Top.i \in Nat \ {0}
  BY <1>1, <1>2, FrameIs DEF FrameOK, OnObject, OnEntry, Resting, Counting
<1>6. CASE Pop
  BY <1>1, <1>3, <1>6, PureStep DEF Deletes
<1>8. CASE /\ ~(Top.i > Len(deps))
           /\ CallAndContinue(Flush(d), [Top EXCEPT !.i = @ + 1])
  <2>1. d \in Ops /\ Live(d)
    <3>1. Len(deps) \in Nat
      BY <1>5, EntryIs
    <3>2. Top.i \in 1..Len(deps)
      BY <1>5, <1>8, <3>1
    <3> HIDE DEF deps
    <3> QED
      BY <1>5, <3>2, EntryIs DEF deps
  <2>2. PICK f : f = [Top EXCEPT !.i = @ + 1]
    OBVIOUS
  <2>3. f \in Frame /\ f.at = "dependents" /\ f.op = Top.op /\ f.obj = Top.obj /\ f.pos = Top.pos
        /\ f.i = Top.i + 1
    BY <1>1, <1>2, <2>2, AtFrame DEF Points, Resting
  <2>4. Next1(f)
    <3>1. f.i > 0
      BY <1>5, <2>3
    <3> QED
      BY <1>1, <1>5, <2>3, <3>1, GoesOnAt DEF Resting
  <2>5. Callee1(Flush(d)) /\ f.at # "flush" /\ ~Waits(f)
    BY <2>1, <2>3, FlushCall DEF Waits
  <2> HIDE DEF d
  <2> QED
    BY <1>1, <1>3, <1>8, <2>2, <2>4, <2>5, PureStep DEF Deletes
<1> QED
  BY <1>6, <1>8 DEF FlushDependents
----------------------------------------------------------------------------
\* A full queue loses its head; returns

\* FlushHead keeps the invariant.
LEMMA FlushHeadQ ==
    ASSUME QInv, FlushHead
    PROVE  QInv'
<1>1. stack # <<>> /\ Top.at = "queue"
  BY DEF FlushHead, At
<1>2. Types /\ Top \in Frame /\ FrameOK(Top)
  BY <1>1, TopIsOK
<1>3. UNCHANGED <<q, ops, inserted, wanted>> /\ result' \in {"success", "failure"}
  BY <1>2 DEF FlushHead, history, Types
<1>4. PICK f : f = [Top EXCEPT !.at = "head"]
  OBVIOUS
<1>5. Top.obj \in Objects
  BY <1>1, <1>2 DEF FrameOK, OnObject, Inserting
<1>6. f \in Frame /\ f.at = "head" /\ f.op = Top.op /\ f.obj = Top.obj
  BY <1>2, <1>4, AtFrame DEF Points, Inserting
<1>7. Next1(f)
  BY <1>1, <1>6, GoesOnAt DEF Inserting, Counting, OnEntry
<1>8. Callee1(CallOf("dependents", NoOp, Top.obj, q[Top.obj].head))
  BY <1>5, RingIs, OnObjectCall DEF Resting
<1>9. CallAndContinue(CallOf("dependents", NoOp, Top.obj, q[Top.obj].head), f)
  BY <1>4 DEF FlushHead
<1> QED
  BY <1>1, <1>3, <1>6, <1>7, <1>8, <1>9, PureStep DEF Deletes, Waits

\* SyncHead keeps the invariant.
LEMMA SyncHeadQ ==
    ASSUME QInv, SyncHead
    PROVE  QInv'
<1> DEFINE c == EntryOf(Top.obj, q[Top.obj].head).op
<1>1. stack # <<>> /\ Top.at = "head"
  BY DEF SyncHead, At
<1>2. Types /\ Top \in Frame /\ FrameOK(Top)
  BY <1>1, TopIsOK
<1>3. UNCHANGED <<q, ops, inserted, wanted>> /\ result' \in {"success", "failure"}
  BY <1>2 DEF SyncHead, history, Types
<1>4. PICK f : f = [Top EXCEPT !.at = "last"]
  OBVIOUS
<1>5. Top.obj \in Objects
  BY <1>1, <1>2 DEF FrameOK, OnObject, Inserting
<1>6. f \in Frame /\ f.at = "last" /\ f.op = Top.op /\ f.obj = Top.obj
  BY <1>2, <1>4, AtFrame DEF Points, Inserting
<1>7. Next1(f)
  BY <1>1, <1>6, GoesOnAt DEF Inserting, Counting, OnEntry
<1>8. c \in Ops \cup {NoOp} /\ (c # NoOp => Live(c))
  BY <1>5, RingIs, EntryIs
<1>9. \/ Continue(f)
      \/ c # NoOp /\ CallAndContinue(Flush(c), f)
  BY <1>4 DEF SyncHead
<1>10. c # NoOp => Callee1(Flush(c))
  BY <1>8, FlushCall
<1> HIDE DEF c
<1> QED
  BY <1>1, <1>3, <1>6, <1>7, <1>9, <1>10, PureStep DEF Deletes, Waits

\* Synced and DestroyedObject keep the invariant: they return.
LEMMA ReturnsOnlyQ ==
    ASSUME QInv, Synced \/ DestroyedObject
    PROVE  QInv'
<1>1. stack # <<>> /\ Top.at \in {"synced", "destroyed", "delete"} /\ Pop
  BY DEF Synced, DestroyedObject, At
<1>2. Types
  BY DEF QInv
<1>3. UNCHANGED <<q, ops, inserted, wanted>> /\ result' \in {"success", "failure"}
  BY <1>2 DEF Synced, DestroyedObject, history, Types
<1> QED
  BY <1>1, <1>3, PureStep DEF Deletes

\* SyncAllDependents keeps the invariant.
LEMMA SyncAllDependentsQ ==
    ASSUME QInv, SyncAllDependents
    PROVE  QInv'
<1> DEFINE c == Creator(Top.obj)
<1>1. stack # <<>> /\ Top.at = "allDependents"
  BY DEF SyncAllDependents, At
<1>2. Types /\ Top \in Frame /\ FrameOK(Top)
  BY <1>1, TopIsOK
<1>3. UNCHANGED <<q, ops, inserted, wanted>> /\ result' \in {"success", "failure"}
  BY <1>2 DEF SyncAllDependents, history, Types
<1>4. Top.obj \in Objects /\ Top.pos \in Positions /\ Top.i \in Nat
  BY <1>1, <1>2, FrameIs DEF FrameOK, OnObject, OnEntry, Resting
<1>5. CASE Top.i = 0
  <2>1. Pop \/ (c # NoOp /\ Continue(Flush(c)))
    BY <1>5 DEF SyncAllDependents
  <2>2. c # NoOp => Next1(Flush(c)) /\ ~Waits(Flush(c))
    BY <1>4, CreatorIs, FlushCall
  <2> HIDE DEF c
  <2> QED
    BY <1>1, <1>3, <2>1, <2>2, PureStep DEF Deletes
<1>6. CASE Top.i # 0
  <2>1. PICK f : f = [Top EXCEPT !.pos = Succ(@), !.i = @ - 1]
    OBVIOUS
  <2>2. CallAndContinue(CallOf("dependents", NoOp, Top.obj, Top.pos), f)
    BY <1>6, <2>1 DEF SyncAllDependents
  <2>3. Succ(Top.pos) \in Positions /\ Top.i - 1 \in Nat
    BY <1>4, <1>6, NextPositions
  <2>4. f \in Frame /\ f.at = "allDependents" /\ f.op = Top.op /\ f.obj = Top.obj
        /\ f.pos \in Positions
    BY <1>1, <1>2, <2>1, <2>3 DEF Frame
  <2>5. Next1(f)
    BY <1>1, <2>4, GoesOnAt DEF Resting, Counting
  <2>6. Callee1(CallOf("dependents", NoOp, Top.obj, Top.pos))
    BY <1>4, OnObjectCall DEF Resting
  <2> QED
    BY <1>1, <1>3, <2>2, <2>4, <2>5, <2>6, PureStep DEF Deletes, Waits
<1> QED
  BY <1>5, <1>6
----------------------------------------------------------------------------
\* Flushing marks an operation and its entry.
LEMMA OpUpdates ==
    ASSUME Types, NEW o \in Ops
    PROVE  /\ \A n \in Nat : [ops EXCEPT ![o].refCount = n] \in [Ops -> Op]
           /\ [ops EXCEPT ![o].evaluated = TRUE] \in [Ops -> Op]
           /\ \A n \in Nat : [ops EXCEPT ![o].refCount = n, ![o].evaluated = TRUE] \in [Ops -> Op]
           /\ [ops EXCEPT ![o].deleteMe = TRUE, ![o].evaluated = TRUE] \in [Ops -> Op]
<1>1. ops \in [Ops -> Op] /\ ops[o] \in Op
  BY DEF Types
<1>2. \A r \in Op : [ops EXCEPT ![o] = r] \in [Ops -> Op]
  BY <1>1
<1>3. /\ \A n \in Nat : [ops[o] EXCEPT !.refCount = n] \in Op
      /\ [ops[o] EXCEPT !.evaluated = TRUE] \in Op
      /\ \A n \in Nat : [ops[o] EXCEPT !.refCount = n, !.evaluated = TRUE] \in Op
      /\ [ops[o] EXCEPT !.deleteMe = TRUE, !.evaluated = TRUE] \in Op
  BY <1>1 DEF Op
<1> QED
  BY <1>2, <1>3

\* The status of an entry changes and nothing else; an evaluated entry stays evaluated.
LEMMA SetStatusIs ==
    ASSUME QInv, NEW x \in Objects, NEW p \in Positions, NEW s \in {"executing", "evaluated"},
           SetStatus(x, p, s)
    PROVE  /\ q' \in [Objects -> Ring] /\ Inv' /\ \A y \in Objects : SameEntries(y)
           /\ \A y \in Objects : \A r \in Positions :
                 q'[y].data[r].status = IF y = x /\ r = p /\ q[x].data[p].status # "evaluated"
                                        THEN s ELSE q[y].data[r].status
<1> DEFINE v == IF q[x].data[p].status = "evaluated" THEN q[x].data[p].status ELSE s
<1>1. Types /\ Inv
  BY DEF QInv
<1>2. Inv'
  BY <1>1, SetStatusInv
<1>3. q' = [q EXCEPT ![x] = [q[x] EXCEPT !.data[p].status = v]]
  BY DEF SetStatus
<1>4. /\ q \in [Objects -> Ring] /\ q[x] \in Ring /\ q[x].data \in [Positions -> Entry]
      /\ q[x].data[p] \in Entry
  BY <1>1 DEF Types, Ring
<1>5. v \in {"executing", "evaluated"}
  OBVIOUS
<1>6. PICK e : e = [q[x].data[p] EXCEPT !.status = v]
  OBVIOUS
<1>7. e \in Entry /\ e.op = q[x].data[p].op /\ e.deps = q[x].data[p].deps /\ e.status = v
  BY <1>4, <1>5, <1>6 DEF Entry
<1>8. PICK d : d = [q[x].data EXCEPT ![p] = e]
  OBVIOUS
<1>9. d \in [Positions -> Entry] /\ \A r \in Positions : d[r] = IF r = p THEN e ELSE q[x].data[r]
  BY <1>4, <1>7, <1>8
<1>10. PICK g : g = [q[x] EXCEPT !.data = d]
  OBVIOUS
<1>11. g \in Ring /\ g.data = d /\ g.head = q[x].head /\ g.tail = q[x].tail /\ g.length = q[x].length
  BY <1>4, <1>9, <1>10 DEF Ring
<1>12. q' = [q EXCEPT ![x] = g]
  <2>1. ASSUME NEW w PROVE [q[x] EXCEPT !.data[p].status = w]
                = [q[x] EXCEPT !.data = [q[x].data EXCEPT ![p] = [q[x].data[p] EXCEPT !.status = w]]]
    OBVIOUS
  <2>2. [q[x] EXCEPT !.data[p].status = v] = g
    <3> HIDE DEF v
    <3> QED BY <1>6, <1>8, <1>10, <2>1
  <2> HIDE DEF v
  <2> QED BY <1>3, <2>2
<1>13. q' \in [Objects -> Ring] /\ \A y \in Objects : q'[y] = IF y = x THEN g ELSE q[y]
  BY <1>4, <1>11, <1>12
<1>14. Queued(g) = Queued(q[x])
  BY <1>11 DEF Queued
<1>15. \A y \in Objects : SameEntries(y)
  BY <1>7, <1>9, <1>11, <1>13, <1>14 DEF SameEntries
<1>16. \A y \in Objects : \A r \in Positions :
          q'[y].data[r].status = IF y = x /\ r = p /\ q[x].data[p].status # "evaluated"
                                 THEN s ELSE q[y].data[r].status
  BY <1>7, <1>9, <1>11, <1>13
<1> QED
  BY <1>2, <1>13, <1>15, <1>16

\* The entries of two operations are two entries.
LEMMA OtherStatus ==
    ASSUME QInv, NEW o \in Ops, Live(o), ops[o].dstPos # InvalidPosition,
           NEW s \in {"executing", "evaluated"}, SetStatus(ops[o].dst, ops[o].dstPos, s),
           NEW a \in Ops, a # o, Live(a), ops[a].dstPos # InvalidPosition,
           ops'[a].dst = ops[a].dst, ops'[a].dstPos = ops[a].dstPos
    PROVE  StatusOf(a)' = StatusOf(a)
<1>1. /\ ops[o].dst \in Objects /\ ops[o].dstPos \in Positions
      /\ EntryOf(ops[o].dst, ops[o].dstPos).op = o
      /\ ops[a].dst \in Objects /\ ops[a].dstPos \in Positions
      /\ EntryOf(ops[a].dst, ops[a].dstPos).op = a
  BY DestinationIs
<1>2. ~(ops[a].dst = ops[o].dst /\ ops[a].dstPos = ops[o].dstPos)
  BY <1>1
<1>3. q'[ops[a].dst].data[ops[a].dstPos].status = q[ops[a].dst].data[ops[a].dstPos].status
  BY <1>1, <1>2, SetStatusIs
<1> QED
  BY <1>3 DEF StatusOf, EntryOf
----------------------------------------------------------------------------
\* The beginning and the end of a flush

\* The calls below the innermost one are about other operations, except for the
\* one that has inserted this one and waits until it is flushed.
LEMMA BelowIs ==
    ASSUME QInv, stack # <<>>, NEW h \in 1 .. Depth - 1, NEW f, f = CallAt(h)
    PROVE  /\ FrameOK(f) /\ f.at # "flush"
           /\ Ordered(Top, f)
           /\ Top.at \notin Deletes => f.at \notin Deletes
<1>1. Types /\ Depth \in Nat \ {0} /\ Top = CallAt(Depth)
  BY TopIsOK
<1>2. h \in 1 .. Depth /\ h # Depth /\ Depth \in 1 .. Depth /\ h \in 1 .. Depth - 1
  BY <1>1
<1>3. FrameOK(f) /\ f.at # "flush"
  BY <1>2 DEF QInv, FramesOK
<1>4. Ordered(Top, f)
  BY <1>1, <1>2, OrderedBelow DEF QInv
<1> QED
  BY <1>3, <1>4 DEF Ordered

\* StartFlush keeps the invariant: no call executes an operation whose entry is still
\* marked as deferred, so the operation is not executed twice.
LEMMA StartFlushQ ==
    ASSUME QInv, StartFlush, ~Undefined
    PROVE  QInv'
<1> DEFINE o == Top.op
<1>1. stack # <<>> /\ Top.at = "flush"
  BY DEF StartFlush, At
<1>2. Types /\ Top \in Frame /\ FrameOK(Top) /\ Depth \in Nat \ {0} /\ Top = CallAt(Depth)
  BY <1>1, TopIsOK
<1>3. o \in Ops /\ Live(o)
  BY <1>1, <1>2 DEF FrameOK, Resting
<1>4. ops[o].dstPos # InvalidPosition
  BY <1>1 DEF Undefined, FlushedWithoutEntry, At
<1>5. CallAt(Depth).at \notin Deletes /\ CallAt(Depth).at = "flush" /\ Entered(CallAt(Depth).op)
  BY <1>1, <1>2, <1>4 DEF Entered, Deletes
<1>6. /\ ops[o].dst \in Objects /\ ops[o].dstPos \in Positions
      /\ EntryOf(ops[o].dst, ops[o].dstPos).op = o
  BY <1>3, <1>4, DestinationIs
<1>7. CASE Return("success") /\ UNCHANGED <<q, ops>>
  <2>1. Returns
    BY <1>1, <1>2, <1>7, PopSteps DEF Return
  <2>2. Inv'
    BY <1>7, InvUnchanged DEF QInv
  <2>3. Types' /\ inserted' = inserted
    BY <1>2, <1>7, <2>1 DEF Types, Returns, StartFlush, Return, history
  <2> QED
    BY <1>2, <1>5, <1>7, <2>1, <2>2, <2>3, NothingChanges, StepInv
<1>8. CASE /\ StatusOf(o) = "deferred"
           /\ SetStatus(ops[o].dst, ops[o].dstPos, "executing")
           /\ ops' = [ops EXCEPT ![o].refCount = @ + 1]
           /\ Continue([Top EXCEPT !.at = "read"])
           /\ result' = "success"
  <2>1. PICK n : n = ops[o].refCount + 1
    OBVIOUS
  <2>2. n \in Nat /\ n > 0
    <3>1. ops[o].refCount \in Nat
      BY <1>2, <1>3 DEF Types, Op
    <3> QED
      BY <2>1, <3>1
  <2>3. ops' = [ops EXCEPT ![o].refCount = n] /\ ops' \in [Ops -> Op]
    BY <1>2, <1>3, <1>8, <2>1, <2>2, OpUpdates
  <2>4. /\ \A a \in Ops : SameLinks(a) /\ Goes(a) /\ ops'[a].deleteMe = ops[a].deleteMe
                          /\ (a # o => ops'[a].refCount = ops[a].refCount)
        /\ ops'[o].refCount = n
    BY <1>2, <1>3, <2>3 DEF Types, Op, SameLinks, Goes, Entered
  <2>5. /\ q' \in [Objects -> Ring] /\ Inv' /\ \A y \in Objects : SameEntries(y)
        /\ q'[ops[o].dst].data[ops[o].dstPos].status = "executing"
    BY <1>6, <1>8, SetStatusIs DEF StatusOf, EntryOf
  <2>6. \A a \in Ops : a # o => SameOp(a)
    <3> SUFFICES ASSUME NEW a \in Ops, a # o PROVE SameOp(a)
      OBVIOUS
    <3>1. SameLinks(a) /\ ops'[a].deleteMe = ops[a].deleteMe /\ ops'[a].refCount = ops[a].refCount
      BY <2>4
    <3>2. ops[a].state = "live" /\ ops[a].dstPos # InvalidPosition => StatusOf(a)' = StatusOf(a)
      BY <1>3, <1>4, <1>8, <3>1, OtherStatus DEF SameLinks, Live
    <3> QED
      BY <3>1, <3>2 DEF SameOp, SameLinks
  <2>7. LowerSuit
    <3> SUFFICES ASSUME NEW h \in 1 .. Depth - 1, NEW f, f = CallAt(h) PROVE Suits(f)
      BY DEF LowerSuit
    <3>1. FrameOK(f) /\ f.at # "flush" /\ f.at \notin Deletes
      BY <1>1, BelowIs DEF Deletes
    <3>2. CASE f.at \in Resting
      BY <3>2 DEF Suits
    <3>3. CASE f.at \notin Resting /\ f.op # o
      BY <2>6, <3>1, <3>3 DEF Suits, FrameOK
    <3>4. CASE f.at \notin Resting /\ f.op = o
      <4>1. f.at = "flushed"
        BY <1>4, <1>8, <3>1, <3>4 DEF FrameOK, Points
      <4> QED
        BY <1>3, <2>4, <3>4, <4>1 DEF Suits, SameLinks
    <3> QED
      BY <3>2, <3>3, <3>4
  <2>8. PICK f : f = [Top EXCEPT !.at = "read"]
    OBVIOUS
  <2>9. f \in Frame /\ f.at = "read" /\ f.op = o /\ f.i > 0
    <3>1. Top.i > 0
      BY <1>1, <1>2 DEF FrameOK, Counting
    <3>2. "read" \in Points
      BY DEF Points, Executing
    <3>3. f \in Frame /\ f.at = "read" /\ f.op = o /\ f.i = Top.i
      BY <1>2, <2>8, <3>2, AtFrame
    <3> QED
      BY <3>1, <3>3
  <2>10. Continues(f)
    BY <1>1, <1>2, <1>8, <2>8, <2>9, ContinueSteps
  <2>11. FrameOK(f)'
    <3>1. ops'[o].state = "live" /\ ops'[o].dst = ops[o].dst /\ ops'[o].dstPos = ops[o].dstPos
          /\ ops'[o].refCount > 0
      BY <1>3, <2>2, <2>4 DEF SameLinks, Live
    <3> QED
      BY <1>3, <1>4, <2>5, <2>9, <3>1 DEF FrameOK, Live, StatusOf, EntryOf, OnObject, OnEntry,
         Counting, Points, Executing, Syncing, Deletes, Inserting, Resting
  <2>12. Fits(f)
    <3> SUFFICES ASSUME NEW h \in 1 .. Depth - 1, NEW g, g = CallAt(h) PROVE Ordered(f, g)
      BY DEF Fits
    <3>1. FrameOK(g) /\ g.at \notin Deletes
      BY <1>1, BelowIs DEF Deletes
    <3>2. g.at \in Executing \cup Syncing => g.op # o
      BY <1>8, <3>1 DEF FrameOK
    <3> QED
      BY <2>9, <3>1, <3>2 DEF Ordered
  <2>13. Types' /\ inserted' = inserted
    BY <1>2, <1>8, <2>3, <2>5, <2>10 DEF Types, Continues, StartFlush, history
  <2>14. GoesOn(f)
    BY <2>9, <2>10, <2>11, <2>12 DEF GoesOn, Follows, Fresh, Waits, Inserting, Deletes
  <2> QED
    BY <1>2, <1>5, <2>4, <2>5, <2>7, <2>13, <2>14, StepInv
<1> QED
  BY <1>7, <1>8 DEF StartFlush, StatusOf

\* An operation that may be deleted is: the call that deletes it begins.
LEMMA DeleteCall ==
    ASSUME NEW c \in Ops, NEW f, f = Delete(c)
    PROVE  /\ f \in Frame /\ f.at = "sources" /\ f.op = c /\ f.i = 1 /\ Fresh(f)
           /\ (/\ ops'[c].state = "live" /\ ops'[c].refCount = 0 /\ ops'[c].deleteMe = TRUE
               /\ ops'[c].dstPos # InvalidPosition) => Called(f)
<1>1. f \in Frame /\ f.at = "sources" /\ f.op = c /\ f.i = 1
  BY CallFrame DEF Delete, Points, Deletes
<1>2. ASSUME ops'[c].state = "live", ops'[c].refCount = 0, ops'[c].deleteMe = TRUE,
             ops'[c].dstPos # InvalidPosition
      PROVE  Called(f)
  <2>1. FrameOK(f)'
    BY <1>1, <1>2 DEF FrameOK, Live, OnObject, OnEntry,
         Counting, Points, Executing, Syncing, Deletes, Inserting, Resting
  <2> QED
    BY <1>1, <2>1 DEF Called, Fresh, Inserting, Executing
<1> QED
  BY <1>1, <1>2 DEF Fresh

\* FinishFlush keeps the invariant.
LEMMA FinishFlushQ ==
    ASSUME QInv, FinishFlush
    PROVE  QInv'
<1> DEFINE o == Top.op
<1>1. stack # <<>> /\ Top.at \in {"computed", "abandoned"}
  BY DEF FinishFlush, At
<1>2. Types /\ Top \in Frame /\ FrameOK(Top) /\ Depth \in Nat \ {0} /\ Top = CallAt(Depth)
  BY <1>1, TopIsOK
<1>3. o \in Ops /\ Live(o) /\ ops[o].dstPos # InvalidPosition /\ ops[o].refCount > 0
  BY <1>1, <1>2 DEF FrameOK, Resting, Executing
<1>5. CallAt(Depth).at \notin Deletes /\ CallAt(Depth).at # "flush"
  BY <1>1, <1>2 DEF Deletes
<1>6. /\ ops[o].dst \in Objects /\ ops[o].dstPos \in Positions
      /\ EntryOf(ops[o].dst, ops[o].dstPos).op = o
  BY <1>3, DestinationIs
<1>8. /\ SetStatus(ops[o].dst, ops[o].dstPos, "evaluated")
      /\ ops' = [ops EXCEPT ![o].refCount = @ - 1, ![o].evaluated = TRUE]
      /\ IF ReleaseDeletes(o) THEN Continue(Delete(o)) ELSE Pop
      /\ result' \in {"success", "failure"} /\ UNCHANGED <<inserted, wanted>>
  BY DEF FinishFlush
<1>9. PICK n : n = ops[o].refCount - 1
  OBVIOUS
<1>10. ops[o].refCount \in Nat /\ n \in Nat
  <2>1. ops[o].refCount \in Nat
    BY <1>2, <1>3 DEF Types, Op
  <2> QED
    BY <1>3, <1>9, <2>1
<1>11. ops' = [ops EXCEPT ![o].refCount = n, ![o].evaluated = TRUE] /\ ops' \in [Ops -> Op]
  BY <1>2, <1>3, <1>8, <1>9, <1>10, OpUpdates
<1>12. /\ \A a \in Ops : SameLinks(a) /\ Goes(a) /\ ops'[a].deleteMe = ops[a].deleteMe
                         /\ (a # o => ops'[a].refCount = ops[a].refCount)
       /\ ops'[o].refCount = n
  BY <1>2, <1>3, <1>11 DEF Types, Op, SameLinks, Goes, Entered
<1>13. q' \in [Objects -> Ring] /\ Inv' /\ \A y \in Objects : SameEntries(y)
  BY <1>6, <1>8, SetStatusIs
<1>14. \A a \in Ops : a # o => SameOp(a)
  <2> SUFFICES ASSUME NEW a \in Ops, a # o PROVE SameOp(a)
    OBVIOUS
  <2>1. SameLinks(a) /\ ops'[a].deleteMe = ops[a].deleteMe /\ ops'[a].refCount = ops[a].refCount
    BY <1>12
  <2>2. ops[a].state = "live" /\ ops[a].dstPos # InvalidPosition => StatusOf(a)' = StatusOf(a)
    BY <1>3, <1>8, <2>1, OtherStatus DEF SameLinks, Live
  <2> QED
    BY <2>1, <2>2 DEF SameOp, SameLinks
<1>15. LowerSuit
  <2> SUFFICES ASSUME NEW h \in 1 .. Depth - 1, NEW f, f = CallAt(h) PROVE Suits(f)
    BY DEF LowerSuit
  <2>1. FrameOK(f) /\ f.at # "flush" /\ f.at \notin Deletes /\ Ordered(Top, f)
    BY <1>1, BelowIs DEF Deletes
  <2>2. CASE f.at \in Resting
    BY <2>2 DEF Suits
  <2>3. CASE f.at \notin Resting /\ f.op # o
    BY <1>14, <2>1, <2>3 DEF Suits, FrameOK
  <2>4. CASE f.at \notin Resting /\ f.op = o
    <3>1. f.at = "flushed"
      BY <1>1, <1>3, <2>1, <2>4 DEF FrameOK, Points, Ordered, Executing
    <3> QED
      BY <1>3, <1>12, <2>4, <3>1 DEF Suits, SameLinks
  <2> QED
    BY <2>2, <2>3, <2>4
<1>16. CASE ReleaseDeletes(o)
  <2>1. Continue(Delete(o)) /\ n = 0 /\ ops[o].deleteMe
    BY <1>8, <1>9, <1>16 DEF ReleaseDeletes
  <2>2. PICK f : f = Delete(o)
    OBVIOUS
  <2>3. f \in Frame /\ f.at = "sources" /\ Fresh(f) /\ Called(f)
    <3>1. ops[o].deleteMe \in BOOLEAN
      BY <1>2, <1>3 DEF Types, Op
    <3>2. /\ ops'[o].state = "live" /\ ops'[o].refCount = 0 /\ ops'[o].deleteMe = TRUE
          /\ ops'[o].dstPos # InvalidPosition
      BY <1>3, <1>12, <2>1, <3>1 DEF SameLinks, Live
    <3> QED
      BY <1>3, <2>2, <3>2, DeleteCall
  <2>4. Continues(f)
    BY <1>1, <1>2, <2>1, <2>2, <2>3, ContinueSteps
  <2>5. FrameOK(f)'
    BY <2>3 DEF Called
  <2>6. Fits(f)
    <3> SUFFICES ASSUME NEW h \in 1 .. Depth - 1, NEW g, g = CallAt(h) PROVE Ordered(f, g)
      BY DEF Fits
    <3>1. g.at \notin Deletes
      BY <1>1, BelowIs DEF Deletes
    <3> QED
      BY <2>3, <3>1 DEF Ordered, Executing
  <2>7. GoesOn(f)
    BY <2>3, <2>4, <2>5, <2>6 DEF GoesOn, Follows, Inserting, Waits
  <2>8. Types' /\ inserted' = inserted
    BY <1>2, <1>8, <1>11, <1>13, <2>4 DEF Types, Continues
  <2> QED
    BY <1>2, <1>5, <1>12, <1>13, <1>15, <2>7, <2>8, StepInv
<1>17. CASE ~ReleaseDeletes(o)
  <2>1. Returns
    BY <1>1, <1>2, <1>8, <1>17, PopSteps
  <2>2. Types' /\ inserted' = inserted
    BY <1>2, <1>8, <1>11, <1>13, <2>1 DEF Types, Returns
  <2> QED
    BY <1>2, <1>5, <1>12, <1>13, <1>15, <2>1, <2>2, StepInv
<1> QED
  BY <1>16, <1>17
----------------------------------------------------------------------------
\* Operations that are marked and deleted

\* The operation the innermost call waits for has an entry.
LEMMA AwaitedIs ==
    ASSUME QInv, stack # <<>>, Waits(Top)
    PROVE  Entered(Awaited(Top))
<1>1. Types /\ Depth \in Nat \ {0} /\ Top = CallAt(Depth)
  BY TopIsOK
<1>2. Depth \in 1 .. Depth /\ Depth + 1 # Depth
  BY <1>1
<1> QED
  BY <1>1, <1>2 DEF QInv, FramesOK

\* A call on top of all calls in progress
LEMMA PushSteps ==
    ASSUME Types, stack # <<>>, NEW callee
    PROVE  /\ <<callee>> \o stack = <<callee, Top>> \o Below
           /\ stack = <<Top>> \o Below
<1>1. PICK s, t, f : s = stack /\ t = Tail(stack) /\ f = Head(stack)
  OBVIOUS
<1>2. /\ s \in Seq(Frame) /\ Len(s) \in Nat \ {0} /\ Len(t) = Len(s) - 1
      /\ t \in Seq(Frame) /\ f = s[1]
      /\ \A i \in 1 .. Len(s) - 1 : t[i] = s[i + 1]
  BY <1>1, HeadTailProperties, ElementOfSeq, EmptySeq, LenProperties DEF Types
<1>3. s = <<f>> \o t
  BY <1>2, SMTT(30)
<1>4. <<callee>> \o s = <<callee, f>> \o t
  BY <1>2, SMTT(30)
<1> QED
  BY <1>1, <1>3, <1>4 DEF Top, Below

\* An operation is marked as evaluated, and deleted if it may be.
LEMMA MarkStep ==
    ASSUME QInv, stack # <<>>, Top.at \notin Deletes, Top.at # "flush",
           UNCHANGED <<q, inserted, wanted>>, result' \in {"success", "failure"},
           NEW c \in Ops, Live(c), Entered(c),
           ops' = [ops EXCEPT ![c].evaluated = TRUE],
           NEW f, Next1(f), ~Waits(f), f.at # "flush",
           \/ Continue(f)
           \/ IsDeletedBy(c) /\ CallAndContinue(Delete(c), f)
    PROVE  QInv'
<1>1. Types /\ StackOrder /\ Inv /\ Depth \in Nat \ {0} /\ Top = CallAt(Depth)
  BY TopIsOK DEF QInv
<1>2. Inv'
  BY <1>1, InvUnchanged
<1>3. ops' \in [Ops -> Op] /\ \A a \in Ops : SameLinks(a) /\ ops'[a].refCount = ops[a].refCount
                                             /\ ops'[a].deleteMe = ops[a].deleteMe
  <2>1. ops' \in [Ops -> Op]
    BY <1>1, OpUpdates
  <2>2. \A a \in Ops : SameLinks(a) /\ ops'[a].refCount = ops[a].refCount
                                   /\ ops'[a].deleteMe = ops[a].deleteMe
    BY <1>1 DEF Types, Op, SameLinks
  <2> QED
    BY <2>1, <2>2
<1>4. \A a \in Ops : SameOp(a) /\ Goes(a)
  BY <1>3 DEF SameLinks, SameOp, Goes, Entered, StatusOf, EntryOf
<1>5. \A x \in Objects : SameEntries(x)
  BY DEF SameEntries
<1>6. LowerSuit
  <2> SUFFICES ASSUME NEW h \in 1 .. Depth - 1, NEW g, g = CallAt(h) PROVE Suits(g)
    BY DEF LowerSuit
  <2>1. FrameOK(g)
    BY BelowIs
  <2> QED
    BY <1>4, <2>1 DEF Suits, FrameOK
<1>7. FrameOK(f)'
  <2>1. FrameOK(f)
    BY DEF Next1
  <2>2. Suits(f)
    BY <1>4, <2>1 DEF Suits, FrameOK
  <2> QED
    BY <1>4, <2>1, <2>2, FrameStays
<1>8. Follows(f)
  <2>1. Fits(f)
    BY <1>1, FitsLike DEF Next1
  <2> QED
    BY <1>7, <2>1 DEF Next1, Follows, Fresh
<1>9. CASE Continue(f)
  <2>1. Continues(f) /\ GoesOn(f)
    BY <1>1, <1>8, <1>9, ContinueSteps DEF GoesOn, Next1
  <2>2. Types'
    BY <1>1, <1>3, <2>1 DEF Types, Continues
  <2> QED
    BY <1>1, <1>2, <1>3, <1>4, <1>5, <1>6, <2>1, <2>2, StepInv
<1>10. CASE IsDeletedBy(c) /\ CallAndContinue(Delete(c), f)
  <2>1. PICK g : g = Delete(c)
    OBVIOUS
  <2>2. g \in Frame /\ Called(g)
    <3>1. ops[c].deleteMe \in BOOLEAN
      BY <1>1 DEF Types, Op
    <3>2. /\ ops'[c].state = "live" /\ ops'[c].refCount = 0 /\ ops'[c].deleteMe = TRUE
          /\ ops'[c].dstPos # InvalidPosition
      BY <1>3, <1>10, <3>1 DEF SameLinks, Live, IsDeletedBy, Entered
    <3> QED
      BY <2>1, <3>2, DeleteCall
  <2>3. Enters(g, f)
    BY <1>1, <1>10, <2>1, <2>2, CallSteps DEF Next1
  <2>4. MakesCall(g, f)
    BY <1>8, <2>2, <2>3 DEF MakesCall, Next1
  <2>5. Types'
    BY <1>1, <1>3, <2>3 DEF Types, Enters
  <2> QED
    BY <1>1, <1>2, <1>3, <1>4, <1>5, <1>6, <2>4, <2>5, StepInv
<1> QED
  BY <1>9, <1>10

\* Evaluated keeps the invariant.
LEMMA EvaluatedQ ==
    ASSUME QInv, Evaluated, ~Undefined
    PROVE  QInv'
<1>1. stack # <<>> /\ Top.at = "evaluated"
  BY DEF Evaluated, At
<1>2. Types /\ Top \in Frame /\ FrameOK(Top)
  BY <1>1, TopIsOK
<1>3. PICK f : f = [Top EXCEPT !.at = "evaluate", !.i = @ + 1, !.dependent = NoOp,
                               !.failed = @ \/ result = "failure"]
  OBVIOUS
<1>4. f \in Frame /\ f.at = "evaluate" /\ f.op = Top.op /\ f.obj = Top.obj /\ f.pos = Top.pos
      /\ f.i = Top.i + 1
  <2>1. PICK b \in BOOLEAN : b = (Top.failed \/ result = "failure")
    OBVIOUS
  <2>2. f = [Top EXCEPT !.at = "evaluate", !.i = @ + 1, !.dependent = NoOp, !.failed = b]
    BY <1>3, <2>1
  <2>3. "evaluate" \in Points /\ NoOp \in Ops \cup {NoOp}
    BY DEF Points, Syncing
  <2>4. Top.i \in Nat
    BY <1>2, FrameIs
  <2>5. Top.i + 1 \in Nat
    BY <2>4
  <2> QED
    BY <1>2, <2>1, <2>2, <2>3, <2>5 DEF Frame
<1>5. Next1(f) /\ ~Waits(f) /\ f.at # "flush"
  <2>1. f.pos \in Positions /\ f.i > 0
    BY <1>1, <1>2, <1>4, FrameIs DEF FrameOK, OnEntry, Counting
  <2> QED
    BY <1>1, <1>4, <2>1, GoesOnAt DEF Syncing, Waits
<1>6. UNCHANGED <<q, inserted, wanted>> /\ result' \in {"success", "failure"}
  BY <1>2 DEF Evaluated, history, Types
<1>7. CASE result = "failure"
  <2>1. PICK d \in Ops : d = Top.dependent
    BY <1>1, <1>2 DEF FrameOK
  <2>2. Live(d)
    <3>1. ops[d].state \in {"new", "live", "deleted"}
      BY <1>2 DEF Types, Op
    <3>2. ops[d].state # "new" /\ ops[d].state # "deleted"
      BY <1>1, <1>2, <1>7, <2>1 DEF FrameOK, Undefined, DestroyedTwice, At
    <3> QED
      BY <3>1, <3>2 DEF Live
  <2>3. Entered(d)
    BY <1>1, <2>1, AwaitedIs DEF Waits, Awaited
  <2>4. /\ ops' = [ops EXCEPT ![Top.dependent].evaluated = TRUE]
        /\ IF IsDeletedBy(Top.dependent) THEN CallAndContinue(Delete(Top.dependent), f)
                                         ELSE Continue(f)
    BY <1>3, <1>7, Zenon DEF Evaluated
  <2>5. /\ ops' = [ops EXCEPT ![d].evaluated = TRUE]
        /\ Continue(f) \/ (IsDeletedBy(d) /\ CallAndContinue(Delete(d), f))
    <3>1. CASE IsDeletedBy(d)
      BY <2>1, <2>4, <3>1
    <3>2. CASE ~IsDeletedBy(d)
      BY <2>1, <2>4, <3>2
    <3> QED
      BY <3>1, <3>2
  <2> QED
    BY <1>1, <1>5, <1>6, <2>2, <2>3, <2>5, MarkStep DEF Deletes
<1>8. CASE result # "failure"
  <2>1. Continue(f) /\ UNCHANGED ops
    BY <1>3, <1>8 DEF Evaluated
  <2> QED
    BY <1>1, <1>5, <1>6, <2>1, PureStep DEF Deletes
<1> QED
  BY <1>7, <1>8

\* TossCovered keeps the invariant.
LEMMA TossCoveredQ ==
    ASSUME QInv, TossCovered
    PROVE  QInv'
<1>1. stack # <<>> /\ Top.at = "toss"
  BY DEF TossCovered, At
<1>2. Types /\ Top \in Frame /\ FrameOK(Top) /\ Depth = 1
  BY <1>1, TopIsOK DEF Inserting
<1>3. UNCHANGED <<inserted, wanted>> /\ result' \in {"success", "failure"}
  BY <1>2 DEF TossCovered, history, Types
<1>4. CASE Creator(Top.obj) # NoOp /\ Toss(Top.obj, stack)
  <2>1. Top.obj \in Objects
    BY <1>1, <1>2 DEF FrameOK, OnObject, Inserting
  <2>2. PICK c \in Ops : c = Creator(Top.obj)
    BY <1>4, <2>1, CreatorIs
  <2>3. Live(c) /\ Entered(c)
    BY <1>4, <2>1, <2>2, CreatorIs DEF Entered
  <2>4. PICK f : f = Top
    OBVIOUS
  <2>5. Next1(f) /\ ~Waits(f) /\ f.at # "flush"
    BY <1>1, <1>2, <2>4 DEF Next1, Waits, Deletes
  <2>6. /\ ops' = [ops EXCEPT ![c].evaluated = TRUE] /\ UNCHANGED q
        /\ stack' = IF IsDeletedBy(c) THEN <<Delete(c)>> \o stack ELSE stack
    BY <1>4, <2>2 DEF Toss
  <2>7. Continue(f) \/ (IsDeletedBy(c) /\ CallAndContinue(Delete(c), f))
    <3>1. PICK g : g = Delete(c)
      OBVIOUS
    <3>2. <<g>> \o stack = <<g, f>> \o Below /\ stack = <<f>> \o Below
      BY <1>1, <1>2, <2>4, PushSteps
    <3>3. CASE IsDeletedBy(c)
      BY <2>6, <3>1, <3>2, <3>3 DEF CallAndContinue
    <3>4. CASE ~IsDeletedBy(c)
      BY <2>6, <3>2, <3>4 DEF Continue
    <3> QED
      BY <3>3, <3>4
  <2> QED
    BY <1>1, <1>3, <2>3, <2>5, <2>6, <2>7, MarkStep DEF Deletes
<1>5. CASE Continue([Top EXCEPT !.at = "queue"]) /\ UNCHANGED <<q, ops>>
  <2>1. PICK f : f = [Top EXCEPT !.at = "queue"]
    OBVIOUS
  <2>2. f \in Frame /\ f.at = "queue" /\ f.op = Top.op /\ f.obj = Top.obj
    BY <1>2, <2>1, AtFrame DEF Points, Inserting
  <2>3. Next1(f)
    BY <1>1, <2>2, GoesOnAt DEF Inserting, Counting, OnEntry
  <2> QED
    BY <1>1, <1>3, <1>5, <2>1, <2>2, <2>3, PureStep DEF Deletes, Waits
<1> QED
  BY <1>4, <1>5 DEF TossCovered

\* DestroyFlushed keeps the invariant.
LEMMA DestroyFlushedQ ==
    ASSUME QInv, DestroyFlushed
    PROVE  QInv'
<1>1. stack # <<>> /\ Top.at = "flushed"
  BY DEF DestroyFlushed, At
<1>2. Types /\ Inv /\ Top \in Frame /\ FrameOK(Top) /\ Depth = 1 /\ Top = CallAt(Depth)
  BY <1>1, TopIsOK DEF QInv
<1>3. PICK o \in Ops : o = Top.op
  BY <1>1, <1>2 DEF FrameOK, Resting
<1>4. Live(o) /\ ops[o].dstPos # InvalidPosition
  BY <1>1, <1>2, <1>3, AwaitedIs DEF FrameOK, Resting, Waits, Awaited, Entered, Live
<1>5. /\ ops' = [ops EXCEPT ![o].deleteMe = TRUE, ![o].evaluated = TRUE]
      /\ IF ops[o].refCount = 0 THEN Continue(Delete(o)) ELSE Pop
      /\ UNCHANGED <<q, inserted, wanted, result>>
  BY <1>3 DEF DestroyFlushed, history
<1>6. ops' \in [Ops -> Op] /\ ops'[o].deleteMe = TRUE
      /\ \A a \in Ops : SameLinks(a) /\ ops'[a].refCount = ops[a].refCount
  <2>1. ops' \in [Ops -> Op]
    BY <1>2, <1>5, OpUpdates
  <2>2. ops'[o].deleteMe = TRUE
        /\ \A a \in Ops : SameLinks(a) /\ ops'[a].refCount = ops[a].refCount
    BY <1>2, <1>5 DEF Types, Op, SameLinks
  <2> QED
    BY <2>1, <2>2
<1>7. \A a \in Ops : Goes(a)
  BY <1>6 DEF SameLinks, Goes, Entered
<1>8. \A x \in Objects : SameEntries(x)
  BY <1>5 DEF SameEntries
<1>9. LowerSuit /\ Inv' /\ CallAt(Depth).at \notin Deletes /\ CallAt(Depth).at # "flush"
      /\ inserted' = inserted /\ Depth \in Nat \ {0}
  BY <1>1, <1>2, <1>5, InvUnchanged DEF LowerSuit, Deletes
<1>10. CASE ops[o].refCount = 0
  <2>1. PICK f : f = Delete(o)
    OBVIOUS
  <2>2. f \in Frame /\ f.at = "sources" /\ Fresh(f) /\ Called(f)
    <3>1. /\ ops'[o].state = "live" /\ ops'[o].refCount = 0 /\ ops'[o].deleteMe = TRUE
          /\ ops'[o].dstPos # InvalidPosition
      BY <1>4, <1>6, <1>10 DEF SameLinks, Live
    <3> QED
      BY <2>1, <3>1, DeleteCall
  <2>3. Continues(f)
    BY <1>1, <1>2, <1>5, <1>10, <2>1, <2>2, ContinueSteps
  <2>4. FrameOK(f)' /\ Fits(f)
    BY <1>2, <2>2 DEF Called, Fits
  <2>5. GoesOn(f)
    BY <2>2, <2>3, <2>4 DEF GoesOn, Follows, Inserting, Waits
  <2>6. Types'
    BY <1>2, <1>5, <1>6, <2>3 DEF Types, Continues
  <2> QED
    BY <1>6, <1>7, <1>8, <1>9, <2>5, <2>6, StepInv
<1>11. CASE ops[o].refCount # 0
  <2>1. Returns
    BY <1>1, <1>2, <1>5, <1>11, PopSteps
  <2>2. Types'
    BY <1>2, <1>5, <1>6, <2>1 DEF Types, Returns
  <2> QED
    BY <1>6, <1>7, <1>8, <1>9, <2>1, <2>2, StepInv
<1> QED
  BY <1>10, <1>11
----------------------------------------------------------------------------
\* An operation gets its entry

\* What the links say of one operation and of one entry
LEMMA OpLinksAre ==
    ASSUME Types, AllOpLinks, NEW o \in Ops, ops[o].state = "live"
    PROVE  /\ o <= inserted
           /\ ops[o].dstPos # InvalidPosition =>
                 /\ ops[o].dst \in Objects /\ ops[o].dstPos \in Positions
                 /\ ops[o].dstPos \in Queued(q[ops[o].dst])
                 /\ q[ops[o].dst].data[ops[o].dstPos].op = o
           /\ Len(ops[o].src) \in Nat
           /\ Len(ops[o].srcPos) = Len(ops[o].src) /\ Len(ops[o].srcOp) = Len(ops[o].src)
           /\ \A i \in 1..Len(ops[o].src) :
                 /\ ops[o].src[i] \in Objects \cup {NoObject} /\ ops[o].srcPos[i] \in Positions
                 /\ ~Deleting(o) =>
                       /\ ops[o].src[i] \in Objects
                       /\ ops[o].srcPos[i] \in Queued(q[ops[o].src[i]])
                       /\ Lists(q[ops[o].src[i]].data[ops[o].srcPos[i]].deps, o)
                       /\ ops[o].srcOp[i] = q[ops[o].src[i]].data[ops[o].srcPos[i]].op
                 /\ ops[o].src[i] # NoObject =>
                       q[ops[o].src[i]].data[ops[o].srcPos[i]].op < o
<1>1. OpLinks(o)
  BY DEF AllOpLinks
<1>2. ops[o].src \in Seq(Objects \cup {NoObject}) /\ ops[o].srcPos \in Seq(Positions)
  BY DEF Types, Op
<1>3. Len(ops[o].src) \in Nat /\ Len(ops[o].srcPos) = Len(ops[o].src)
  BY <1>1, <1>2 DEF OpLinks
<1>4. \A i \in 1..Len(ops[o].src) :
         ops[o].src[i] \in Objects \cup {NoObject} /\ ops[o].srcPos[i] \in Positions
  BY <1>2, <1>3
<1>5. ops[o].dstPos # InvalidPosition =>
                 /\ ops[o].dst \in Objects /\ ops[o].dstPos \in Positions
                 /\ ops[o].dstPos \in Queued(q[ops[o].dst])
                 /\ q[ops[o].dst].data[ops[o].dstPos].op = o
  BY <1>1, QueuedPositions DEF OpLinks, EntryOf
<1>6. \A i \in 1..Len(ops[o].src) :
                 /\ ~Deleting(o) =>
                       /\ ops[o].src[i] \in Objects
                       /\ ops[o].srcPos[i] \in Queued(q[ops[o].src[i]])
                       /\ Lists(q[ops[o].src[i]].data[ops[o].srcPos[i]].deps, o)
                       /\ ops[o].srcOp[i] = q[ops[o].src[i]].data[ops[o].srcPos[i]].op
                 /\ ops[o].src[i] # NoObject =>
                       q[ops[o].src[i]].data[ops[o].srcPos[i]].op < o
  BY <1>1 DEF OpLinks, Knows, DependsOn, EntryOf
<1> QED
  BY <1>1, <1>3, <1>4, <1>5, <1>6 DEF OpLinks

\* OpLinks of one source, field by field
LEMMA SourceIs ==
    ASSUME Types, AllOpLinks, NEW o \in Ops, ops[o].state = "live", NEW i \in 1..Len(ops[o].src),
           NEW y, y = ops[o].src[i], NEW p, p = ops[o].srcPos[i]
    PROVE  /\ y \in Objects \cup {NoObject} /\ p \in Positions /\ i \in Nat \ {0}
           /\ ~Deleting(o) =>
                 /\ y \in Objects /\ p \in Queued(q[y])
                 /\ Lists(q[y].data[p].deps, o)
                 /\ ops[o].srcOp[i] = q[y].data[p].op
           /\ y # NoObject => q[y].data[p].op < o
<1>1. Len(ops[o].src) \in Nat
  BY OpLinksAre
<1>2. i \in Nat \ {0}
  BY <1>1
<1>3. /\ ops[o].src[i] \in Objects \cup {NoObject} /\ ops[o].srcPos[i] \in Positions
      /\ ~Deleting(o) =>
            /\ ops[o].src[i] \in Objects
            /\ ops[o].srcPos[i] \in Queued(q[ops[o].src[i]])
            /\ Lists(q[ops[o].src[i]].data[ops[o].srcPos[i]].deps, o)
            /\ ops[o].srcOp[i] = q[ops[o].src[i]].data[ops[o].srcPos[i]].op
      /\ ops[o].src[i] # NoObject =>
            q[ops[o].src[i]].data[ops[o].srcPos[i]].op < o
  BY OpLinksAre
<1> QED
  BY <1>2, <1>3

\* OpLinks after a step, field by field
LEMMA OpLinksFrom ==
    ASSUME NEW o \in Ops,
           o > inserted' => ops'[o].state = "new",
           ops'[o].state = "live" =>
              /\ o <= inserted'
              /\ ops'[o].dstPos # InvalidPosition =>
                    /\ ops'[o].dst \in Objects
                    /\ ops'[o].dstPos \in Queued(q'[ops'[o].dst])
                    /\ q'[ops'[o].dst].data[ops'[o].dstPos].op = o
              /\ Len(ops'[o].srcPos) = Len(ops'[o].src)
              /\ Len(ops'[o].srcOp) = Len(ops'[o].src),
           ops'[o].state = "live" =>
              \A i \in 1..Len(ops'[o].src) :
                 /\ ~Deleting(o)' =>
                       /\ ops'[o].src[i] \in Objects
                       /\ ops'[o].srcPos[i] \in Queued(q'[ops'[o].src[i]])
                       /\ Lists(q'[ops'[o].src[i]].data[ops'[o].srcPos[i]].deps, o)
                       /\ ops'[o].srcOp[i] = q'[ops'[o].src[i]].data[ops'[o].srcPos[i]].op
                 /\ ops'[o].src[i] # NoObject =>
                       q'[ops'[o].src[i]].data[ops'[o].srcPos[i]].op < o
    PROVE  OpLinks(o)'
<1>1. (ops[o].state = "live" => \A i \in 1..Len(ops[o].src) :
          /\ ~Deleting(o) => Knows(o, i)
          /\ ops[o].src[i] # NoObject =>
                EntryOf(ops[o].src[i], ops[o].srcPos[i]).op < o)'
  BY DEF Knows, DependsOn, EntryOf
<1>2. (ops[o].dstPos # InvalidPosition =>
             /\ ops[o].dst \in Objects
             /\ ops[o].dstPos \in Queued(q[ops[o].dst])
             /\ EntryOf(ops[o].dst, ops[o].dstPos).op = o)'
      \/ ops'[o].state # "live"
  BY DEF EntryOf
<1> QED
  BY <1>1, <1>2 DEF OpLinks

\* EntryLinks, field by field
LEMMA EntryLinksAre ==
    ASSUME Types, AllEntryLinks, NEW x \in Objects, NEW p \in Positions
    PROVE  /\ q[x].data[p].op \in Ops \cup {NoOp} /\ q[x].data[p].deps \in Seq(Ops)
           /\ p \notin Queued(q[x]) => q[x].data[p].op = NoOp /\ q[x].data[p].deps = <<>>
           /\ q[x].data[p].op # NoOp =>
                 /\ ops[q[x].data[p].op].state = "live"
                 /\ ops[q[x].data[p].op].dst = x /\ ops[q[x].data[p].op].dstPos = p
           /\ \A d \in Ops : Lists(q[x].data[p].deps, d) =>
                 /\ ops[d].state = "live"
                 /\ \E i \in 1..Len(ops[d].src) :
                       ops[d].src[i] = x /\ ops[d].srcPos[i] = p /\ ~Passed(d, i)
<1>1. EntryLinks(x, p)
  BY DEF AllEntryLinks
<1>2. q[x].data[p].op \in Ops \cup {NoOp} /\ q[x].data[p].deps \in Seq(Ops)
  BY DEF Types, Ring, Entry
<1> QED
  BY <1>1, <1>2 DEF EntryLinks, DependsOn, EntryOf, Live

\* EntryLinks after a step, field by field
LEMMA EntryLinksFrom ==
    ASSUME NEW x \in Objects, NEW p \in Positions,
           p \notin Queued(q'[x]) => q'[x].data[p].op = NoOp /\ q'[x].data[p].deps = <<>>,
           q'[x].data[p].op # NoOp =>
                 /\ ops'[q'[x].data[p].op].state = "live"
                 /\ ops'[q'[x].data[p].op].dst = x /\ ops'[q'[x].data[p].op].dstPos = p,
           \A d \in Ops : Lists(q'[x].data[p].deps, d) =>
                 /\ ops'[d].state = "live"
                 /\ \E i \in 1..Len(ops'[d].src) :
                       ops'[d].src[i] = x /\ ops'[d].srcPos[i] = p /\ ~Passed(d, i)'
    PROVE  EntryLinks(x, p)'
  BY DEF EntryLinks, DependsOn, EntryOf, Live
----------------------------------------------------------------------------
\* Operation o gets the new entry n of x.
GetsEntry(x, n, o) ==
    /\ \A y \in Objects :
          Queued(q'[y]) = IF y = x THEN Queued(q[y]) \cup {n} ELSE Queued(q[y])
    /\ \A y \in Objects : \A p \in Positions :
          /\ q'[y].data[p].op = IF y = x /\ p = n THEN o ELSE q[y].data[p].op
          /\ q'[y].data[p].deps = q[y].data[p].deps

\* An operation gets its entry: the links agree.
LEMMA EntryAdded ==
    ASSUME Types, AllOpLinks, AllEntryLinks, inserted' = inserted,
           \A o : ~Deleting(o), \A o : \A i \in Nat \ {0} : ~Passed(o, i)',
           NEW x \in Objects, NEW o \in Ops, ops[o].state = "live", ops[o].dst = x,
           ops[o].dstPos = InvalidPosition,
           NEW n \in Positions, n \notin Queued(q[x]),
           GetsEntry(x, n, o),
           \A a \in Ops : /\ ops'[a].state = ops[a].state /\ ops'[a].dst = ops[a].dst
                          /\ ops'[a].src = ops[a].src /\ ops'[a].srcPos = ops[a].srcPos
                          /\ ops'[a].srcOp = ops[a].srcOp
                          /\ ops'[a].dstPos = IF a = o THEN n ELSE ops[a].dstPos
    PROVE  AllOpLinks' /\ AllEntryLinks'
<1> USE DEF GetsEntry
<1>1. ASSUME NEW a \in Ops PROVE OpLinks(a)'
  <2>1. a > inserted' => ops'[a].state = "new"
    BY DEF AllOpLinks, OpLinks
  <2>2. ASSUME ops'[a].state = "live"
        PROVE  /\ a <= inserted'
               /\ ops'[a].dstPos # InvalidPosition =>
                     /\ ops'[a].dst \in Objects
                     /\ ops'[a].dstPos \in Queued(q'[ops'[a].dst])
                     /\ q'[ops'[a].dst].data[ops'[a].dstPos].op = a
               /\ Len(ops'[a].srcPos) = Len(ops'[a].src)
               /\ Len(ops'[a].srcOp) = Len(ops'[a].src)
    <3>1. ops[a].state = "live"
      BY <2>2
    <3>4. /\ a <= inserted /\ Len(ops[a].srcPos) = Len(ops[a].src)
          /\ Len(ops[a].srcOp) = Len(ops[a].src)
      BY <3>1, OpLinksAre
    <3>5. /\ a <= inserted' /\ Len(ops'[a].srcPos) = Len(ops'[a].src)
          /\ Len(ops'[a].srcOp) = Len(ops'[a].src)
      BY <3>4
    <3>2. CASE a = o
      <4>1. /\ ops'[a].dst = x /\ ops'[a].dstPos = n /\ n \in Queued(q'[x])
            /\ q'[x].data[n].op = o
        BY <3>2
      <4> QED
        BY <3>2, <3>5, <4>1
    <3>3. CASE a # o
      <4>1. ops'[a].dst = ops[a].dst /\ ops'[a].dstPos = ops[a].dstPos
        BY <3>3
      <4>2. SUFFICES ASSUME ops[a].dstPos # InvalidPosition
                     PROVE  /\ ops[a].dst \in Objects
                            /\ ops[a].dstPos \in Queued(q'[ops[a].dst])
                            /\ q'[ops[a].dst].data[ops[a].dstPos].op = a
        BY <3>5, <4>1
      <4>3. PICK y, p : y = ops[a].dst /\ p = ops[a].dstPos
        OBVIOUS
      <4>4. y \in Objects /\ p \in Positions /\ p \in Queued(q[y]) /\ q[y].data[p].op = a
        BY <3>1, <4>2, <4>3, OpLinksAre
      <4>5. p \in Queued(q'[y]) /\ ~(y = x /\ p = n)
        BY <4>4
      <4>6. q'[y].data[p].op = a
        BY <4>4, <4>5
      <4> QED
        BY <4>3, <4>4, <4>5, <4>6
    <3> QED
      BY <3>2, <3>3
  <2>3. ASSUME ops'[a].state = "live", NEW i \in 1..Len(ops'[a].src)
        PROVE  /\ ops'[a].src[i] \in Objects
               /\ ops'[a].srcPos[i] \in Queued(q'[ops'[a].src[i]])
               /\ Lists(q'[ops'[a].src[i]].data[ops'[a].srcPos[i]].deps, a)
               /\ ops'[a].srcOp[i] = q'[ops'[a].src[i]].data[ops'[a].srcPos[i]].op
               /\ q'[ops'[a].src[i]].data[ops'[a].srcPos[i]].op < a
    <3>1. ops[a].state = "live" /\ ~Deleting(a) /\ i \in 1..Len(ops[a].src)
      BY <2>3
    <3>2. PICK y, p : y = ops[a].src[i] /\ p = ops[a].srcPos[i]
      OBVIOUS
    <3>3. /\ y \in Objects \cup {NoObject} /\ p \in Positions /\ y \in Objects
          /\ p \in Queued(q[y])
          /\ Lists(q[y].data[p].deps, a)
          /\ ops[a].srcOp[i] = q[y].data[p].op
          /\ y # NoObject => q[y].data[p].op < a
      BY <3>1, <3>2, SourceIs
    <3>4. y # NoObject
      BY <3>3, QueueAssumption
    <3>5. ~(y = x /\ p = n)
      BY <3>3
    <3>6. Queued(q[y]) \subseteq Queued(q'[y])
      BY <3>3
    <3>7. q'[y].data[p].op = q[y].data[p].op /\ q'[y].data[p].deps = q[y].data[p].deps
      BY <3>3, <3>5
    <3>8. ops'[a].src[i] = y /\ ops'[a].srcPos[i] = p /\ ops'[a].srcOp[i] = ops[a].srcOp[i]
      BY <3>2
    <3>9. /\ p \in Queued(q'[y]) /\ Lists(q'[y].data[p].deps, a)
          /\ ops[a].srcOp[i] = q'[y].data[p].op /\ q'[y].data[p].op < a
      BY <3>3, <3>4, <3>6, <3>7
    <3> QED
      BY <3>3, <3>8, <3>9
  <2> QED
    BY <2>1, <2>2, <2>3, OpLinksFrom
<1>2. ASSUME NEW y \in Objects, NEW p \in Positions PROVE EntryLinks(y, p)'
  <2>1. p \notin Queued(q'[y]) => q'[y].data[p].op = NoOp /\ q'[y].data[p].deps = <<>>
    <3> SUFFICES ASSUME p \notin Queued(q'[y])
                 PROVE  q'[y].data[p].op = NoOp /\ q'[y].data[p].deps = <<>>
      OBVIOUS
    <3>1. p \notin Queued(q[y]) /\ ~(y = x /\ p = n)
      OBVIOUS
    <3>2. q[y].data[p].op = NoOp /\ q[y].data[p].deps = <<>>
      BY <3>1, EntryLinksAre
    <3> QED
      BY <3>1, <3>2
  <2>2. q'[y].data[p].op # NoOp =>
                 /\ ops'[q'[y].data[p].op].state = "live"
                 /\ ops'[q'[y].data[p].op].dst = y /\ ops'[q'[y].data[p].op].dstPos = p
    <3>1. CASE y = x /\ p = n
      BY <3>1
    <3>2. CASE ~(y = x /\ p = n)
      <4>1. q'[y].data[p].op = q[y].data[p].op
        BY <3>2
      <4>2. SUFFICES ASSUME q[y].data[p].op # NoOp
                     PROVE  /\ ops'[q[y].data[p].op].state = "live"
                            /\ ops'[q[y].data[p].op].dst = y /\ ops'[q[y].data[p].op].dstPos = p
        BY <4>1
      <4>3. PICK a \in Ops : a = q[y].data[p].op
        BY <4>2, EntryLinksAre
      <4>4. ops[a].state = "live" /\ ops[a].dst = y /\ ops[a].dstPos = p
        BY <4>2, <4>3, EntryLinksAre
      <4>5. a # o
        BY <4>4, QueueAssumption DEF InvalidPosition, Positions
      <4> QED
        BY <4>3, <4>4, <4>5
    <3> QED
      BY <3>1, <3>2
  <2>3. ASSUME NEW d \in Ops, Lists(q'[y].data[p].deps, d)
        PROVE  /\ ops'[d].state = "live"
               /\ \E i \in 1..Len(ops'[d].src) :
                     ops'[d].src[i] = y /\ ops'[d].srcPos[i] = p /\ ~Passed(d, i)'
    <3>1. Lists(q[y].data[p].deps, d)
      BY <2>3
    <3>2. ops[d].state = "live"
      BY <3>1, EntryLinksAre
    <3>3. PICK i \in 1..Len(ops[d].src) : ops[d].src[i] = y /\ ops[d].srcPos[i] = p
      BY <3>1, EntryLinksAre
    <3>4. Len(ops[d].src) \in Nat
      BY <3>2, OpLinksAre
    <3>5. i \in Nat \ {0}
      BY <3>4
    <3>6. ~Passed(d, i)'
      BY <3>5
    <3> QED
      BY <3>2, <3>3, <3>6
  <2> QED
    BY <2>1, <2>2, <2>3, EntryLinksFrom
<1> QED
  BY <1>1, <1>2 DEF AllOpLinks, AllEntryLinks

\* A new entry is blank.
LEMMA NewEntryIs ==
    ASSUME NEW r \in Ring, RingInv(r), r.length < MaxLength, NEW s, s = NewEntry(r),
           NEW n, n = NewTail(r)
    PROVE  /\ s \in Ring /\ n \in Positions /\ s.tail = n
           /\ s.data = [r.data EXCEPT ![n] = BlankEntry]
<1>1. n \in Positions
  BY NewEntryQueued
<1>2. s = [r EXCEPT !.tail = n, !.length = @ + 1, !.data[n] = BlankEntry]
  BY DEF NewEntry
<1>3. BlankEntry \in Entry
  <2>1. <<>> \in Seq(Ops)
    OBVIOUS
  <2> QED
    BY <2>1 DEF BlankEntry, Entry, NoOp
<1>4. r.length + 1 \in 0..MaxLength
  BY QueueAssumption DEF Ring
<1>5. PICK d : d = [r.data EXCEPT ![n] = BlankEntry]
  OBVIOUS
<1>6. d \in [Positions -> Entry]
  BY <1>3, <1>5 DEF Ring
<1>7. s = [data |-> d, head |-> r.head, tail |-> n, length |-> r.length + 1]
  BY <1>2, <1>5 DEF Ring
<1> QED
  BY <1>1, <1>4, <1>5, <1>6, <1>7 DEF Ring

\* The entry an operation gets
LEMMA EntryOfOp ==
    ASSUME QInv, NEW x \in Objects, q[x].length < MaxLength, NEW o \in Ops,
           q' = [q EXCEPT ![x] = [NewEntry(q[x]) EXCEPT !.data[NewTail(q[x])].op = o]],
           NEW n, n = NewTail(q[x])
    PROVE  /\ q' \in [Objects -> Ring] /\ n \in Positions /\ n \notin Queued(q[x])
           /\ q'[x].tail = n
           /\ GetsEntry(x, n, o)
<1>1. q \in [Objects -> Ring] /\ q[x] \in Ring /\ RingInv(q[x]) /\ Types /\ AllEntryLinks
  BY RingIs DEF QInv, Types
<1>2. PICK s : s = NewEntry(q[x])
  OBVIOUS
<1>3. /\ s \in Ring /\ n \in Positions /\ s.tail = n
      /\ s.data = [q[x].data EXCEPT ![n] = BlankEntry]
  BY <1>1, <1>2, NewEntryIs
<1>4. n \notin Queued(q[x]) /\ Queued(s) = Queued(q[x]) \cup {n}
  BY <1>1, <1>2, NewEntryQueued
<1>5. PICK e : e = [BlankEntry EXCEPT !.op = o]
  OBVIOUS
<1>6. e \in Entry /\ e.op = o /\ e.deps = <<>>
  <2>1. <<>> \in Seq(Ops)
    OBVIOUS
  <2> QED
    BY <1>5, <2>1 DEF BlankEntry, Entry
<1>7. PICK g : g = [s EXCEPT !.data[n].op = o]
  OBVIOUS
<1>8. g.data = [q[x].data EXCEPT ![n] = e] /\ g.head = s.head /\ g.tail = n /\ g.length = s.length
      /\ g \in Ring
  <2>1. q[x].data \in [Positions -> Entry]
    BY <1>1 DEF Ring
  <2>2. [s EXCEPT !.data[n].op = o] = [s EXCEPT !.data = [s.data EXCEPT ![n] = [s.data[n] EXCEPT !.op = o]]]
    OBVIOUS
  <2>3. s.data[n] = BlankEntry
    BY <1>3, <2>1
  <2>4. [s.data EXCEPT ![n] = e] = [q[x].data EXCEPT ![n] = e]
    BY <1>3, <2>1
  <2>5. g = [s EXCEPT !.data = [q[x].data EXCEPT ![n] = e]]
    BY <1>5, <1>7, <2>2, <2>3, <2>4
  <2>6. [q[x].data EXCEPT ![n] = e] \in [Positions -> Entry]
    BY <1>3, <1>6, <2>1
  <2> QED
    BY <1>3, <2>5, <2>6 DEF Ring
<1>9. q' = [q EXCEPT ![x] = g]
  BY <1>2, <1>7
<1>10. q' \in [Objects -> Ring] /\ \A y \in Objects : q'[y] = IF y = x THEN g ELSE q[y]
  BY <1>1, <1>8, <1>9
<1>11. Queued(g) = Queued(s)
  BY <1>8 DEF Queued
<1>12. q[x].data[n].deps = <<>>
  BY <1>1, <1>3, <1>4, EntryLinksAre
<1>13. \A p \in Positions :
          /\ g.data[p].op = IF p = n THEN o ELSE q[x].data[p].op
          /\ g.data[p].deps = q[x].data[p].deps
  <2>1. q[x].data \in [Positions -> Entry]
    BY <1>1 DEF Ring
  <2> QED
    BY <1>6, <1>8, <1>12, <2>1
<1>14. \A y \in Objects :
          Queued(q'[y]) = IF y = x THEN Queued(q[y]) \cup {n} ELSE Queued(q[y])
  BY <1>4, <1>10, <1>11
<1>15. \A y \in Objects : \A p \in Positions :
          /\ q'[y].data[p].op = IF y = x /\ p = n THEN o ELSE q[y].data[p].op
          /\ q'[y].data[p].deps = q[y].data[p].deps
  BY <1>10, <1>13
<1> QED
  BY <1>3, <1>4, <1>8, <1>10, <1>14, <1>15 DEF GetsEntry

\* SetOp keeps the invariant.
LEMMA SetOpQ ==
    ASSUME QInv, SetOp
    PROVE  QInv'
<1>1. stack # <<>> /\ Top.at \in {"queue", "last"}
  BY DEF SetOp, At
<1>2. Types /\ Inv /\ Top \in Frame /\ FrameOK(Top) /\ Depth = 1 /\ Top = CallAt(Depth)
      /\ FramesOK /\ StackOrder /\ AllOpLinks /\ AllEntryLinks
  BY <1>1, TopIsOK DEF QInv, Inserting
<1>3. PICK o \in Ops, x \in Objects : o = Top.op /\ x = Top.obj
  BY <1>1, <1>2 DEF FrameOK, Resting, OnObject, Inserting
<1>4. Live(o) /\ ops[o].dstPos = InvalidPosition /\ ops[o].dst = x
  BY <1>1, <1>2, <1>3 DEF FrameOK, Resting, Inserting
<1>5. PICK full \in BOOLEAN :
         /\ full = (At("last") /\ (result = "failure" \/ q[x].length = MaxLength))
  OBVIOUS
<1>6. PICK n : n = NewTail(q[x])
  OBVIOUS
<1>7. PICK pos : pos = IF full THEN InvalidPosition ELSE n
  OBVIOUS
<1>8. /\ ~full => q[x].length < MaxLength
      /\ IF full THEN UNCHANGED q
         ELSE q' = [q EXCEPT ![x] = [NewEntry(q[x]) EXCEPT !.data[NewTail(q[x])].op = o]]
      /\ inserted' = inserted /\ wanted' = wanted /\ result' = result
      /\ IF ops[o].flush
         THEN CallAndContinue(Flush(o), [Top EXCEPT !.at = "flushed"])
         ELSE Pop
  <2>1. q[x].length \in 0..MaxLength
    BY RingIs
  <2>2. ~full => q[x].length < MaxLength
    <3>1. (At("queue") /\ q[x].length < MaxLength) \/ At("last")
      BY <1>3 DEF SetOp
    <3>2. ~full => ~(At("last") /\ (result = "failure" \/ q[x].length = MaxLength))
      BY <1>5
    <3>3. q[x].length # MaxLength => q[x].length < MaxLength
      BY <2>1, QueueAssumption
    <3> QED
      BY <3>1, <3>2, <3>3
  <2> QED
    BY <1>3, <1>5, <2>2 DEF SetOp
<1>9. ~full => /\ q' \in [Objects -> Ring] /\ n \in Positions /\ n \notin Queued(q[x])
               /\ q'[x].tail = n /\ GetsEntry(x, n, o)
  BY <1>6, <1>8, EntryOfOp
<1>10. PICK del \in BOOLEAN : del = ~ops[o].flush
  OBVIOUS
<1>11. ops' = [ops EXCEPT ![o].dstPos = pos, ![o].deleteMe = del]
  <2>1. ops' = [ops EXCEPT ![o].dstPos = IF full THEN InvalidPosition ELSE NewTail(q[x]),
                           ![o].deleteMe = ~ops[o].flush]
    <3>1. [NewEntry(q[x]) EXCEPT !.data[NewTail(q[x])].op = o].tail = NewTail(q[x])
      BY RingIs DEF NewEntry, Ring
    <3> QED
      BY <1>3, <1>5, <3>1 DEF SetOp
  <2> QED
    BY <1>6, <1>7, <1>10, <2>1
<1>12. pos \in Positions \cup {InvalidPosition} /\ (full <=> pos = InvalidPosition)
  BY <1>7, <1>9, RingIs
<1>13. /\ ops' \in [Ops -> Op] /\ ops'[o].dstPos = pos /\ ops'[o].deleteMe = del
       /\ \A a \in Ops : /\ ops'[a].state = ops[a].state /\ ops'[a].dst = ops[a].dst
                         /\ ops'[a].src = ops[a].src /\ ops'[a].srcPos = ops[a].srcPos
                         /\ ops'[a].srcOp = ops[a].srcOp
                         /\ ops'[a].dstPos = IF a = o THEN pos ELSE ops[a].dstPos
  <2>1. ops \in [Ops -> Op] /\ ops[o] \in Op
    BY <1>2 DEF Types
  <2>2. PICK w : w = [ops[o] EXCEPT !.dstPos = pos, !.deleteMe = del]
    OBVIOUS
  <2>3. /\ w \in Op /\ w.dstPos = pos /\ w.deleteMe = del /\ w.state = ops[o].state
        /\ w.dst = ops[o].dst /\ w.src = ops[o].src /\ w.srcPos = ops[o].srcPos
        /\ w.srcOp = ops[o].srcOp
    BY <1>12, <2>1, <2>2 DEF Op
  <2>4. ops' = [ops EXCEPT ![o] = w]
    BY <1>11, <2>2
  <2> QED
    BY <2>1, <2>3, <2>4
<1>14. \A a \in Ops : Goes(a)
  BY <1>4, <1>13 DEF Goes, Entered
<1>15. LowerSuit /\ CallAt(Depth).at \notin Deletes /\ CallAt(Depth).at # "flush"
       /\ Depth \in Nat \ {0}
  BY <1>1, <1>2 DEF LowerSuit, Deletes
<1>16. Inv'
  BY <1>2, SetOpInv
<1>17. FramesOK' /\ StackOrder' /\ (\A a : \A i \in Nat \ {0} : ~Passed(a, i)') /\ Types'
  <2>1. CASE ops[o].flush
    <3>1. PICK f, g : f = [Top EXCEPT !.at = "flushed"] /\ g = Flush(o)
      OBVIOUS
    <3>2. f \in Frame /\ f.at = "flushed" /\ f.op = o
      BY <1>2, <1>3, <3>1, AtFrame DEF Points
    <3>3. g \in Frame /\ g.at = "flush" /\ g.op = o /\ g.i = 1
      BY <3>1, CallFrame DEF Flush, Points
    <3>4. ops'[o].state = "live" /\ ops'[o].deleteMe = FALSE
      BY <1>4, <1>10, <1>13, <2>1 DEF Live
    <3>5. FrameOK(f)' /\ FrameOK(g)'
      BY <3>2, <3>3, <3>4 DEF FrameOK, Live, OnObject, OnEntry, Counting, Points, Executing,
         Syncing, Deletes, Inserting, Resting
    <3>6. Enters(g, f)
      BY <1>1, <1>2, <1>8, <2>1, <3>1, <3>2, <3>3, CallSteps
    <3>7. Fits(f)
      BY <1>2 DEF Fits
    <3>8. MakesCall(g, f)
      BY <1>2, <3>2, <3>3, <3>5, <3>6, <3>7 DEF MakesCall, Follows, Called, Fresh, Waits, Awaited,
         Deletes, Inserting, Executing
    <3>9. Types'
      BY <1>2, <1>8, <1>9, <1>13, <3>6 DEF Types, Enters
    <3> QED
      BY <1>2, <1>14, <1>15, <3>8, <3>9, StackStep
  <2>2. CASE ~ops[o].flush
    <3>1. Returns
      BY <1>1, <1>2, <1>8, <2>2, PopSteps
    <3>2. Types'
      BY <1>2, <1>8, <1>9, <1>13, <3>1 DEF Types, Returns
    <3> QED
      BY <1>2, <1>14, <1>15, <3>1, <3>2, StackStep
  <2> QED
    BY <2>1, <2>2
<1>18. \A a : ~Deleting(a)
  BY <1>2, <1>15, NoneDeleting
<1>19. AllOpLinks' /\ AllEntryLinks'
  <2>1. CASE full
    <3>1. \A a \in Ops : SameLinks(a)
      BY <1>4, <1>12, <1>13, <2>1 DEF SameLinks
    <3>2. \A y \in Objects : SameEntries(y)
      BY <1>8, <2>1 DEF SameEntries
    <3> QED
      BY <1>2, <1>8, <1>17, <1>18, <3>1, <3>2, LinksKept
  <2>2. CASE ~full
    <3>1. pos = n
      BY <1>7, <2>2
    <3>2. \A a \in Ops : /\ ops'[a].state = ops[a].state /\ ops'[a].dst = ops[a].dst
                         /\ ops'[a].src = ops[a].src /\ ops'[a].srcPos = ops[a].srcPos
                         /\ ops'[a].srcOp = ops[a].srcOp
                         /\ ops'[a].dstPos = IF a = o THEN n ELSE ops[a].dstPos
      BY <1>13, <3>1
    <3>3. ops[o].state = "live"
      BY <1>4 DEF Live
    <3> QED
      BY <1>2, <1>4, <1>8, <1>9, <1>17, <1>18, <2>2, <3>2, <3>3, EntryAdded
  <2> QED
    BY <2>1, <2>2
<1> QED
  BY <1>16, <1>17, <1>19 DEF QInv
----------------------------------------------------------------------------
\* Destructors: the sources

\* The destructor of an operation goes on, possibly after another destructor.
LEMMA DeleteStep ==
    ASSUME QInv, Depth \in Nat \ {0}, CallAt(Depth).at \in Deletes,
           \A o \in Ops : SameOp(o) /\ Goes(o),
           NEW f, f.at \in Deletes, f.op = CallAt(Depth).op, f.i > 0,
           \/ Continues(f)
           \/ \E callee : /\ Enters(callee, f) /\ Called(callee)
                          /\ callee.at = "sources" /\ callee.op < f.op
    PROVE  /\ FramesOK' /\ StackOrder'
           /\ \A o : Deleting(o) => Deleting(o)'
           /\ \A o : \A j \in Nat \ {0} : Passed(o, j)' =>
                 Passed(o, j) \/ (o = f.op /\ (f.at = "sources" => j < f.i))
<1>1. FramesOK /\ StackOrder
  BY DEF QInv
<1>2. FrameOK(CallAt(Depth))
  BY <1>1 DEF FramesOK
<1>3. PICK t : t = CallAt(Depth) /\ FrameOK(t) /\ t.at \in Deletes /\ f.op = t.op
  BY <1>2
<1>4. FrameOK(f) /\ f.op \in Ops
  BY <1>3 DEF FrameOK, Live, OnObject, OnEntry, Counting, Points, Executing,
         Syncing, Deletes, Inserting, Resting
<1>5. LowerSuit
  <2> SUFFICES ASSUME NEW h \in 1 .. Depth - 1, NEW g, g = CallAt(h) PROVE Suits(g)
    BY DEF LowerSuit
  <2>1. h \in 1 .. Depth
    OBVIOUS
  <2>2. FrameOK(g)
    BY <1>1, <2>1 DEF FramesOK
  <2> QED
    BY <2>2 DEF Suits, FrameOK
<1>6. FrameOK(f)'
  <2>1. Suits(f)
    BY <1>4 DEF Suits
  <2> QED
    BY <1>4, <2>1, FrameStays
<1>7. Fits(f)
  BY <1>1, FitsLike DEF Deletes, Executing
<1>8. f.at \notin Inserting \cup Executing \cup {"flushed", "flush", "evaluated"} /\ ~Waits(f)
      /\ CallAt(Depth).at # "flush"
  BY DEF Deletes, Inserting, Executing, Waits
<1>9. CASE Continues(f)
  <2>1. FramesOK' /\ StackOrder'
    BY <1>1, <1>5, <1>6, <1>7, <1>8, <1>9, FramesContinue, OrderContinue
  <2>2. PICK n \in Nat \ {0} : n = Depth
    OBVIOUS
  <2>3. Depth' = n /\ AtDepth(stack', n) = f /\ \A h \in 1 .. n - 1 : AtDepth(stack', h) = CallAt(h)
    BY <1>9, <2>2 DEF Continues
  <2>4. ASSUME NEW o, Deleting(o) PROVE Deleting(o)'
    <3>1. PICK h \in 1 .. n : CallAt(h).at \in Deletes /\ CallAt(h).op = o
      BY <2>2, <2>4 DEF Deleting
    <3>2. AtDepth(stack', h).at \in Deletes /\ AtDepth(stack', h).op = o
      BY <2>2, <2>3, <3>1
    <3> QED
      BY <2>3, <3>2 DEF Deleting, CallAt
  <2>5. ASSUME NEW o, NEW j \in Nat \ {0}, Passed(o, j)'
        PROVE  Passed(o, j) \/ (o = f.op /\ (f.at = "sources" => j < f.i))
    <3>1. PICK h \in 1 .. n : /\ AtDepth(stack', h).at \in Deletes /\ AtDepth(stack', h).op = o
                              /\ AtDepth(stack', h).at = "sources" => j < AtDepth(stack', h).i
      BY <2>3, <2>5 DEF Passed, CallAt
    <3> QED
      BY <2>2, <2>3, <3>1 DEF Passed
  <2> QED
    BY <2>1, <2>4, <2>5
<1>10. CASE \E callee : /\ Enters(callee, f) /\ Called(callee)
                        /\ callee.at = "sources" /\ callee.op < f.op
  <2>0. PICK c : Enters(c, f) /\ Called(c) /\ c.at = "sources" /\ c.op < f.op
    BY <1>10
  <2>1. c.at \notin Inserting \cup {"flushed"} /\ ~Waits(c) /\ FrameOK(c)' /\ c.op \in Ops /\ c.i = 1
    BY <2>0 DEF Inserting, Waits, Called, FrameOK, Resting, Fresh, Deletes
  <2>2. Fits(c) /\ Ordered(c, f)
    <3>1. ASSUME NEW h \in 1 .. Depth - 1, NEW g, g = CallAt(h) PROVE Ordered(c, g)
      <4>1. h \in 1 .. Depth /\ Depth \in 1 .. Depth
        OBVIOUS
      <4>2. FrameOK(g) /\ Ordered(t, g)
        BY <1>1, <1>3, <3>1, <4>1, OrderedBelow DEF FramesOK
      <4>3. g.at \in Deletes => g.op \in Ops
        BY <4>2 DEF FrameOK, Deletes, Resting
      <4>4. g.at \in Deletes => c.op < g.op
        BY <1>3, <1>4, <2>0, <2>1, <4>2, <4>3 DEF Ordered, Ops
      <4> QED
        BY <2>0, <4>4 DEF Ordered, Deletes, Executing
    <3>2. Ordered(c, f)
      BY <2>0 DEF Ordered, Deletes, Executing
    <3> QED
      BY <3>1, <3>2 DEF Fits
  <2>3. FramesOK' /\ StackOrder'
    BY <1>1, <1>5, <1>6, <1>7, <1>8, <2>0, <2>1, <2>2, FramesEnter, OrderEnter
  <2>4. PICK n \in Nat \ {0} : n = Depth
    OBVIOUS
  <2>5. /\ Depth' = n + 1 /\ AtDepth(stack', n + 1) = c /\ AtDepth(stack', n) = f
        /\ \A h \in 1 .. n - 1 : AtDepth(stack', h) = CallAt(h)
    BY <2>0, <2>4 DEF Enters
  <2>6. ASSUME NEW o, Deleting(o) PROVE Deleting(o)'
    <3>1. PICK h \in 1 .. n : CallAt(h).at \in Deletes /\ CallAt(h).op = o
      BY <2>4, <2>6 DEF Deleting
    <3>2. h \in 1 .. n + 1 /\ AtDepth(stack', h).at \in Deletes /\ AtDepth(stack', h).op = o
      BY <2>4, <2>5, <3>1
    <3> QED
      BY <2>5, <3>2 DEF Deleting, CallAt
  <2>7. ASSUME NEW o, NEW j \in Nat \ {0}, Passed(o, j)'
        PROVE  Passed(o, j) \/ (o = f.op /\ (f.at = "sources" => j < f.i))
    <3>1. PICK h \in 1 .. n + 1 : /\ AtDepth(stack', h).at \in Deletes /\ AtDepth(stack', h).op = o
                                  /\ AtDepth(stack', h).at = "sources" => j < AtDepth(stack', h).i
      BY <2>5, <2>7 DEF Passed, CallAt
    <3>2. h # n + 1
      BY <2>0, <2>1, <2>5, <3>1
    <3> QED
      BY <2>4, <2>5, <3>1, <3>2 DEF Passed
  <2> QED
    BY <2>3, <2>6, <2>7
<1> QED
  BY <1>9, <1>10

\* A list that names nobody is empty.
LEMMA NobodyListed ==
    ASSUME NEW s \in Seq(Ops), \A d \in Ops : ~Lists(s, d)
    PROVE  s = <<>>
<1>1. Len(s) \in Nat /\ \A k \in 1..Len(s) : s[k] \in Ops /\ k \in DOMAIN s
  OBVIOUS
<1>2. Len(s) = 0
  <2> SUFFICES ASSUME Len(s) # 0 PROVE FALSE
    OBVIOUS
  <2>1. 1 \in 1..Len(s)
    BY <1>1
  <2>2. s[1] \in Ops /\ Lists(s, s[1])
    BY <1>1, <2>1 DEF Lists
  <2> QED
    BY <2>2
<1> QED
  BY <1>2, EmptySeq

\* Operation a is no dependent of the entry p of x any more, which perhaps has
\* been removed.
Leaves(a, x, p) ==
    /\ \A y \in Objects : Queued(q'[y]) \subseteq Queued(q[y])
    /\ \A y \in Objects : \A r \in Queued(q[y]) : r \notin Queued(q'[y]) =>
          y = x /\ r = p /\ q'[x].data[p].op = NoOp /\ q'[x].data[p].deps = <<>>
    /\ \A y \in Objects : \A r \in Positions :
          /\ q'[y].data[r].op = q[y].data[r].op
          /\ ~(y = x /\ r = p) => q'[y].data[r].deps = q[y].data[r].deps
    /\ q'[x].data[p].deps \in Seq(Ops)
    /\ \A d \in Ops : Lists(q'[x].data[p].deps, d) <=> d # a /\ Lists(q[x].data[p].deps, d)

\* Links of operation a whose destructor forgets x, which then has no entries
ForgetsOnly(a, x) ==
    /\ ops'[a].state = ops[a].state /\ ops'[a].dst = ops[a].dst
    /\ ops'[a].dstPos = ops[a].dstPos /\ ops'[a].srcPos = ops[a].srcPos
    /\ Len(ops'[a].src) = Len(ops[a].src) /\ Len(ops'[a].srcOp) = Len(ops[a].srcOp)
    /\ \A j \in 1..Len(ops[a].src) :
          \/ ops'[a].src[j] = ops[a].src[j]
          \/ ops'[a].src[j] = NoObject /\ ops[a].src[j] = x /\ Queued(q'[x]) = {}

\* A destructor leaves one source: the links agree, of the operation itself but for the
\* sources it has left.
LEMMA LinksLeave ==
    ASSUME Types, AllOpLinks, AllEntryLinks, inserted' = inserted,
           NEW a \in Ops, ops[a].state = "live", Deleting(a)',
           \A o : Deleting(o) => Deleting(o)',
           NEW i \in 1..Len(ops[a].src),
           \A o \in Ops : \A j \in Nat \ {0} : Passed(o, j)' => Passed(o, j) \/ (o = a /\ j = i),
           NEW x \in Objects, x = ops[a].src[i], NEW p, p = ops[a].srcPos[i],
           Leaves(a, x, p), ForgetsOnly(a, x), \A o \in Ops : o # a => SameLinks(o)
    PROVE  AllOpLinks' /\ AllEntryLinks'
<1>0. p \in Positions
  BY SourceIs
<1>1. ASSUME NEW o \in Ops PROVE OpLinks(o)'
  <2>1. o > inserted' => ops'[o].state = "new"
    BY DEF AllOpLinks, OpLinks, SameLinks, ForgetsOnly
  <2>2. ASSUME ops'[o].state = "live"
        PROVE  /\ o <= inserted'
               /\ ops'[o].dstPos # InvalidPosition =>
                     /\ ops'[o].dst \in Objects
                     /\ ops'[o].dstPos \in Queued(q'[ops'[o].dst])
                     /\ q'[ops'[o].dst].data[ops'[o].dstPos].op = o
               /\ Len(ops'[o].srcPos) = Len(ops'[o].src)
               /\ Len(ops'[o].srcOp) = Len(ops'[o].src)
    <3>1. /\ ops[o].state = "live" /\ ops'[o].dst = ops[o].dst /\ ops'[o].dstPos = ops[o].dstPos
          /\ Len(ops'[o].srcPos) = Len(ops[o].srcPos) /\ Len(ops'[o].src) = Len(ops[o].src)
          /\ Len(ops'[o].srcOp) = Len(ops[o].srcOp)
      BY <2>2 DEF SameLinks, ForgetsOnly
    <3>2. /\ o <= inserted /\ Len(ops[o].srcPos) = Len(ops[o].src)
          /\ Len(ops[o].srcOp) = Len(ops[o].src)
      BY <3>1, OpLinksAre
    <3>3. SUFFICES ASSUME ops[o].dstPos # InvalidPosition
                   PROVE  /\ ops[o].dst \in Objects
                          /\ ops[o].dstPos \in Queued(q'[ops[o].dst])
                          /\ q'[ops[o].dst].data[ops[o].dstPos].op = o
      BY <3>1, <3>2
    <3>4. PICK y, r : y = ops[o].dst /\ r = ops[o].dstPos
      OBVIOUS
    <3>5. y \in Objects /\ r \in Positions /\ r \in Queued(q[y]) /\ q[y].data[r].op = o
      BY <3>1, <3>3, <3>4, OpLinksAre
    <3>6. q'[y].data[r].op = o /\ o # NoOp
      <4>1. q'[y].data[r].op = o
        BY <3>5 DEF Leaves
      <4>2. o # NoOp
        BY DEF Ops, NoOp
      <4> QED
        BY <4>1, <4>2
    <3>7. r \in Queued(q'[y])
      BY <3>5, <3>6 DEF Leaves
    <3> QED
      BY <3>4, <3>5, <3>6, <3>7
  <2>3. ASSUME ops'[o].state = "live", NEW j \in 1..Len(ops'[o].src)
        PROVE  /\ ~Deleting(o)' =>
                     /\ ops'[o].src[j] \in Objects
                     /\ ops'[o].srcPos[j] \in Queued(q'[ops'[o].src[j]])
                     /\ Lists(q'[ops'[o].src[j]].data[ops'[o].srcPos[j]].deps, o)
                     /\ ops'[o].srcOp[j] = q'[ops'[o].src[j]].data[ops'[o].srcPos[j]].op
               /\ ops'[o].src[j] # NoObject =>
                     q'[ops'[o].src[j]].data[ops'[o].srcPos[j]].op < o
    <3>1. ops[o].state = "live" /\ j \in 1..Len(ops[o].src) /\ ops'[o].srcPos = ops[o].srcPos
      BY <2>3 DEF SameLinks, ForgetsOnly
    <3>2. PICK y, r : y = ops[o].src[j] /\ r = ops[o].srcPos[j]
      OBVIOUS
    <3>3. y \in Objects \cup {NoObject} /\ r \in Positions /\ (y # NoObject => q[y].data[r].op < o)
      BY <3>1, <3>2, SourceIs
    <3>4. ops'[o].src[j] # NoObject => ops'[o].src[j] = y /\ q'[y].data[r].op < o
      <4>1. ops'[o].src[j] # NoObject => ops'[o].src[j] = y
        BY <3>1, <3>2 DEF SameLinks, ForgetsOnly
      <4>2. y \in Objects => q'[y].data[r].op = q[y].data[r].op
        BY <3>3 DEF Leaves
      <4> QED
        BY <3>3, <4>1, <4>2
    <3>5. ASSUME ~Deleting(o)'
          PROVE  /\ ops'[o].src[j] = y /\ y \in Objects /\ r \in Queued(q'[y])
                 /\ Lists(q'[y].data[r].deps, o) /\ ops'[o].srcOp[j] = q'[y].data[r].op
      <4>1. o # a /\ ~Deleting(o)
        BY <3>5
      <4>2. /\ y \in Objects /\ r \in Queued(q[y]) /\ Lists(q[y].data[r].deps, o)
            /\ ops[o].srcOp[j] = q[y].data[r].op
        BY <3>1, <3>2, <4>1, SourceIs
      <4>3. Lists(q'[y].data[r].deps, o) /\ q'[y].data[r].op = q[y].data[r].op
        BY <3>3, <4>1, <4>2 DEF Leaves
      <4>4. ~Lists(<<>>, o)
        BY DEF Lists
      <4>5. r \in Queued(q'[y])
        BY <4>2, <4>3, <4>4 DEF Leaves
      <4>6. ops'[o].src[j] = y /\ ops'[o].srcOp[j] = ops[o].srcOp[j]
        BY <3>2, <4>1 DEF SameLinks
      <4> QED
        BY <4>2, <4>3, <4>5, <4>6
    <3> QED
      BY <3>1, <3>2, <3>4, <3>5
  <2> QED
    BY <2>1, <2>2, <2>3, OpLinksFrom
<1>2. ASSUME NEW y \in Objects, NEW r \in Positions PROVE EntryLinks(y, r)'
  <2>1. ASSUME r \notin Queued(q'[y])
        PROVE  q'[y].data[r].op = NoOp /\ q'[y].data[r].deps = <<>>
    <3>1. CASE r \in Queued(q[y])
      BY <2>1, <3>1 DEF Leaves
    <3>2. CASE r \notin Queued(q[y])
      <4>1. q[y].data[r].op = NoOp /\ q[y].data[r].deps = <<>>
        BY <3>2, EntryLinksAre
      <4>2. q'[y].data[r].op = NoOp
        BY <4>1 DEF Leaves
      <4>3. q'[y].data[r].deps = <<>>
        <5>1. CASE ~(y = x /\ r = p)
          BY <4>1, <5>1 DEF Leaves
        <5>2. CASE y = x /\ r = p
          <6>1. \A d \in Ops : ~Lists(<<>>, d)
            BY DEF Lists
          <6>2. \A d \in Ops : ~Lists(q'[y].data[r].deps, d)
            BY <4>1, <5>2, <6>1 DEF Leaves
          <6>3. q'[y].data[r].deps \in Seq(Ops)
            BY <5>2 DEF Leaves
          <6> QED
            BY <6>2, <6>3, NobodyListed
        <5> QED
          BY <5>1, <5>2
      <4> QED
        BY <4>2, <4>3
    <3> QED
      BY <3>1, <3>2
  <2>2. q'[y].data[r].op # NoOp =>
              /\ ops'[q'[y].data[r].op].state = "live"
              /\ ops'[q'[y].data[r].op].dst = y /\ ops'[q'[y].data[r].op].dstPos = r
    <3>1. q'[y].data[r].op = q[y].data[r].op
      BY DEF Leaves
    <3>2. SUFFICES ASSUME q[y].data[r].op # NoOp
                   PROVE  /\ ops'[q[y].data[r].op].state = "live"
                          /\ ops'[q[y].data[r].op].dst = y /\ ops'[q[y].data[r].op].dstPos = r
      BY <3>1
    <3>3. PICK o \in Ops : o = q[y].data[r].op
      BY <3>2, EntryLinksAre
    <3>4. ops[o].state = "live" /\ ops[o].dst = y /\ ops[o].dstPos = r
      BY <3>2, <3>3, EntryLinksAre
    <3>5. ops'[o].state = "live" /\ ops'[o].dst = y /\ ops'[o].dstPos = r
      BY <3>4 DEF SameLinks, ForgetsOnly
    <3> QED
      BY <3>3, <3>5
  <2>3. ASSUME NEW d \in Ops, Lists(q'[y].data[r].deps, d)
        PROVE  /\ ops'[d].state = "live"
               /\ \E j \in 1..Len(ops'[d].src) :
                     ops'[d].src[j] = y /\ ops'[d].srcPos[j] = r /\ ~Passed(d, j)'
    <3>1. Lists(q[y].data[r].deps, d) /\ (d = a => ~(y = x /\ r = p))
      BY <2>3 DEF Leaves
    <3>2. ops[d].state = "live"
      BY <3>1, EntryLinksAre
    <3>3. PICK j \in 1..Len(ops[d].src) : ops[d].src[j] = y /\ ops[d].srcPos[j] = r /\ ~Passed(d, j)
      BY <3>1, EntryLinksAre
    <3>4. j \in Nat \ {0}
      BY <3>2, SourceIs
    <3>5. ~Passed(d, j)'
      BY <3>1, <3>3, <3>4
    <3>6. CASE d # a
      BY <3>2, <3>3, <3>5, <3>6 DEF SameLinks
    <3>7. CASE d = a
      <4>1. r \in Queued(q'[y])
        <5>1. ~Lists(<<>>, d)
          BY DEF Lists
        <5> QED
          BY <2>1, <2>3, <5>1
      <4>2. ops'[d].src[j] = y
        BY <3>3, <3>7, <4>1 DEF ForgetsOnly
      <4> QED
        BY <3>2, <3>3, <3>5, <3>7, <4>2 DEF ForgetsOnly
    <3> QED
      BY <3>6, <3>7
  <2> QED
    BY <2>1, <2>2, <2>3, EntryLinksFrom
<1> QED
  BY <1>1, <1>2 DEF AllOpLinks, AllEntryLinks

\* A ring after an entry has been removed is a ring.
LEMMA RemoveIs ==
    ASSUME NEW r \in Ring, RingInv(r), NEW p, NEW s, s = Remove(r, p)
    PROVE  /\ s \in Ring /\ s.data = r.data
           /\ Queued(s) \subseteq Queued(r) /\ Queued(r) \ {p} \subseteq Queued(s)
           /\ s.length = 0 => Queued(s) = {}
<1>1. RingInv(s)
  BY RemoveRing
<1>2. /\ Queued(s) \subseteq Queued(r) /\ Queued(r) \ {p} \subseteq Queued(s)
      /\ s.data = r.data /\ s.length \in 0..MaxLength
  BY RemoveQueued
<1>3. s.length = 0 => Queued(s) = {}
  BY <1>1, QueuedEnds
<1>4. s = [data |-> s.data, head |-> s.head, tail |-> s.tail, length |-> s.length]
      /\ s.head \in Positions /\ s.tail \in Positions
  BY <1>1 DEF RingInv, IsRing, RingOK
<1>5. s.data \in [Positions -> Entry]
  BY <1>2 DEF Ring
<1>6. s \in Ring
  BY <1>2, <1>4, <1>5 DEF Ring
<1> QED
  BY <1>2, <1>3, <1>6

\* Ring r is the one of x without the dependent a of its entry p.
IsLeftBy(r, a, x, p, left) ==
    /\ r \in Ring /\ RingInv(r) /\ Queued(r) = Queued(q[x])
    /\ left \in Seq(Ops) /\ r.data[p].deps = left
    /\ \A d \in Ops : Lists(left, d) <=> d # a /\ Lists(q[x].data[p].deps, d)
    /\ \A t \in Positions :
          /\ r.data[t].op = q[x].data[t].op /\ r.data[t].status = q[x].data[t].status
          /\ t # p => r.data[t].deps = q[x].data[t].deps

\* The ring after an operation has left the dependents of an entry
LEMMA CleanupRing ==
    ASSUME QInv, NEW x \in Objects, NEW p \in Positions, NEW a,
           NEW left, left = Without(q[x].data[p].deps, a),
           NEW r, r = [q[x] EXCEPT !.data[p].deps = left]
    PROVE  IsLeftBy(r, a, x, p, left)
<1>1. q[x] \in Ring /\ RingInv(q[x]) /\ q[x].data \in [Positions -> Entry] /\ q[x].data[p] \in Entry
  BY RingIs DEF Ring
<1>2. q[x].data[p].deps \in Seq(Ops)
  BY <1>1 DEF Entry
<1>3. /\ left \in Seq(Ops)
      /\ \A d : Lists(left, d) <=> d # a /\ Lists(q[x].data[p].deps, d)
  <2>1. PICK ds \in Seq(Ops) : ds = q[x].data[p].deps
    BY <1>2
  <2>2. /\ Without(ds, a) \in Seq(Ops)
        /\ \A d : Lists(Without(ds, a), d) <=> d # a /\ Lists(ds, d)
    BY ONLY ds \in Seq(Ops), WithoutIs
  <2> QED
    BY <2>1, <2>2
<1>4. PICK e : e = [q[x].data[p] EXCEPT !.deps = left]
  OBVIOUS
<1>5. e \in Entry /\ e.op = q[x].data[p].op /\ e.deps = left /\ e.status = q[x].data[p].status
  BY <1>1, <1>3, <1>4 DEF Entry
<1>6. PICK d : d = [q[x].data EXCEPT ![p] = e]
  OBVIOUS
<1>7. d \in [Positions -> Entry] /\ \A t \in Positions : d[t] = IF t = p THEN e ELSE q[x].data[t]
  BY <1>1, <1>5, <1>6
<1>8. r = [q[x] EXCEPT !.data = d]
  <2>1. ASSUME NEW w PROVE [q[x] EXCEPT !.data[p].deps = w]
                = [q[x] EXCEPT !.data = [q[x].data EXCEPT ![p] = [q[x].data[p] EXCEPT !.deps = w]]]
    OBVIOUS
  <2> QED
    BY <1>4, <1>6, <2>1
<1>9. r \in Ring /\ r.data = d /\ r.head = q[x].head /\ r.tail = q[x].tail /\ r.length = q[x].length
  BY <1>1, <1>7, <1>8 DEF Ring
<1>10. RingInv(r)
  BY <1>1, DataRing
<1>11. Queued(r) = Queued(q[x])
  BY <1>9 DEF Queued
<1>12. \A t \in Positions :
                 /\ r.data[t].op = q[x].data[t].op /\ r.data[t].status = q[x].data[t].status
                 /\ t # p => r.data[t].deps = q[x].data[t].deps
  BY <1>5, <1>7, <1>9
<1>13. \A c \in Ops : Lists(left, c) <=> c # a /\ Lists(q[x].data[p].deps, c)
  BY <1>3
<1> QED
  BY <1>3, <1>5, <1>7, <1>9, <1>10, <1>11, <1>12, <1>13 DEF IsLeftBy

\* The entries have the status they had.
SameStatus ==
    \A y \in Objects : \A t \in Positions : q'[y].data[t].status = q[y].data[t].status

\* The ring of x becomes s.
Replaces(x, s) == q' = [q EXCEPT ![x] = s]

\* and what cleanup() makes of it
LEMMA CleanupLeaves ==
    ASSUME QInv, NEW x \in Objects, NEW p \in Positions, NEW a, NEW left,
           NEW r, IsLeftBy(r, a, x, p, left),
           NEW s, Replaces(x, s),
           s = r \/ (left = <<>> /\ q[x].data[p].op = NoOp /\ s = Remove(r, p))
    PROVE  /\ q' \in [Objects -> Ring] /\ q'[x] = s /\ Leaves(a, x, p) /\ SameStatus
<1>1. /\ r \in Ring /\ RingInv(r) /\ Queued(r) = Queued(q[x])
      /\ left \in Seq(Ops) /\ r.data[p].deps = left
      /\ \A d \in Ops : Lists(left, d) <=> d # a /\ Lists(q[x].data[p].deps, d)
      /\ \A t \in Positions :
            /\ r.data[t].op = q[x].data[t].op /\ r.data[t].status = q[x].data[t].status
            /\ t # p => r.data[t].deps = q[x].data[t].deps
  BY ONLY IsLeftBy(r, a, x, p, left) DEF IsLeftBy
<1>2. /\ s \in Ring /\ s.data = r.data /\ Queued(s) \subseteq Queued(r)
      /\ \A t \in Queued(r) : t \notin Queued(s) =>
            t = p /\ left = <<>> /\ q[x].data[p].op = NoOp
  <2>1. CASE s = r
    BY <1>1, <2>1
  <2>2. CASE left = <<>> /\ q[x].data[p].op = NoOp /\ s = Remove(r, p)
    <3>1. s \in Ring /\ s.data = r.data /\ Queued(s) \subseteq Queued(r)
          /\ Queued(r) \ {p} \subseteq Queued(s)
      BY ONLY <1>1, <2>2, RemoveIs
    <3> QED
      BY <2>2, <3>1
  <2> QED
    BY <2>1, <2>2
<1>3. q' \in [Objects -> Ring] /\ \A y \in Objects : q'[y] = IF y = x THEN s ELSE q[y]
  BY <1>2 DEF QInv, Types, Replaces
<1>4. Leaves(a, x, p)
  <2>1. \A y \in Objects : Queued(q'[y]) \subseteq Queued(q[y])
    BY <1>1, <1>2, <1>3
  <2>2. \A y \in Objects : \A t \in Queued(q[y]) : t \notin Queued(q'[y]) =>
          y = x /\ t = p /\ q'[x].data[p].op = NoOp /\ q'[x].data[p].deps = <<>>
    BY <1>1, <1>2, <1>3
  <2>3. \A y \in Objects : \A t \in Positions :
          /\ q'[y].data[t].op = q[y].data[t].op
          /\ ~(y = x /\ t = p) => q'[y].data[t].deps = q[y].data[t].deps
    BY <1>1, <1>2, <1>3
  <2>4. q'[x].data[p].deps = left
    BY <1>1, <1>2, <1>3
  <2>5. /\ q'[x].data[p].deps \in Seq(Ops)
        /\ \A d \in Ops : Lists(q'[x].data[p].deps, d) <=> d # a /\ Lists(q[x].data[p].deps, d)
    BY <1>1, <2>4
  <2> QED
    BY <2>1, <2>2, <2>3, <2>5 DEF Leaves
<1>5. \A y \in Objects : \A t \in Positions : q'[y].data[t].status = q[y].data[t].status
  BY <1>1, <1>2, <1>3
<1> QED
  BY <1>3, <1>4, <1>5 DEF SameStatus
----------------------------------------------------------------------------
\* A list keeps its length when an element of it is replaced.
LEMMA ReplacedIn ==
    ASSUME NEW S, NEW s \in Seq(S), NEW T, NEW w \in [DOMAIN s -> T]
    PROVE  w \in Seq(T) /\ Len(w) = Len(s)
<1>1. Len(s) \in Nat /\ DOMAIN s = 1..Len(s)
  OBVIOUS
<1>2. w \in [1..Len(s) -> T]
  BY <1>1
<1> QED
  BY <1>1, <1>2

\* What the links remember of the operations whose destructors call cleanup()
LEMMA CleanupOps ==
    ASSUME Types, NEW a \in Ops, NEW c \in Ops, c # a, NEW x \in Objects
    PROVE  /\ ops' = [ops EXCEPT ![a].srcOp = ClearedOf(@, c), ![c].evaluated = TRUE] =>
                 /\ ops' \in [Ops -> Op] /\ ForgetsOnly(a, x)
                 /\ \A o \in Ops : o # a => SameLinks(o)
                 /\ \A o \in Ops : /\ ops'[o].refCount = ops[o].refCount
                                   /\ ops'[o].deleteMe = ops[o].deleteMe
<1> SUFFICES ASSUME ops' = [ops EXCEPT ![a].srcOp = ClearedOf(@, c), ![c].evaluated = TRUE]
             PROVE  /\ ops' \in [Ops -> Op] /\ ForgetsOnly(a, x)
                    /\ \A o \in Ops : o # a => SameLinks(o)
                    /\ \A o \in Ops : /\ ops'[o].refCount = ops[o].refCount
                                      /\ ops'[o].deleteMe = ops[o].deleteMe
  OBVIOUS
<1>1. ops \in [Ops -> Op] /\ ops[a] \in Op /\ ops[c] \in Op /\ ops[a].srcOp \in Seq(Ops \cup {NoOp})
  BY DEF Types, Op
<1>2. PICK w : w = ClearedOf(ops[a].srcOp, c)
  OBVIOUS
<1>3. w \in Seq(Ops \cup {NoOp}) /\ Len(w) = Len(ops[a].srcOp)
  <2>1. w = [j \in DOMAIN ops[a].srcOp |-> IF ops[a].srcOp[j] = c THEN NoOp ELSE ops[a].srcOp[j]]
    BY <1>2 DEF ClearedOf
  <2>2. PICK s \in Seq(Ops \cup {NoOp}) : s = ops[a].srcOp
    BY <1>1
  <2>3. w \in [DOMAIN s -> Ops \cup {NoOp}]
    BY <2>1, <2>2
  <2> QED
    BY ONLY <2>2, <2>3, ReplacedIn
<1>4. PICK f, g : f = [ops[a] EXCEPT !.srcOp = w] /\ g = [ops[c] EXCEPT !.evaluated = TRUE]
  OBVIOUS
<1>5. /\ f \in Op /\ f.state = ops[a].state /\ f.dst = ops[a].dst /\ f.dstPos = ops[a].dstPos
      /\ f.src = ops[a].src /\ f.srcPos = ops[a].srcPos /\ f.srcOp = w
      /\ f.refCount = ops[a].refCount /\ f.deleteMe = ops[a].deleteMe
  BY <1>1, <1>3, <1>4 DEF Op
<1>6. /\ g \in Op /\ g.state = ops[c].state /\ g.dst = ops[c].dst /\ g.dstPos = ops[c].dstPos
      /\ g.src = ops[c].src /\ g.srcPos = ops[c].srcPos /\ g.srcOp = ops[c].srcOp
      /\ g.refCount = ops[c].refCount /\ g.deleteMe = ops[c].deleteMe
  BY <1>1, <1>4 DEF Op
<1>7. ops' = [ops EXCEPT ![a] = f, ![c] = g]
  BY <1>1, <1>2, <1>4
<1>8. /\ ops' \in [Ops -> Op]
      /\ \A o \in Ops : ops'[o] = IF o = a THEN f ELSE IF o = c THEN g ELSE ops[o]
  BY <1>1, <1>5, <1>6, <1>7
<1> QED
  BY <1>3, <1>5, <1>6, <1>8 DEF SameLinks, ForgetsOnly

\* An operation forgets an object.
LEMMA ForgetOps ==
    ASSUME Types, NEW a \in Ops, NEW x \in Objects, Queued(q'[x]) = {}, ops[a].dst # x,
           Len(ops[a].srcOp) \in Nat,
           ops' = [ops EXCEPT ![a] = WithoutObject(@, x)]
    PROVE  /\ ops' \in [Ops -> Op] /\ ForgetsOnly(a, x)
           /\ \A o \in Ops : o # a => SameLinks(o)
           /\ \A o \in Ops : /\ ops'[o].refCount = ops[o].refCount
                             /\ ops'[o].deleteMe = ops[o].deleteMe
<1>1. ops \in [Ops -> Op] /\ ops[a] \in Op /\ ops[a].src \in Seq(Objects \cup {NoObject})
  BY DEF Types, Op
<1>2. PICK w : w = [j \in DOMAIN ops[a].src |-> IF ops[a].src[j] = x THEN NoObject ELSE ops[a].src[j]]
  OBVIOUS
<1>3. w \in Seq(Objects \cup {NoObject}) /\ Len(w) = Len(ops[a].src)
  <2>1. PICK s \in Seq(Objects \cup {NoObject}) : s = ops[a].src
    BY <1>1
  <2>2. w \in [DOMAIN s -> Objects \cup {NoObject}]
    BY <1>2, <2>1
  <2> QED
    BY ONLY <2>1, <2>2, ReplacedIn
<1>4. \A j \in 1..Len(ops[a].src) : w[j] = ops[a].src[j] \/ (w[j] = NoObject /\ ops[a].src[j] = x)
  BY <1>1, <1>2
<1>5. PICK f : f = [ops[a] EXCEPT !.src = w]
  OBVIOUS
<1>6. /\ f \in Op /\ f.state = ops[a].state /\ f.dst = ops[a].dst /\ f.dstPos = ops[a].dstPos
      /\ f.src = w /\ f.srcPos = ops[a].srcPos /\ f.srcOp = ops[a].srcOp
      /\ f.refCount = ops[a].refCount /\ f.deleteMe = ops[a].deleteMe
  BY <1>1, <1>3, <1>5 DEF Op
<1>7. WithoutObject(ops[a], x) = f
  <2>1. WithoutObject(ops[a], x) = [ops[a] EXCEPT !.src = w, !.dst = ops[a].dst]
    BY <1>2 DEF WithoutObject
  <2> QED
    BY <1>1, <1>5, <2>1 DEF Op
<1>8. /\ ops' \in [Ops -> Op]
      /\ \A o \in Ops : ops'[o] = IF o = a THEN f ELSE ops[o]
  BY <1>1, <1>6, <1>7
<1> QED
  BY <1>3, <1>4, <1>6, <1>8 DEF SameLinks, ForgetsOnly

\* A destructor goes on, or nobody needs operation c any more and its destructor
\* comes first.
LEMMA DeletionGoesOn ==
    ASSUME QInv, stack # <<>>, Top.at \in Deletes, UNCHANGED <<inserted, wanted, result>>,
           q' \in [Objects -> Ring], ops' \in [Ops -> Op], \A o \in Ops : SameOp(o),
           NEW f \in Frame, f.at \in Deletes, f.op = Top.op, f.i > 0,
           \/ Continue(f)
           \/ \E c \in Ops : /\ c < f.op /\ ops[c].state = "live" /\ ops[c].refCount = 0
                             /\ ops[c].deleteMe = TRUE /\ ops[c].dstPos # InvalidPosition
                             /\ CallAndContinue(Delete(c), f)
    PROVE  /\ Types' /\ FramesOK' /\ StackOrder'
           /\ \A o : Deleting(o) => Deleting(o)'
           /\ Deleting(f.op)
           /\ \A o : \A j \in Nat \ {0} : Passed(o, j)' =>
                 Passed(o, j) \/ (o = f.op /\ (f.at = "sources" => j < f.i))
<1>1. Types /\ Depth \in Nat \ {0} /\ Top = CallAt(Depth) /\ Depth \in 1..Depth
  BY TopIsOK
<1>2. \A o \in Ops : Goes(o)
  BY DEF SameOp, Goes, Entered
<1>3. Deleting(f.op)
  BY <1>1 DEF Deleting
<1>4. /\ \/ Continues(f)
         \/ \E callee : /\ Enters(callee, f) /\ Called(callee)
                        /\ callee.at = "sources" /\ callee.op < f.op
      /\ stack' \in Seq(Frame)
  <2>1. CASE Continue(f)
    BY <1>1, <2>1, ContinueSteps DEF Continues
  <2>2. CASE \E c \in Ops : /\ c < f.op /\ ops[c].state = "live" /\ ops[c].refCount = 0
                            /\ ops[c].deleteMe = TRUE /\ ops[c].dstPos # InvalidPosition
                            /\ CallAndContinue(Delete(c), f)
    <3>1. PICK c \in Ops : /\ c < f.op /\ ops[c].state = "live" /\ ops[c].refCount = 0
                           /\ ops[c].deleteMe = TRUE /\ ops[c].dstPos # InvalidPosition
                           /\ CallAndContinue(Delete(c), f)
      BY <2>2
    <3>2. PICK g : g = Delete(c)
      OBVIOUS
    <3>3. /\ ops'[c].state = "live" /\ ops'[c].refCount = 0 /\ ops'[c].deleteMe = TRUE
          /\ ops'[c].dstPos # InvalidPosition
      BY <3>1 DEF SameOp
    <3>4. g \in Frame /\ g.at = "sources" /\ g.op = c /\ Called(g)
      BY <3>2, <3>3, DeleteCall
    <3>5. Enters(g, f)
      BY <1>1, <3>1, <3>2, <3>4, CallSteps
    <3> QED
      BY <3>1, <3>4, <3>5 DEF Enters
  <2> QED
    BY <2>1, <2>2
<1>5. Types'
  BY <1>1, <1>4 DEF Types
<1>6. /\ FramesOK' /\ StackOrder'
      /\ \A o : Deleting(o) => Deleting(o)'
      /\ \A o : \A j \in Nat \ {0} : Passed(o, j)' =>
            Passed(o, j) \/ (o = f.op /\ (f.at = "sources" => j < f.i))
  BY <1>1, <1>2, <1>4, DeleteStep
<1> QED
  BY <1>3, <1>5, <1>6

\* The destructor of Top.op has done with its source i.
LEMMA SourceLeft ==
    ASSUME QInv, At("sources"), UNCHANGED <<inserted, wanted, result>>, Inv',
           q' \in [Objects -> Ring], ops' \in [Ops -> Op],
           NEW a \in Ops, a = Top.op, NEW i \in 1..Len(ops[a].src), i = Top.i,
           NEW x \in Objects, x = ops[a].src[i], NEW p, p = ops[a].srcPos[i],
           Leaves(a, x, p), ForgetsOnly(a, x), \A o \in Ops : o # a => SameLinks(o),
           \A o \in Ops : ops'[o].refCount = ops[o].refCount /\ ops'[o].deleteMe = ops[o].deleteMe,
           \A y \in Objects : \A t \in Positions : q'[y].data[t].status = q[y].data[t].status,
           NEW f, f = [Top EXCEPT !.i = @ + 1],
           \/ Continue(f)
           \/ \E c \in Ops : /\ c < a /\ ops[c].state = "live" /\ IsDeletedBy(c)
                             /\ ops[c].dstPos # InvalidPosition
                             /\ CallAndContinue(Delete(c), f)
    PROVE  QInv'
<1>1. /\ stack # <<>> /\ Top \in Frame /\ FrameOK(Top) /\ Types /\ AllOpLinks /\ AllEntryLinks
      /\ Depth \in Nat \ {0} /\ Top = CallAt(Depth) /\ Top.at = "sources" /\ Top.at \in Deletes
      /\ ops[a].state = "live"
  BY TopIsOK DEF At, QInv, Deletes, FrameOK, Resting, Live
<1>2. f \in Frame /\ f.at = "sources" /\ f.op = a /\ f.i = i + 1 /\ i \in Nat /\ f.at \in Deletes
  <2>1. PICK t \in Frame : t = Top
    BY <1>1
  <2>2. f = [t EXCEPT !.i = @ + 1] /\ t.at = "sources" /\ t.op = a /\ t.i = i
    BY <1>1, <2>1
  <2>3. f \in Frame /\ f.at = t.at /\ f.op = t.op /\ f.i = t.i + 1 /\ t.i \in Nat
    <3>1. t.at \in Points /\ t.i \in Nat
      BY FrameIs
    <3>2. f = [t EXCEPT !.i = @ + 1]
      BY <2>2
    <3> QED
      BY ONLY t \in Frame, <3>1, <3>2, AtFrame
  <2> QED
    BY <2>2, <2>3 DEF Deletes
<1>3. \A o \in Ops : SameOp(o)
  <2> TAKE o \in Ops
  <2>1. /\ ops'[o].state = ops[o].state /\ ops'[o].dst = ops[o].dst
        /\ ops'[o].dstPos = ops[o].dstPos
    BY DEF SameLinks, ForgetsOnly
  <2>2. ASSUME ops[o].state = "live", ops[o].dstPos # InvalidPosition
        PROVE  StatusOf(o)' = StatusOf(o)
    <3>1. ops[o].dst \in Objects /\ ops[o].dstPos \in Positions
      BY <1>1, <2>2, OpLinksAre
    <3> QED
      BY <2>1, <3>1 DEF StatusOf, EntryOf
  <2> QED
    BY <2>1, <2>2 DEF SameOp
<1>4. \/ Continue(f)
      \/ \E c \in Ops : /\ c < f.op /\ ops[c].state = "live" /\ ops[c].refCount = 0
                        /\ ops[c].deleteMe = TRUE /\ ops[c].dstPos # InvalidPosition
                        /\ CallAndContinue(Delete(c), f)
  <2>1. \A c \in Ops : ops[c].deleteMe \in BOOLEAN
    BY <1>1 DEF Types, Op
  <2> QED
    BY <1>2, <2>1 DEF IsDeletedBy
<1>5. /\ Types' /\ FramesOK' /\ StackOrder'
      /\ \A o : Deleting(o) => Deleting(o)'
      /\ Deleting(f.op)
      /\ \A o : \A j \in Nat \ {0} : Passed(o, j)' =>
            Passed(o, j) \/ (o = f.op /\ (f.at = "sources" => j < f.i))
  <2>1. f.i > 0
    BY <1>2
  <2> QED
    BY <1>1, <1>2, <1>3, <1>4, <2>1, DeletionGoesOn
<1>6. ASSUME NEW o \in Ops, NEW j \in Nat \ {0}, Passed(o, j)'
      PROVE  Passed(o, j) \/ (o = a /\ j = i)
  <2>1. Passed(o, j) \/ (o = a /\ j < i + 1)
    BY <1>2, <1>5, <1>6
  <2>2. ASSUME o = a, j < i PROVE Passed(o, j)
    <3>1. Depth \in 1..Depth
      BY <1>1
    <3> QED
      BY <1>1, <2>2, <3>1 DEF Passed
  <2> QED
    BY <1>2, <2>1, <2>2
<1>7. Deleting(a)'
  BY <1>2, <1>5
<1>8. AllOpLinks' /\ AllEntryLinks'
  BY <1>1, <1>5, <1>6, <1>7, LinksLeave
<1> QED
  BY <1>5, <1>8 DEF QInv
=============================================================================
