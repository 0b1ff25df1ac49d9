------------------------- MODULE OpQueueLinksProof -------------------------
(***************************************************************************)
(* The invariant of OpQueueProof in the destructors and in what the        *)
(* application asks for, and what follows from it, whatever operations are *)
(* inserted, flushed, tossed and destroyed and whichever compute routines  *)
(* fail.  LinksCorrect: between calls operations and rings point at each   *)
(* other.  OperationsOutliveCalls: no call works on a deleted operation.   *)
(*                                                                         *)
(* ObjectsOutliveCalls: no call works on a deleted object, unless it is    *)
(* one whose storage belongs to the application.  CInv says of every call  *)
(* on the stack why its object is still there (ObjectOK): an operation     *)
(* that lives reads or writes it, a call further out inserts into it, or   *)
(* the application has not destroyed it.                                   *)
(***************************************************************************)
EXTENDS OpQueueProof

----------------------------------------------------------------------------
\* Destructors: an operation leaves a source

\* cleanup() in the destructor: the links that are left agree.
LEMMA CleanupQ ==
    ASSUME QInv, At("sources"), UNCHANGED <<inserted, wanted, result>>, Inv',
           NEW a \in Ops, a = Top.op, NEW i \in 1..Len(ops[a].src), i = Top.i,
           NEW x \in Objects, x = ops[a].src[i], NEW p, p = ops[a].srcPos[i],
           NEW f, f = [Top EXCEPT !.i = @ + 1], Cleanup(x, p, a, f)
    PROVE  QInv'
<1>1. /\ stack # <<>> /\ FrameOK(Top) /\ Types /\ AllOpLinks /\ AllEntryLinks
      /\ ops[a].state = "live" /\ ops[a].dstPos # InvalidPosition
  BY TopIsOK DEF At, QInv, Deletes, FrameOK, Resting, Live
<1>2. p \in Positions /\ q[x].data[p].op < a
  <2>1. NoObject \notin Objects
    BY QueueAssumption
  <2> QED
    BY <1>1, <2>1, SourceIs
<1>3. PICK c, left, r : /\ c = q[x].data[p].op /\ left = Without(q[x].data[p].deps, a)
                        /\ r = [q[x] EXCEPT !.data[p].deps = left]
  OBVIOUS
<1>10. IsLeftBy(r, a, x, p, left)
  BY <1>2, <1>3, CleanupRing
<1>4. /\ c \in Ops \cup {NoOp}
      /\ c # NoOp => ops[c].state = "live" /\ ops[c].dstPos # InvalidPosition /\ c < a
  <2>1. p # InvalidPosition
    BY <1>2, RingIs
  <2> QED
    BY <1>1, <1>2, <1>3, <2>1, EntryLinksAre
<1>5. \A o \in Ops : ops' = ops => /\ SameLinks(o) /\ ops'[o].refCount = ops[o].refCount
                                   /\ ops'[o].deleteMe = ops[o].deleteMe
  BY DEF SameLinks
<1>6. ops' = ops => ops' \in [Ops -> Op] /\ ForgetsOnly(a, x)
  BY <1>1 DEF Types, ForgetsOnly
<1>7. CASE /\ left = <<>> /\ c # NoOp /\ q' = [q EXCEPT ![x] = r]
           /\ ops' = [ops EXCEPT ![a].srcOp = ClearedOf(@, c), ![c].evaluated = TRUE]
           /\ IF IsDeletedBy(c) THEN CallAndContinue(Delete(c), f) ELSE Continue(f)
  <2>0. Replaces(x, r)
    BY <1>7 DEF Replaces
  <2>1. /\ q' \in [Objects -> Ring] /\ Leaves(a, x, p)
        /\ SameStatus
    BY ONLY QInv, x \in Objects, <1>2, <1>10, <2>0, CleanupLeaves
  <2>2. c \in Ops /\ c < a /\ c # a
    BY <1>4, <1>7 DEF Ops
  <2>3. /\ ops' \in [Ops -> Op] /\ ForgetsOnly(a, x) /\ \A o \in Ops : o # a => SameLinks(o)
        /\ \A o \in Ops : ops'[o].refCount = ops[o].refCount /\ ops'[o].deleteMe = ops[o].deleteMe
    BY <1>1, <1>7, <2>2, CleanupOps
  <2>4. \/ Continue(f)
        \/ \E b \in Ops : /\ b < a /\ ops[b].state = "live" /\ IsDeletedBy(b)
                          /\ ops[b].dstPos # InvalidPosition
                          /\ CallAndContinue(Delete(b), f)
    BY <1>4, <1>7, <2>2
  <2> QED
    BY <2>1, <2>3, <2>4, SourceLeft DEF SameStatus
<1>8. CASE left = <<>> /\ c = NoOp /\ RemoveEntry(x, p, r, a, ops) /\ Continue(f)
  <2>1. PICK s : s = Remove(r, p)
    OBVIOUS
  <2>0. Replaces(x, s)
    BY <1>8, <2>1 DEF RemoveEntry, Replaces
  <2>3. /\ q' \in [Objects -> Ring] /\ q'[x] = s /\ Leaves(a, x, p)
        /\ SameStatus
    <3>1. left = <<>> /\ q[x].data[p].op = NoOp
      BY <1>3, <1>8
    <3> QED
      BY ONLY QInv, x \in Objects, <1>2, <1>10, <2>0, <2>1, <3>1, CleanupLeaves
  <2>4. /\ ops' \in [Ops -> Op] /\ ForgetsOnly(a, x) /\ \A o \in Ops : o # a => SameLinks(o)
        /\ \A o \in Ops : ops'[o].refCount = ops[o].refCount /\ ops'[o].deleteMe = ops[o].deleteMe
    <3>1. CASE s.length # 0
      <4>1. ops' = ops
        BY <1>8, <2>1, <3>1 DEF RemoveEntry
      <4> QED
        BY <1>5, <1>6, <4>1
    <3>2. CASE s.length = 0
      <4>1. ops' = [ops EXCEPT ![a] = WithoutObject(@, x)]
        BY <1>8, <2>1, <3>2 DEF RemoveEntry
      <4>2. Queued(q'[x]) = {}
        <5>1. RingInv(q'[x])
          BY DEF Inv
        <5> QED
          BY <2>3, <3>2, <5>1, QueuedEnds
      <4>3. ops[a].dst # x
        <5>1. SUFFICES ASSUME ops[a].dst = x PROVE FALSE
          OBVIOUS
        <5>2. PICK t \in Positions : t = ops[a].dstPos /\ t \in Queued(q[x]) /\ q[x].data[t].op = a
          <6>1. PICK y, t : y = ops[a].dst /\ t = ops[a].dstPos
            OBVIOUS
          <6>2. t \in Positions /\ t \in Queued(q[y]) /\ q[y].data[t].op = a
            BY <1>1, <6>1, OpLinksAre
          <6> QED
            BY <5>1, <6>1, <6>2
        <5>3. q'[x].data[t].op = a /\ t = p /\ q'[x].data[p].op = NoOp
          BY <2>3, <4>2, <5>2 DEF Leaves
        <5>4. a # NoOp
          BY DEF Ops, NoOp
        <5> QED
          BY <5>3, <5>4
      <4>4. Len(ops[a].srcOp) \in Nat
        BY <1>1, OpLinksAre
      <4> QED
        BY <1>1, <4>1, <4>2, <4>3, <4>4, ForgetOps
    <3> QED
      BY <3>1, <3>2
  <2> QED
    BY <1>8, <2>3, <2>4, SourceLeft DEF SameStatus
<1>9. CASE q' = [q EXCEPT ![x] = r] /\ Continue(f) /\ UNCHANGED ops
  <2>0. Replaces(x, r)
    BY <1>9 DEF Replaces
  <2>1. /\ q' \in [Objects -> Ring] /\ Leaves(a, x, p)
        /\ SameStatus
    BY ONLY QInv, x \in Objects, <1>2, <1>10, <2>0, CleanupLeaves
  <2> QED
    BY <1>5, <1>6, <1>9, <2>1, SourceLeft DEF SameStatus
<1> QED
  BY <1>3, <1>7, <1>8, <1>9 DEF Cleanup, EntryOf

\* Nothing changes but what the destructor does next.
LEMMA DeleteSourceQ ==
    ASSUME QInv, DeleteSource
    PROVE  QInv'
<1>1. At("sources") /\ stack # <<>> /\ Top.at = "sources"
  BY DEF DeleteSource, At
<1>2. /\ Top \in Frame /\ FrameOK(Top) /\ Types /\ AllOpLinks /\ AllEntryLinks /\ Inv
      /\ Depth \in Nat \ {0} /\ Top = CallAt(Depth)
  BY <1>1, TopIsOK DEF QInv
<1>3. PICK a \in Ops, i \in Nat \ {0} : a = Top.op /\ i = Top.i
  <2>1. Top.i \in Nat
    BY <1>2, FrameIs
  <2> QED
    BY <1>1, <1>2, <2>1 DEF FrameOK, Resting, Counting
<1>4. UNCHANGED <<inserted, wanted, result>> /\ Inv' /\ ops[a].state = "live"
  BY <1>1, <1>2, <1>3, DeleteSourceInv DEF DeleteSource, history, FrameOK, Resting, Live
<1>5. Len(ops[a].src) \in Nat
  BY <1>2, <1>4, OpLinksAre
<1>6. CASE i <= Len(ops[a].src) /\ ops[a].src[i] # NoObject
  <2>1. PICK x, p, f : x = ops[a].src[i] /\ p = ops[a].srcPos[i] /\ f = [Top EXCEPT !.i = @ + 1]
    OBVIOUS
  <2>2. Cleanup(x, p, a, f)
    BY <1>3, <1>6, <2>1 DEF DeleteSource
  <2>3. i \in 1..Len(ops[a].src)
    BY <1>5, <1>6
  <2>4. x \in Objects
    BY <1>2, <1>4, <1>6, <2>1, <2>3, SourceIs
  <2> QED
    BY <1>1, <1>3, <1>4, <2>1, <2>2, <2>3, <2>4, CleanupQ
<1>7. CASE i > Len(ops[a].src) \/ ops[a].src[i] = NoObject
  <2>1. PICK f : /\ Continue(f)
                 /\ \/ i > Len(ops[a].src) /\ f = [Top EXCEPT !.at = "destination"]
                    \/ ops[a].src[i] = NoObject /\ f = [Top EXCEPT !.i = @ + 1]
    BY <1>3, <1>7 DEF DeleteSource
  <2>2. UNCHANGED <<q, ops>>
    BY <1>3, <1>5, <1>7 DEF DeleteSource
  <2>3. /\ f \in Frame /\ f.at \in Deletes /\ f.op = a /\ f.i > 0
        /\ f.at = "sources" => ops[a].src[i] = NoObject /\ f.i = i + 1
        /\ f.at # "sources" => i > Len(ops[a].src)
    <3>1. PICK l \in Points : l = "destination"
      BY DEF Points, Deletes
    <3>0. PICK t \in Frame : t = Top
      BY <1>2
    <3>2. CASE f = [Top EXCEPT !.at = "destination"] /\ i > Len(ops[a].src)
      <4>1. f = [t EXCEPT !.at = l]
        BY <3>0, <3>1, <3>2
      <4>2. f \in Frame /\ f.at = l /\ f.op = t.op /\ f.i = t.i
        BY ONLY l \in Points, t \in Frame, <4>1, AtFrame
      <4> QED
        BY <1>2, <1>3, <3>0, <3>1, <3>2, <4>2 DEF Deletes
    <3>3. CASE f = [Top EXCEPT !.i = @ + 1] /\ ops[a].src[i] = NoObject
      <4>0. f = [t EXCEPT !.i = @ + 1]
        BY <3>0, <3>3
      <4>1. f \in Frame /\ f.at = t.at /\ f.op = t.op /\ f.i = t.i + 1
        BY ONLY l \in Points, t \in Frame, <4>0, AtFrame
      <4> QED
        BY <1>1, <1>3, <3>0, <3>3, <4>1 DEF Deletes
    <3> QED
      BY <2>1, <3>2, <3>3
  <2>4. q' \in [Objects -> Ring] /\ ops' \in [Ops -> Op] /\ Top.at \in Deletes
        /\ \A o \in Ops : SameOp(o)
    BY <1>1, <1>2, <2>2, NothingChanges DEF Types, Deletes
  <2>5. /\ Types' /\ FramesOK' /\ StackOrder'
        /\ \A o : Deleting(o) => Deleting(o)'
        /\ \A o : \A j \in Nat \ {0} : Passed(o, j)' =>
              Passed(o, j) \/ (o = f.op /\ (f.at = "sources" => j < f.i))
    BY <1>1, <1>3, <1>4, <2>1, <2>3, <2>4, DeletionGoesOn
  <2>6. ASSUME NEW o \in Ops, NEW j \in Nat \ {0}, Passed(o, j)'
        PROVE  Passed(o, j) \/ j \notin 1..Len(ops[o].src) \/ ops[o].src[j] = NoObject
    <3>1. Passed(o, j) \/ (o = a /\ (f.at = "sources" => j < f.i))
      BY <2>3, <2>5, <2>6
    <3>2. ASSUME o = a, j < i PROVE Passed(o, j)
      <4>1. Depth \in 1..Depth
        BY <1>2
      <4> QED
        BY <1>1, <1>2, <1>3, <3>2, <4>1 DEF Passed, Deletes
    <3>3. CASE o = a /\ ~(j < i)
      <4>1. CASE f.at = "sources"
        <5>0. Passed(o, j) \/ j < i + 1
          BY <2>3, <3>1, <4>1
        <5>1. Passed(o, j) \/ j = i
          BY <1>3, <3>3, <5>0
        <5> QED
          BY <2>3, <3>3, <4>1, <5>1
      <4>2. CASE f.at # "sources"
        BY <1>3, <1>5, <2>3, <3>3, <4>2
      <4> QED
        BY <4>1, <4>2
    <3> QED
      BY <3>1, <3>2, <3>3
  <2>7. AllOpLinks' /\ AllEntryLinks'
    <3>1. (\A o \in Ops : SameLinks(o)) /\ (\A x \in Objects : SameEntries(x))
      BY <2>2, NothingChanges
    <3> QED
      BY <1>2, <1>4, <2>5, <2>6, <3>1, LinksKept
  <2> QED
    BY <1>4, <2>5, <2>7 DEF QInv
<1> QED
  BY <1>3, <1>5, <1>6, <1>7
----------------------------------------------------------------------------
\* Destructors: the destination

\* The entry p of x has lost its creator, and perhaps has been removed.
LosesCreator(x, p) ==
    /\ \A y \in Objects : Queued(q'[y]) \subseteq Queued(q[y])
    /\ \A y \in Objects : \A t \in Queued(q[y]) : t \notin Queued(q'[y]) =>
          y = x /\ t = p /\ q[x].data[p].deps = <<>>
    /\ \A y \in Objects : \A t \in Positions :
          /\ q'[y].data[t].op = IF y = x /\ t = p THEN NoOp ELSE q[y].data[t].op
          /\ q'[y].data[t].deps = q[y].data[t].deps

\* Operation a is gone, and the dependents of its entry have forgotten it.
Forgotten(o, a, clears) ==
    \A j \in 1..Len(ops[o].srcOp) :
       ops'[o].srcOp[j] = IF clears /\ ops[o].srcOp[j] = a THEN NoOp ELSE ops[o].srcOp[j]
SameButSrcOp(o) ==
    /\ ops'[o].state = ops[o].state /\ ops'[o].dst = ops[o].dst
    /\ ops'[o].dstPos = ops[o].dstPos
    /\ ops'[o].src = ops[o].src /\ ops'[o].srcPos = ops[o].srcPos
    /\ ops'[o].refCount = ops[o].refCount /\ ops'[o].deleteMe = ops[o].deleteMe
    /\ Len(ops'[o].srcOp) = Len(ops[o].srcOp)
IsGone(a, x, p) ==
    /\ ops'[a].state = "deleted"
    /\ \A o \in Ops : o # a => /\ SameButSrcOp(o)
                               /\ Forgotten(o, a, Lists(q[x].data[p].deps, o))

\* An operation is gone that had left all its sources: the links of the others agree.
LEMMA LinksGone ==
    ASSUME Types, AllOpLinks, AllEntryLinks, inserted' = inserted,
           NEW a \in Ops, ops[a].state = "live", ops[a].dstPos # InvalidPosition,
           \A o : o # a /\ Deleting(o) => Deleting(o)',
           \A o \in Ops : \A j \in Nat \ {0} : Passed(o, j)' => Passed(o, j),
           \A j : Passed(a, j),
           NEW x \in Objects, x = ops[a].dst, NEW p, p = ops[a].dstPos,
           LosesCreator(x, p), IsGone(a, x, p)
    PROVE  AllOpLinks' /\ AllEntryLinks'
<1>0. p \in Positions /\ a # NoOp
  <2>1. a # NoOp
    BY DEF Ops, NoOp
  <2> QED
    BY <2>1, OpLinksAre
<1>1. ASSUME NEW y \in Objects, NEW t \in Positions
      PROVE  q[y].data[t].op = a => y = x /\ t = p
  BY <1>0, EntryLinksAre
<1>2. ASSUME NEW o \in Ops PROVE OpLinks(o)'
  <2>0. o # a => SameButSrcOp(o)
    BY DEF IsGone
  <2>1. o > inserted' => ops'[o].state = "new"
    <3>1. o > inserted => ops[o].state = "new"
      BY DEF AllOpLinks, OpLinks
    <3> QED
      BY <2>0, <3>1 DEF SameButSrcOp
  <2>2. ASSUME ops'[o].state = "live" PROVE o # a /\ ops[o].state = "live"
    BY <2>0, <2>2 DEF SameButSrcOp, IsGone
  <2>3. ASSUME ops'[o].state = "live"
        PROVE  /\ o <= inserted'
               /\ ops'[o].dstPos # InvalidPosition =>
                     /\ ops'[o].dst \in Objects
                     /\ ops'[o].dstPos \in Queued(q'[ops'[o].dst])
                     /\ q'[ops'[o].dst].data[ops'[o].dstPos].op = o
               /\ Len(ops'[o].srcPos) = Len(ops'[o].src)
               /\ Len(ops'[o].srcOp) = Len(ops'[o].src)
    <3>0. o # a /\ ops[o].state = "live" /\ SameButSrcOp(o)
      BY <2>0, <2>2, <2>3
    <3>1. /\ o <= inserted /\ Len(ops[o].srcPos) = Len(ops[o].src)
          /\ Len(ops[o].srcOp) = Len(ops[o].src)
      BY <3>0, OpLinksAre
    <3>2. SUFFICES ASSUME ops[o].dstPos # InvalidPosition
                   PROVE  /\ ops[o].dst \in Objects
                          /\ ops[o].dstPos \in Queued(q'[ops[o].dst])
                          /\ q'[ops[o].dst].data[ops[o].dstPos].op = o
      BY <3>0, <3>1 DEF SameButSrcOp
    <3>3. PICK y, t : y = ops[o].dst /\ t = ops[o].dstPos
      OBVIOUS
    <3>4. y \in Objects /\ t \in Positions /\ t \in Queued(q[y]) /\ q[y].data[t].op = o
      BY <3>0, <3>2, <3>3, OpLinksAre
    <3>5. ~(y = x /\ t = p)
      <4>1. q[x].data[p].op = a
        BY OpLinksAre
      <4> QED
        BY <3>0, <3>4, <4>1
    <3> QED
      BY <3>3, <3>4, <3>5 DEF LosesCreator
  <2>4. ASSUME ops'[o].state = "live", NEW j \in 1..Len(ops'[o].src)
        PROVE  /\ ~Deleting(o)' =>
                     /\ ops'[o].src[j] \in Objects
                     /\ ops'[o].srcPos[j] \in Queued(q'[ops'[o].src[j]])
                     /\ Lists(q'[ops'[o].src[j]].data[ops'[o].srcPos[j]].deps, o)
                     /\ ops'[o].srcOp[j] = q'[ops'[o].src[j]].data[ops'[o].srcPos[j]].op
               /\ ops'[o].src[j] # NoObject =>
                     q'[ops'[o].src[j]].data[ops'[o].srcPos[j]].op < o
    <3>1. /\ o # a /\ ops[o].state = "live" /\ SameButSrcOp(o) /\ j \in 1..Len(ops[o].src)
          /\ ops'[o].src = ops[o].src /\ ops'[o].srcPos = ops[o].srcPos
          /\ Forgotten(o, a, Lists(q[x].data[p].deps, o))
      BY <2>0, <2>2, <2>4 DEF SameButSrcOp, IsGone
    <3>2. PICK y, t : y = ops[o].src[j] /\ t = ops[o].srcPos[j]
      OBVIOUS
    <3>3. y \in Objects \cup {NoObject} /\ t \in Positions /\ (y # NoObject => q[y].data[t].op < o)
      BY <3>1, <3>2, SourceIs
    <3>4. y # NoObject => q'[y].data[t].op < o
      <4>1. y \in Objects =>
               q'[y].data[t].op = IF y = x /\ t = p THEN NoOp ELSE q[y].data[t].op
        BY <3>3 DEF LosesCreator
      <4>2. NoOp < o
        BY DEF Ops, NoOp
      <4> QED
        BY <3>3, <4>1, <4>2
    <3>5. ASSUME ~Deleting(o)'
          PROVE  /\ y \in Objects /\ t \in Queued(q'[y])
                 /\ Lists(q'[y].data[t].deps, o) /\ ops'[o].srcOp[j] = q'[y].data[t].op
      <4>1. ~Deleting(o)
        BY <3>1, <3>5
      <4>2. /\ y \in Objects /\ t \in Queued(q[y]) /\ Lists(q[y].data[t].deps, o)
            /\ ops[o].srcOp[j] = q[y].data[t].op
        <5>1. ops[o].state = "live" /\ j \in 1..Len(ops[o].src)
          BY <3>1
        <5> QED
          BY ONLY Types, AllOpLinks, o \in Ops, <3>2, <4>1, <5>1, SourceIs
      <4>3. /\ q'[y].data[t].deps = q[y].data[t].deps
            /\ q'[y].data[t].op = IF y = x /\ t = p THEN NoOp ELSE q[y].data[t].op
        BY <3>3, <4>2 DEF LosesCreator
      <4>4. t \in Queued(q'[y])
        <5>1. ~Lists(<<>>, o)
          BY DEF Lists
        <5> QED
          BY <4>2, <5>1 DEF LosesCreator
      <4>5. ops'[o].srcOp[j] = IF Lists(q[x].data[p].deps, o) /\ ops[o].srcOp[j] = a THEN NoOp
                               ELSE ops[o].srcOp[j]
        <5>1. Len(ops[o].srcOp) = Len(ops[o].src)
          BY <3>1, OpLinksAre
        <5> QED
          BY <3>1, <5>1 DEF Forgotten
      <4>6. CASE y = x /\ t = p
        <5>1. q[x].data[p].op = a
          BY OpLinksAre
        <5>2. ops'[o].srcOp[j] = NoOp
          BY <4>2, <4>5, <4>6, <5>1
        <5>3. q'[y].data[t].op = NoOp
          BY <4>3, <4>6
        <5> QED
          BY <4>2, <4>3, <4>4, <5>2, <5>3
      <4>7. CASE ~(y = x /\ t = p)
        <5>1. ops[o].srcOp[j] # a
          BY <1>1, <3>3, <4>2, <4>7
        <5> QED
          BY <4>2, <4>3, <4>4, <4>5, <4>7, <5>1
      <4> QED
        BY <4>6, <4>7
    <3> QED
      BY <3>1, <3>2, <3>4, <3>5
  <2> QED
    BY <2>1, <2>3, <2>4, OpLinksFrom
<1>3. ASSUME NEW y \in Objects, NEW t \in Positions PROVE EntryLinks(y, t)'
  <2>0. /\ q'[y].data[t].deps = q[y].data[t].deps
        /\ q'[y].data[t].op = IF y = x /\ t = p THEN NoOp ELSE q[y].data[t].op
    BY DEF LosesCreator
  <2>1. ASSUME t \notin Queued(q'[y])
        PROVE  q'[y].data[t].op = NoOp /\ q'[y].data[t].deps = <<>>
    <3>1. CASE t \in Queued(q[y])
      <4>1. y = x /\ t = p /\ q[x].data[p].deps = <<>>
        BY <2>1, <3>1 DEF LosesCreator
      <4> QED
        BY <2>0, <4>1
    <3>2. CASE t \notin Queued(q[y])
      <4>1. q[y].data[t].op = NoOp /\ q[y].data[t].deps = <<>>
        BY <3>2, EntryLinksAre
      <4> QED
        BY <2>0, <4>1
    <3> QED
      BY <3>1, <3>2
  <2>2. q'[y].data[t].op # NoOp =>
              /\ ops'[q'[y].data[t].op].state = "live"
              /\ ops'[q'[y].data[t].op].dst = y /\ ops'[q'[y].data[t].op].dstPos = t
    <3>1. SUFFICES ASSUME q[y].data[t].op # NoOp, q'[y].data[t].op = q[y].data[t].op,
                          ~(y = x /\ t = p)
                   PROVE  /\ ops'[q[y].data[t].op].state = "live"
                          /\ ops'[q[y].data[t].op].dst = y /\ ops'[q[y].data[t].op].dstPos = t
      BY <2>0
    <3>2. PICK o \in Ops : o = q[y].data[t].op
      BY <3>1, EntryLinksAre
    <3>3. ops[o].state = "live" /\ ops[o].dst = y /\ ops[o].dstPos = t
      BY <3>1, <3>2, EntryLinksAre
    <3>4. SameButSrcOp(o)
      <4>1. o # a
        BY <1>1, <3>1, <3>2
      <4> QED
        BY <4>1 DEF IsGone
    <3> QED
      BY <3>2, <3>3, <3>4 DEF SameButSrcOp
  <2>3. ASSUME NEW d \in Ops, Lists(q'[y].data[t].deps, d)
        PROVE  /\ ops'[d].state = "live"
               /\ \E j \in 1..Len(ops'[d].src) :
                     ops'[d].src[j] = y /\ ops'[d].srcPos[j] = t /\ ~Passed(d, j)'
    <3>1. Lists(q[y].data[t].deps, d)
      BY <2>0, <2>3
    <3>2. ops[d].state = "live"
      BY <3>1, EntryLinksAre
    <3>3. PICK j \in 1..Len(ops[d].src) : ops[d].src[j] = y /\ ops[d].srcPos[j] = t /\ ~Passed(d, j)
      BY <3>1, EntryLinksAre
    <3>4. j \in Nat \ {0} /\ d # a
      BY <3>2, <3>3, SourceIs
    <3>5. ~Passed(d, j)' /\ SameButSrcOp(d)
      BY <3>3, <3>4 DEF IsGone
    <3> QED
      BY <3>2, <3>3, <3>5 DEF SameButSrcOp
  <2> QED
    BY <2>1, <2>2, <2>3, EntryLinksFrom
<1> QED
  BY <1>2, <1>3 DEF AllOpLinks, AllEntryLinks

\* cleanupReferences(): g is the operation f without the creator a, if it has to
\* forget it,
IsCleared(f, g, a, clears) ==
    /\ g \in Op /\ g.state = f.state /\ g.dst = f.dst /\ g.dstPos = f.dstPos
    /\ g.src = f.src /\ g.srcPos = f.srcPos
    /\ g.refCount = f.refCount /\ g.deleteMe = f.deleteMe
    /\ Len(g.srcOp) = Len(f.srcOp)
    /\ \A j \in 1..Len(f.srcOp) :
          g.srcOp[j] = IF clears /\ f.srcOp[j] = a THEN NoOp ELSE f.srcOp[j]

\* An operation forgets the creator of its sources.
LEMMA ClearedIs ==
    ASSUME NEW f \in Op, NEW a, NEW w, w = ClearedOf(f.srcOp, a)
    PROVE  IsCleared(f, [f EXCEPT !.srcOp = w], a, TRUE)
<1>1. PICK s \in Seq(Ops \cup {NoOp}) : s = f.srcOp
  BY DEF Op
<1>2. w = ClearedOf(s, a)
  BY <1>1
<1>3. w \in [DOMAIN s -> Ops \cup {NoOp}] /\ \A j \in DOMAIN s : w[j] = IF s[j] = a THEN NoOp ELSE s[j]
  BY <1>2 DEF ClearedOf
<1>4. w \in Seq(Ops \cup {NoOp}) /\ Len(w) = Len(s)
  BY ONLY <1>3, s \in Seq(Ops \cup {NoOp}), ReplacedIn
<1>5. PICK g : g = [f EXCEPT !.srcOp = w]
  OBVIOUS
<1>6. /\ g \in Op /\ g.state = f.state /\ g.dst = f.dst /\ g.dstPos = f.dstPos
      /\ g.src = f.src /\ g.srcPos = f.srcPos
      /\ g.refCount = f.refCount /\ g.deleteMe = f.deleteMe /\ g.srcOp = w
  BY <1>4, <1>5 DEF Op
<1>7. IsCleared(f, g, a, TRUE)
  BY <1>1, <1>3, <1>4, <1>6 DEF IsCleared
<1> QED
  BY <1>5, <1>7

\* or one without the object x.
LEMMA WithoutObjectIs ==
    ASSUME NEW f \in Op, NEW x, NEW g, g = WithoutObject(f, x)
    PROVE  g \in Op /\ g.state = f.state
<1>1. PICK s \in Seq(Objects \cup {NoObject}) : s = f.src
  BY DEF Op
<1>2. PICK w, d : /\ w = [i \in DOMAIN s |-> IF s[i] = x THEN NoObject ELSE s[i]]
                  /\ d = IF f.dst = x THEN NoObject ELSE f.dst
  OBVIOUS
<1>3. w \in [DOMAIN s -> Objects \cup {NoObject}]
  BY <1>2
<1>4. w \in Seq(Objects \cup {NoObject})
  BY ONLY <1>3, s \in Seq(Objects \cup {NoObject}), ReplacedIn
<1>5. d \in Objects \cup {NoObject}
  BY <1>2 DEF Op
<1>6. g = [f EXCEPT !.src = w, !.dst = d]
  BY <1>1, <1>2 DEF WithoutObject
<1> QED
  BY <1>4, <1>5, <1>6 DEF Op

\* The operations without a, of which the dependents ds have forgotten a
AllForget(cleared, a, ds) ==
    LET gone == [ops EXCEPT ![a] = [NewOp EXCEPT !.state = "deleted"]]
    IN /\ cleared = [o \in Ops |-> cleared[o]]
       /\ \A o \in Ops : cleared[o] = IF Lists(ds, o)
                                      THEN [gone[o] EXCEPT !.srcOp = ClearedOf(@, a)]
                                      ELSE gone[o]
OpsAfter(cleared, a, x) ==
    ops' = cleared \/ ops' = [cleared EXCEPT ![a] = WithoutObject(@, x)]

\* The operations after creatorCleanup()
LEMMA GoneOps ==
    ASSUME Types, NEW a \in Ops, NEW x \in Objects, NEW p \in Positions,
           NEW ds, ds = q[x].data[p].deps,
           NEW cleared, AllForget(cleared, a, ds), OpsAfter(cleared, a, x)
    PROVE  ops' \in [Ops -> Op] /\ IsGone(a, x, p)
<1>1. PICK n : n = [NewOp EXCEPT !.state = "deleted"]
  OBVIOUS
<1>2. n \in Op /\ n.state = "deleted"
  <2>1. n = [state |-> "deleted", covers |-> FALSE, flush |-> FALSE, src |-> <<>>,
             srcPos |-> <<>>, srcOp |-> <<>>, dst |-> NoObject,
             dstPos |-> InvalidPosition, refCount |-> 0, evaluated |-> FALSE,
             deleteMe |-> TRUE, reads |-> <<>>, over |-> Unknown]
    BY <1>1 DEF NewOp
  <2>2. /\ <<>> \in Seq(Objects \cup {NoObject}) /\ <<>> \in Seq(Positions)
        /\ <<>> \in Seq(Ops \cup {NoOp}) /\ <<>> \in Seq(Contents) /\ Unknown \in Contents
    BY DEF Contents
  <2> QED
    BY <2>1, <2>2 DEF Op
<1>3. PICK gone : ops \in [Ops -> Op] /\ gone = [ops EXCEPT ![a] = n]
  BY DEF Types
<1>4. \A o \in Ops : gone[o] \in Op /\ gone[o] = IF o = a THEN n ELSE ops[o]
  BY <1>2, <1>3
<1>5. ASSUME NEW o \in Ops
      PROVE  cleared[o] = IF Lists(ds, o) THEN [gone[o] EXCEPT !.srcOp = ClearedOf(@, a)]
                          ELSE gone[o]
  BY <1>1, <1>3 DEF AllForget
<1>6. ASSUME NEW o \in Ops
      PROVE  IsCleared(gone[o], cleared[o], a, Lists(ds, o))
  <2>1. PICK f \in Op : f = gone[o]
    BY <1>4
  <2>2. CASE Lists(ds, o)
    <3>1. PICK w : w = ClearedOf(f.srcOp, a)
      OBVIOUS
    <3>2. PICK g : g = [f EXCEPT !.srcOp = w]
      OBVIOUS
    <3>3. IsCleared(f, g, a, TRUE)
      BY ONLY <3>1, <3>2, f \in Op, ClearedIs
    <3>4. cleared[o] = g
      BY <1>5, <2>1, <2>2, <3>1, <3>2
    <3>5. IsCleared(f, g, a, Lists(ds, o))
      BY <2>2, <3>3 DEF IsCleared
    <3> QED
      BY <2>1, <3>4, <3>5
  <2>3. CASE ~Lists(ds, o)
    <3>1. cleared[o] = f
      BY <1>5, <2>1, <2>3
    <3>2. IsCleared(f, f, a, Lists(ds, o))
      BY <2>3 DEF IsCleared
    <3> QED
      BY <2>1, <3>1, <3>2
  <2> QED
    BY <2>2, <2>3
<1>8. PICK c : c = cleared[a] /\ c \in Op /\ c.state = "deleted"
  <2>1. IsCleared(n, cleared[a], a, Lists(ds, a))
    BY <1>4, <1>6
  <2>2. cleared[a] \in Op /\ cleared[a].state = "deleted"
    BY <1>2, <2>1 DEF IsCleared
  <2> QED
    BY <2>2
<1>9. cleared \in [Ops -> Op]
  <2>1. cleared = [o \in Ops |-> cleared[o]]
    BY DEF AllForget
  <2> QED
    BY <1>6, <2>1 DEF IsCleared
<1>10. /\ ops' \in [Ops -> Op] /\ ops'[a].state = "deleted"
       /\ \A o \in Ops : o # a => ops'[o] = cleared[o]
  <2>1. CASE ops' = cleared
    BY <1>8, <1>9, <2>1
  <2>2. CASE ops' = [cleared EXCEPT ![a] = WithoutObject(@, x)]
    <3>1. PICK g : g = WithoutObject(c, x)
      OBVIOUS
    <3>2. g \in Op /\ g.state = "deleted"
      BY ONLY <1>8, <3>1, WithoutObjectIs
    <3>3. ops' = [cleared EXCEPT ![a] = g]
      BY <1>8, <2>2, <3>1
    <3> QED
      BY <1>9, <3>2, <3>3
  <2> QED
    BY <2>1, <2>2 DEF OpsAfter
<1>11. ASSUME NEW o \in Ops, o # a
       PROVE  SameButSrcOp(o) /\ Forgotten(o, a, Lists(q[x].data[p].deps, o))
  <2>1. ops'[o] = cleared[o] /\ gone[o] = ops[o]
    BY <1>4, <1>10, <1>11
  <2>2. IsCleared(ops[o], ops'[o], a, Lists(q[x].data[p].deps, o))
    BY <1>6, <2>1
  <2> QED
    BY <2>2 DEF IsCleared, SameButSrcOp, Forgotten
<1> QED
  BY <1>10, <1>11 DEF IsGone
----------------------------------------------------------------------------
\* Ring r is the one of x without the creator of its entry p.
IsOpenedBy(r, x, p) ==
    /\ r \in Ring /\ RingInv(r) /\ Queued(r) = Queued(q[x])
    /\ \A t \in Positions :
          /\ r.data[t].op = IF t = p THEN NoOp ELSE q[x].data[t].op
          /\ r.data[t].status = q[x].data[t].status /\ r.data[t].deps = q[x].data[t].deps

\* The ring after an entry has lost its creator
LEMMA OpenedRing ==
    ASSUME QInv, NEW x \in Objects, NEW p \in Positions,
           NEW r, r = [q[x] EXCEPT !.data[p].op = NoOp]
    PROVE  IsOpenedBy(r, x, p)
<1>1. q[x] \in Ring /\ RingInv(q[x]) /\ q[x].data \in [Positions -> Entry] /\ q[x].data[p] \in Entry
  BY RingIs DEF Ring
<1>2. PICK e : e = [q[x].data[p] EXCEPT !.op = NoOp]
  OBVIOUS
<1>3. e \in Entry /\ e.op = NoOp /\ e.deps = q[x].data[p].deps /\ e.status = q[x].data[p].status
  BY <1>1, <1>2 DEF Entry
<1>4. PICK d : d = [q[x].data EXCEPT ![p] = e]
  OBVIOUS
<1>5. d \in [Positions -> Entry] /\ \A t \in Positions : d[t] = IF t = p THEN e ELSE q[x].data[t]
  BY <1>1, <1>3, <1>4
<1>6. r = [q[x] EXCEPT !.data = d]
  BY <1>2, <1>4
<1>7. r \in Ring /\ r.data = d /\ r.head = q[x].head /\ r.tail = q[x].tail /\ r.length = q[x].length
  BY <1>1, <1>5, <1>6 DEF Ring
<1>8. RingInv(r)
  BY <1>1, DataRing
<1>9. Queued(r) = Queued(q[x])
  BY <1>7 DEF Queued
<1> QED
  BY <1>3, <1>5, <1>7, <1>8, <1>9 DEF IsOpenedBy

\* The rings after an entry has lost its creator, and perhaps has been removed
LEMMA OpenedLoses ==
    ASSUME QInv, NEW x \in Objects, NEW p \in Positions, NEW r, IsOpenedBy(r, x, p),
           NEW s, Replaces(x, s),
           s = r \/ (q[x].data[p].deps = <<>> /\ s = Remove(r, p))
    PROVE  q' \in [Objects -> Ring] /\ LosesCreator(x, p) /\ SameStatus
<1>1. /\ r \in Ring /\ RingInv(r) /\ Queued(r) = Queued(q[x])
      /\ \A t \in Positions :
            /\ r.data[t].op = IF t = p THEN NoOp ELSE q[x].data[t].op
            /\ r.data[t].status = q[x].data[t].status /\ r.data[t].deps = q[x].data[t].deps
  BY ONLY IsOpenedBy(r, x, p) DEF IsOpenedBy
<1>2. /\ s \in Ring /\ s.data = r.data /\ Queued(s) \subseteq Queued(r)
      /\ \A t \in Queued(r) : t \notin Queued(s) => t = p /\ q[x].data[p].deps = <<>>
  <2>1. CASE s = r
    BY <1>1, <2>1
  <2>2. CASE q[x].data[p].deps = <<>> /\ s = Remove(r, p)
    <3>1. s \in Ring /\ s.data = r.data /\ Queued(s) \subseteq Queued(r)
          /\ Queued(r) \ {p} \subseteq Queued(s)
      BY ONLY <1>1, <2>2, RemoveIs
    <3> QED
      BY <2>2, <3>1
  <2> QED
    BY <2>1, <2>2
<1>3. q' \in [Objects -> Ring] /\ \A y \in Objects : q'[y] = IF y = x THEN s ELSE q[y]
  BY <1>2 DEF QInv, Types, Replaces
<1>4. LosesCreator(x, p)
  <2>1. \A y \in Objects : Queued(q'[y]) \subseteq Queued(q[y])
    BY <1>1, <1>2, <1>3
  <2>2. \A y \in Objects : \A t \in Queued(q[y]) : t \notin Queued(q'[y]) =>
          y = x /\ t = p /\ q[x].data[p].deps = <<>>
    BY <1>1, <1>2, <1>3
  <2>3. \A y \in Objects : \A t \in Positions :
          /\ q'[y].data[t].op = IF y = x /\ t = p THEN NoOp ELSE q[y].data[t].op
          /\ q'[y].data[t].deps = q[y].data[t].deps
    BY <1>1, <1>2, <1>3
  <2> QED
    BY <2>1, <2>2, <2>3 DEF LosesCreator
<1>5. SameStatus
  BY <1>1, <1>2, <1>3 DEF SameStatus
<1> QED
  BY <1>3, <1>4, <1>5

Opened(x, p) == [q[x] EXCEPT !.data[p].op = NoOp]

ClearsCreator(a, x, p, cleared) ==
    /\ AllForget(cleared, a, q[x].data[p].deps)
    /\ IF q[x].data[p].deps = <<>> THEN RemoveEntry(x, p, Opened(x, p), a, cleared)
       ELSE q' = [q EXCEPT ![x] = Opened(x, p)] /\ ops' = cleared

\* What creatorCleanup() does for an operation with an entry
LEMMA DestinationStep ==
    ASSUME DeleteDestination, NEW a, a = Top.op, NEW x, x = ops[a].dst, x # NoObject,
           NEW p, p = ops[a].dstPos, p # InvalidPosition, q[x].data[p].op = a
    PROVE  \E cleared : ClearsCreator(a, x, p, cleared)
<1> DEFINE b == Top.op
           y == ops[b].dst
           t == ops[b].dstPos
           e == EntryOf(y, t)
           gone == [ops EXCEPT ![b] = [NewOp EXCEPT !.state = "deleted"]]
           s == [q[y] EXCEPT !.data[t].op = IF @ = b THEN NoOp ELSE @]
           cl == [o \in Ops |->
                         IF \E i \in DOMAIN e.deps : e.deps[i] = o
                         THEN [gone[o] EXCEPT !.srcOp = ClearedOf(@, b)]
                         ELSE gone[o]]
<1>1. b = a /\ y = x /\ t = p /\ e = q[x].data[p]
  BY DEF EntryOf
<1>2. IF e.deps = <<>> /\ e.op \in {b, NoOp} THEN RemoveEntry(y, t, s, b, cl)
      ELSE q' = [q EXCEPT ![y] = s] /\ ops' = cl
  BY DEF DeleteDestination
<1>3. PICK r : r = Opened(x, p) /\ s = r
  BY <1>1 DEF Opened
<1>4. PICK cleared : cleared = cl
  OBVIOUS
<1>5. AllForget(cleared, a, q[x].data[p].deps)
  <2>1. gone = [ops EXCEPT ![a] = [NewOp EXCEPT !.state = "deleted"]]
    BY <1>1
  <2> HIDE DEF gone, e, b
  <2>2. \A o \in Ops : cl[o] = IF Lists(e.deps, o) THEN [gone[o] EXCEPT !.srcOp = ClearedOf(@, b)]
                               ELSE gone[o]
    BY DEF Lists
  <2>3. cl = [o \in Ops |-> cl[o]]
    OBVIOUS
  <2> HIDE DEF cl
  <2> QED
    BY <1>1, <1>4, <2>1, <2>2, <2>3 DEF AllForget
<1> HIDE DEF cl, s
<1>6. IF e.deps = <<>> /\ e.op \in {b, NoOp} THEN RemoveEntry(x, p, r, a, cleared)
      ELSE q' = [q EXCEPT ![x] = r] /\ ops' = cleared
  BY <1>1, <1>2, <1>3, <1>4
<1>7. ClearsCreator(a, x, p, cleared)
  BY <1>1, <1>3, <1>5, <1>6 DEF ClearsCreator
<1> QED
  BY <1>7

\* creatorCleanup(): the last step of a destructor.
LEMMA DeleteDestinationQ ==
    ASSUME QInv, DeleteDestination
    PROVE  QInv'
<1>1. At("destination") /\ stack # <<>> /\ Top.at = "destination"
  BY DEF DeleteDestination, At
<1>2. /\ Top \in Frame /\ FrameOK(Top) /\ Types /\ AllOpLinks /\ AllEntryLinks /\ Inv
      /\ FramesOK /\ StackOrder /\ Depth \in Nat \ {0} /\ Top = CallAt(Depth)
  BY <1>1, TopIsOK DEF QInv
<1>3. PICK a \in Ops : a = Top.op
  BY <1>1, <1>2 DEF FrameOK, Resting
<1>4. /\ ops[a].state = "live" /\ ops[a].refCount = 0 /\ ops[a].deleteMe = TRUE
      /\ ops[a].dstPos # InvalidPosition
  BY <1>1, <1>2, <1>3 DEF FrameOK, Resting, Deletes, Live
<1>5. PICK x, p : x = ops[a].dst /\ p = ops[a].dstPos
  OBVIOUS
<1>6. x \in Objects /\ p \in Positions /\ q[x].data[p].op = a
  BY <1>2, <1>4, <1>5, OpLinksAre
<1>7. UNCHANGED <<inserted, wanted, result>> /\ Pop /\ Inv'
  BY <1>2, DeleteDestinationInv DEF DeleteDestination, history
<1>8. PICK ds, r : ds = q[x].data[p].deps /\ r = Opened(x, p)
  OBVIOUS
<1>11. PICK cleared :
          /\ AllForget(cleared, a, ds)
          /\ IF ds = <<>> THEN RemoveEntry(x, p, r, a, cleared)
             ELSE q' = [q EXCEPT ![x] = r] /\ ops' = cleared
  <2>1. x # NoObject /\ p # InvalidPosition
    BY <1>4, <1>5, <1>6, QueueAssumption
  <2>2. DeleteDestination /\ q[x].data[p].op = a
    BY <1>6
  <2>3. PICK cleared : ClearsCreator(a, x, p, cleared)
    BY ONLY <1>3, <1>5, <2>1, <2>2, DestinationStep
  <2> QED
    BY <1>8, <2>3 DEF ClearsCreator
<1>12. IsOpenedBy(r, x, p)
  BY <1>6, <1>8, OpenedRing DEF Opened
<1>13. q' \in [Objects -> Ring] /\ LosesCreator(x, p) /\ SameStatus
  <2>1. CASE ds = <<>>
    <3>1. PICK s : s = Remove(r, p)
      OBVIOUS
    <3>2. Replaces(x, s) /\ q[x].data[p].deps = <<>>
      BY <1>8, <1>11, <2>1, <3>1 DEF RemoveEntry, Replaces
    <3> QED
      BY ONLY QInv, <1>6, <1>12, <3>1, <3>2, OpenedLoses
  <2>2. CASE ds # <<>>
    <3>1. Replaces(x, r)
      BY <1>11, <2>2 DEF Replaces
    <3> QED
      BY ONLY QInv, <1>6, <1>12, <3>1, OpenedLoses
  <2> QED
    BY <2>1, <2>2
<1>14. ops' \in [Ops -> Op] /\ IsGone(a, x, p)
  <2>1. OpsAfter(cleared, a, x)
    BY <1>11 DEF RemoveEntry, OpsAfter
  <2> QED
    BY <1>2, <1>6, <1>8, <1>11, <2>1, GoneOps
<1>15. Returns
  BY <1>1, <1>2, <1>7, PopSteps
<1>16. Types'
  BY <1>2, <1>7, <1>13, <1>14, <1>15 DEF Types, Returns
<1>17. \A o \in Ops : o # a => SameOp(o)
  <2> SUFFICES ASSUME NEW o \in Ops, o # a PROVE SameOp(o)
    OBVIOUS
  <2>1. SameButSrcOp(o)
    BY <1>14 DEF IsGone
  <2>2. ASSUME ops[o].state = "live", ops[o].dstPos # InvalidPosition
        PROVE  StatusOf(o)' = StatusOf(o)
    <3>1. ops[o].dst \in Objects /\ ops[o].dstPos \in Positions
      BY <1>2, <2>2, OpLinksAre
    <3> QED
      BY <1>13, <2>1, <3>1 DEF StatusOf, EntryOf, SameStatus, SameButSrcOp
  <2> QED
    BY <2>1, <2>2 DEF SameOp, SameButSrcOp
<1>18. \A o \in Ops : Goes(o)
  <2> TAKE o \in Ops
  <2>1. CASE o = a
    BY <1>14, <2>1 DEF IsGone, Goes, Entered
  <2>2. CASE o # a
    BY <1>17, <2>2 DEF SameOp, Goes, Entered
  <2> QED
    BY <2>1, <2>2
<1>19. LowerSuit
  <2> SUFFICES ASSUME NEW h \in 1 .. Depth - 1, NEW g, g = CallAt(h) PROVE Suits(g)
    BY DEF LowerSuit
  <2>1. FrameOK(g) /\ g.at # "flush" /\ Ordered(Top, g)
    BY <1>1, BelowIs
  <2>2. CASE g.at \in Resting
    BY <2>2 DEF Suits
  <2>3. CASE g.at \notin Resting
    <3>1. g.op \in Ops
      BY <2>1, <2>3 DEF FrameOK
    <3>2. g.op # a
      <4>1. SUFFICES ASSUME g.op = a PROVE FALSE
        OBVIOUS
      <4>2. g.at \notin Executing \cup Syncing
        BY <1>4, <2>1, <4>1 DEF FrameOK
      <4>3. g.at \notin Inserting /\ g.at # "flushed"
        BY <1>4, <2>1, <4>1 DEF FrameOK
      <4>4. g.at \notin Deletes
        <5>1. g.at \in Deletes => a < a
          BY <1>1, <1>3, <2>1, <4>1 DEF Ordered, Deletes
        <5>2. ~(a < a)
          BY DEF Ops
        <5> QED
          BY <5>1, <5>2
      <4> QED
        BY <2>1, <2>3, <4>2, <4>3, <4>4 DEF FrameOK, Points
    <3> QED
      BY <1>17, <3>1, <3>2 DEF Suits
  <2> QED
    BY <2>2, <2>3
<1>20. FramesOK' /\ StackOrder'
  BY <1>1, <1>2, <1>15, <1>18, <1>19, FramesReturn, OrderReturn
<1>21. PICK n \in Nat \ {0} : n = Depth
  BY <1>2
<1>22. Depth' = n - 1 /\ \A h \in 1 .. n - 1 : AtDepth(stack', h) = CallAt(h)
  BY <1>15, <1>21 DEF Returns
<1>23. ASSUME NEW o, o # a, Deleting(o) PROVE Deleting(o)'
  <2>1. PICK h \in 1 .. n : CallAt(h).at \in Deletes /\ CallAt(h).op = o
    BY <1>21, <1>23 DEF Deleting
  <2>2. h # n
    BY <1>2, <1>3, <1>21, <1>23, <2>1
  <2>3. h \in 1 .. n - 1 /\ AtDepth(stack', h).at \in Deletes /\ AtDepth(stack', h).op = o
    BY <1>21, <1>22, <2>1, <2>2
  <2> QED
    BY <1>22, <2>3 DEF Deleting, CallAt
<1>24. ASSUME NEW o \in Ops, NEW j \in Nat \ {0}, Passed(o, j)' PROVE Passed(o, j)
  <2>1. PICK h \in 1 .. n - 1 : /\ AtDepth(stack', h).at \in Deletes /\ AtDepth(stack', h).op = o
                                /\ AtDepth(stack', h).at = "sources" => j < AtDepth(stack', h).i
    BY <1>22, <1>24 DEF Passed, CallAt
  <2>2. h \in 1 .. n
    BY <1>21
  <2> QED
    BY <1>21, <1>22, <2>1, <2>2 DEF Passed
<1>25. \A j : Passed(a, j)
  <2>1. Depth \in 1 .. Depth /\ Top.at \in Deletes
    BY <1>1, <1>2 DEF Deletes
  <2> QED
    BY <1>1, <1>2, <1>3, <2>1 DEF Passed
<1>26. AllOpLinks' /\ AllEntryLinks'
  BY <1>2, <1>4, <1>5, <1>6, <1>7, <1>13, <1>14, <1>23, <1>24, <1>25, LinksGone
<1> QED
  BY <1>7, <1>16, <1>20, <1>26 DEF QInv
----------------------------------------------------------------------------
\* Requests of the application

\* A request of the application starts the call f, and perhaps g after it.
StartsOne(f) == stack' = <<f>> /\ f \in Frame /\ FrameOK(f)' /\ Fresh(f) /\ ~Waits(f)
StartsTwo(f, g) ==
    /\ stack' = <<f, g>> /\ f \in Frame /\ FrameOK(f)' /\ Fresh(f) /\ ~Waits(f)
    /\ f.at \notin Inserting \cup {"flushed"}
    /\ g \in Frame /\ FrameOK(g)' /\ g.at \in Resting

\* The stack after a request of the application
LEMMA FromIdle ==
    ASSUME \/ stack' = <<>>
           \/ \E f : StartsOne(f)
           \/ \E f, g : StartsTwo(f, g)
    PROVE  /\ stack' \in Seq(Frame) /\ FramesOK' /\ StackOrder'
           /\ \A o : \A i \in Nat \ {0} : ~Passed(o, i)'
<1>1. CASE stack' = <<>>
  <2>1. Depth' = 0 /\ stack' \in Seq(Frame)
    BY <1>1 DEF Depth
  <2>2. FramesOK' /\ StackOrder' /\ \A o : \A i \in Nat \ {0} : ~Passed(o, i)'
    BY <2>1 DEF FramesOK, StackOrder, Passed
  <2> QED
    BY <2>1, <2>2
<1>2. CASE \E f : StartsOne(f)
  <2>1. PICK f : StartsOne(f)
    BY <1>2
  <2>2. Depth' = 1 /\ stack' \in Seq(Frame) /\ AtDepth(stack', 1) = f
    <3>1. PICK s : s = <<f>>
      OBVIOUS
    <3>2. f \in Frame
      BY <2>1 DEF StartsOne
    <3>3. Len(s) = 1 /\ s \in Seq(Frame) /\ s[1] = f
      BY <3>1, <3>2
    <3> QED
      BY <2>1, <3>1, <3>3 DEF Depth, AtDepth, StartsOne
  <2>3. FramesOK'
    <3>1. ASSUME NEW h \in 1 .. 1, NEW g, g = AtDepth(stack', h)
          PROVE  /\ FrameOK(g)'
                 /\ g.at \in Inserting \cup {"flushed"} => h = 1
                 /\ g.at = "flush" => h = 1
                 /\ ~Waits(g)
      <4>1. h = 1 /\ g = f
        BY <2>2, <3>1
      <4> QED
        BY <2>1, <4>1 DEF StartsOne
    <3> QED
      BY <2>2, <3>1, FramesFrom
  <2>4. StackOrder'
    <3>1. \A h \in 1 .. 1 : \A k \in 1 .. h - 1 : FALSE
      OBVIOUS
    <3> QED
      BY <2>2, <3>1, OrderFrom
  <2>5. ASSUME NEW o, NEW i \in Nat \ {0}, Passed(o, i)' PROVE FALSE
    <3>1. PICK h \in 1 .. 1 : /\ AtDepth(stack', h).at \in Deletes
                              /\ AtDepth(stack', h).at = "sources" => i < AtDepth(stack', h).i
      BY <2>2, <2>5 DEF Passed, CallAt
    <3>2. f.at \in Deletes /\ (f.at = "sources" => i < f.i)
      <4>1. h = 1
        OBVIOUS
      <4> QED
        BY <2>2, <3>1, <4>1
    <3> QED
      BY <2>1, <3>2 DEF StartsOne, Fresh
  <2> QED
    BY <2>2, <2>3, <2>4, <2>5
<1>3. CASE \E f, g : StartsTwo(f, g)
  <2>1. PICK f, g : StartsTwo(f, g)
    BY <1>3
  <2>2. /\ Depth' = 2 /\ stack' \in Seq(Frame)
        /\ AtDepth(stack', 1) = g /\ AtDepth(stack', 2) = f
    <3>1. PICK s : s = <<f, g>>
      OBVIOUS
    <3>2. f \in Frame /\ g \in Frame
      BY <2>1 DEF StartsTwo
    <3>3. Len(s) = 2 /\ s \in Seq(Frame) /\ s[1] = f /\ s[2] = g
      BY <3>1, <3>2
    <3>4. 2 + 1 - 1 = 2 /\ 2 + 1 - 2 = 1
      OBVIOUS
    <3> QED
      BY <2>1, <3>1, <3>3, <3>4 DEF Depth, AtDepth, StartsTwo
  <2>3. /\ ~Waits(g) /\ g.at # "flush" /\ g.at \notin Inserting \cup Deletes \cup {"flushed"}
        /\ g.at \notin Executing \cup Syncing
    BY <2>1 DEF StartsTwo, Waits, Resting, Inserting, Deletes, Executing, Syncing
  <2>4. FramesOK'
    <3>1. ASSUME NEW h \in 1 .. 2, NEW e, e = AtDepth(stack', h)
          PROVE  /\ FrameOK(e)'
                 /\ e.at \in Inserting \cup {"flushed"} => h = 1
                 /\ e.at = "flush" => h = 2
                 /\ ~Waits(e)
      <4>1. (h = 1 /\ e = g) \/ (h = 2 /\ e = f)
        BY <2>2, <3>1
      <4> QED
        BY <2>1, <2>3, <4>1 DEF StartsTwo
    <3> QED
      BY <2>2, <3>1, FramesFrom
  <2>5. StackOrder'
    <3>1. ASSUME NEW h \in 1 .. 2, NEW k \in 1 .. h - 1
          PROVE  Ordered(AtDepth(stack', h), AtDepth(stack', k))
      <4>1. h = 2 /\ k = 1
        OBVIOUS
      <4> QED
        BY <2>2, <2>3, <4>1 DEF Ordered
    <3> QED
      BY <2>2, <3>1, OrderFrom
  <2>6. ASSUME NEW o, NEW i \in Nat \ {0}, Passed(o, i)' PROVE FALSE
    <3>1. PICK h \in 1 .. 2 : /\ AtDepth(stack', h).at \in Deletes
                              /\ AtDepth(stack', h).at = "sources" => i < AtDepth(stack', h).i
      BY <2>2, <2>6 DEF Passed, CallAt
    <3>2. f.at \in Deletes /\ (f.at = "sources" => i < f.i)
      <4>1. h = 1 \/ h = 2
        OBVIOUS
      <4> QED
        BY <2>2, <2>3, <3>1, <4>1
    <3> QED
      BY <2>1, <3>2 DEF StartsTwo, Fresh
  <2> QED
    BY <2>2, <2>4, <2>5, <2>6
<1> QED
  BY <1>1, <1>2, <1>3

\* Between the calls of the application nothing is being deleted.
LEMMA IdleIs ==
    ASSUME QInv, stack = <<>>
    PROVE  /\ \A o : ~Deleting(o)
           /\ \A o, i : ~Passed(o, i)
<1>1. Depth = 0 /\ StackOrder
  BY DEF Depth, QInv
<1> QED
  BY <1>1, NoneDeleting

\* A request that leaves the links alone
LEMMA IdleStep ==
    ASSUME QInv, stack = <<>>, inserted' = inserted, wanted' \in [Objects -> Contents],
           result' \in {"success", "failure"}, Inv',
           q' \in [Objects -> Ring], ops' \in [Ops -> Op],
           \A o \in Ops : SameLinks(o), \A x \in Objects : SameEntries(x),
           \/ stack' = <<>>
           \/ \E f : StartsOne(f)
           \/ \E f, g : StartsTwo(f, g)
    PROVE  QInv'
<1>1. /\ stack' \in Seq(Frame) /\ FramesOK' /\ StackOrder'
      /\ \A o : \A i \in Nat \ {0} : ~Passed(o, i)'
  BY FromIdle
<1>2. \A o : ~Deleting(o)
  BY IdleIs
<1>3. Types'
  BY <1>1 DEF QInv, Types
<1>4. AllOpLinks' /\ AllEntryLinks'
  BY <1>1, <1>2, LinksKept DEF QInv
<1> QED
  BY <1>1, <1>3, <1>4 DEF QInv
----------------------------------------------------------------------------
\* A call about an object only
LEMMA ObjectCall ==
    ASSUME NEW l \in Resting, NEW x \in Objects, NEW p \in Positions \cup {InvalidPosition},
           l \in OnEntry => p \in Positions, NEW f, f = CallOf(l, NoOp, x, p)
    PROVE  f \in Frame /\ FrameOK(f)' /\ Fresh(f) /\ ~Waits(f) /\ f.at \in Resting
<1>1. l \in Points
  BY DEF Points
<1>2. f \in Frame /\ f.at = l /\ f.op = NoOp /\ f.obj = x /\ f.pos = p /\ f.i = 1
  BY <1>1, CallFrame
<1> QED
  BY <1>1, <1>2 DEF FrameOK, Fresh, Waits, Resting, OnObject, Executing, Syncing, Deletes, Inserting

\* Sync keeps the invariant.
LEMMA SyncQ ==
    ASSUME QInv, NEW x \in Objects, Sync(x)
    PROVE  QInv'
<1>1. /\ stack = <<>> /\ UNCHANGED <<q, ops, inserted, wanted>> /\ result' = "success"
      /\ Types /\ Inv
  BY DEF Sync, history, QInv
<1>2. PICK f : f = CallOf("synced", NoOp, x, InvalidPosition)
  OBVIOUS
<1>3. f \in Frame /\ FrameOK(f)' /\ Fresh(f) /\ ~Waits(f) /\ f.at \in Resting
  BY <1>2, ObjectCall DEF Resting, OnEntry
<1>4. \/ \E e : StartsOne(e)
      \/ \E e, g : StartsTwo(e, g)
  <2>1. CASE Creator(x) = NoOp
    <3>1. stack' = <<f>>
      BY <1>2, <2>1 DEF Sync
    <3> QED
      BY <1>3, <3>1 DEF StartsOne
  <2>2. CASE Creator(x) # NoOp
    <3>1. PICK c, e : c = Creator(x) /\ e = Flush(c)
      OBVIOUS
    <3>2. stack' = <<e, f>>
      BY <1>2, <2>2, <3>1 DEF Sync
    <3>3. c \in Ops /\ ops[c].state = "live" /\ ops'[c].state = "live"
      BY <1>1, <2>2, <3>1, CreatorIs DEF Live
    <3>4. e \in Frame /\ e.at = "flush" /\ e.op = c /\ e.i = 1
      <4>1. "flush" \in Points
        BY DEF Points
      <4> QED
        BY <3>1, <3>3, <4>1, CallFrame DEF Flush
    <3>5. FrameOK(e)' /\ Fresh(e) /\ ~Waits(e) /\ e.at \notin Inserting \cup {"flushed"}
      BY <3>3, <3>4 DEF FrameOK, Live, Fresh, Waits, Points, Resting, OnObject, OnEntry, Executing,
           Syncing, Deletes, Inserting
    <3> QED
      BY <1>3, <3>2, <3>4, <3>5 DEF StartsTwo
  <2> QED
    BY <2>1, <2>2
<1>5. (\A o \in Ops : SameLinks(o)) /\ (\A y \in Objects : SameEntries(y)) /\ Inv'
  BY <1>1, NothingChanges, InvUnchanged
<1>6. q' \in [Objects -> Ring] /\ ops' \in [Ops -> Op] /\ wanted' \in [Objects -> Contents]
  BY <1>1 DEF Types
<1> QED
  BY <1>1, <1>4, <1>5, <1>6, IdleStep

\* An operation is marked as evaluated, and perhaps will be deleted.
LEMMA IdleMarks ==
    ASSUME QInv, UNCHANGED q, NEW c \in Ops, Live(c), ops[c].dstPos # InvalidPosition,
           ops' = [ops EXCEPT ![c].evaluated = TRUE], NEW f, f = Delete(c)
    PROVE  /\ q' \in [Objects -> Ring] /\ ops' \in [Ops -> Op]
           /\ \A o \in Ops : SameLinks(o)
           /\ \A x \in Objects : SameEntries(x)
           /\ f \in Frame /\ f.at = "sources" /\ Fresh(f)
           /\ IsDeletedBy(c) => FrameOK(f)'
<1>1. Types
  BY DEF QInv
<1>2. ops' \in [Ops -> Op]
  BY <1>1, OpUpdates
<1>3. \A o \in Ops : SameLinks(o) /\ ops'[o].refCount = ops[o].refCount
                     /\ ops'[o].deleteMe = ops[o].deleteMe
  BY <1>1 DEF Types, Op, SameLinks
<1>4. q' \in [Objects -> Ring] /\ \A x \in Objects : SameEntries(x)
  BY <1>1 DEF SameEntries, Types
<1>5. f \in Frame /\ f.at = "sources" /\ Fresh(f)
  BY DeleteCall
<1>6. ASSUME IsDeletedBy(c) PROVE FrameOK(f)'
  <2>1. ops[c].deleteMe \in BOOLEAN
    BY <1>1 DEF Types, Op
  <2>2. /\ ops'[c].state = "live" /\ ops'[c].refCount = 0 /\ ops'[c].deleteMe = TRUE
        /\ ops'[c].dstPos # InvalidPosition
    BY <1>3, <1>6, <2>1 DEF SameLinks, Live, IsDeletedBy
  <2> QED
    BY <2>2, DeleteCall DEF Called
<1> QED
  BY <1>2, <1>3, <1>4, <1>5, <1>6

\* The tail of a queue that nobody reads and nobody writes is taken away.
LEMMA BlankRemoved ==
    ASSUME QInv, NEW x \in Objects, Creator(x) = NoOp, CanToss(x),
           q' = [q EXCEPT ![x] = Remove(q[x], q[x].tail)]
    PROVE  q' \in [Objects -> Ring] /\ \A y \in Objects : SameEntries(y)
<1>1. PICK s : s = Remove(q[x], q[x].tail)
  OBVIOUS
<1>2. PICK p : p = q[x].tail
  OBVIOUS
<1>3. q[x] \in Ring /\ RingInv(q[x]) /\ q \in [Objects -> Ring]
  BY RingIs DEF QInv, Types
<1>4. /\ s \in Ring /\ s.data = q[x].data
      /\ Queued(s) \subseteq Queued(q[x]) /\ Queued(q[x]) \ {p} \subseteq Queued(s)
  BY <1>1, <1>2, <1>3, RemoveIs
<1>5. q[x].data[p].op = NoOp /\ q[x].data[p].deps = <<>>
  BY <1>2 DEF Creator, CanToss, EntryOf
<1>6. q' \in [Objects -> Ring] /\ \A y \in Objects : q'[y] = IF y = x THEN s ELSE q[y]
  BY <1>1, <1>3, <1>4
<1>7. ASSUME NEW y \in Objects PROVE SameEntries(y)
  <2>1. CASE y = x
    BY <1>4, <1>5, <1>6, <2>1 DEF SameEntries
  <2>2. CASE y # x
    BY <1>6, <2>2 DEF SameEntries
  <2> QED
    BY <2>1, <2>2
<1> QED
  BY <1>6, <1>7

\* An entry is marked as tossed.
LEMMA MarkedTossed ==
    ASSUME QInv, NEW x \in Objects,
           q' = [q EXCEPT ![x].data[q[x].tail].tossed = TRUE]
    PROVE  q' \in [Objects -> Ring] /\ \A y \in Objects : SameEntries(y)
<1>1. PICK p : p = q[x].tail
  OBVIOUS
<1>2. q \in [Objects -> Ring] /\ q[x] \in Ring /\ p \in Positions
  BY <1>1, RingIs DEF QInv, Types
<1>3. PICK e : e = [q[x].data[p] EXCEPT !.tossed = TRUE]
  OBVIOUS
<1>4. e \in Entry /\ e.op = q[x].data[p].op /\ e.deps = q[x].data[p].deps
  <2>1. q[x].data[p] \in Entry
    BY <1>2 DEF Ring
  <2> QED
    BY <1>3, <2>1 DEF Entry
<1>5. PICK d : d = [q[x].data EXCEPT ![p] = e]
  OBVIOUS
<1>6. d \in [Positions -> Entry] /\ \A t \in Positions : d[t] = IF t = p THEN e ELSE q[x].data[t]
  BY <1>2, <1>4, <1>5 DEF Ring
<1>7. PICK s : s = [q[x] EXCEPT !.data = d]
  OBVIOUS
<1>8. s \in Ring /\ s.data = d /\ s.head = q[x].head /\ s.length = q[x].length
  BY <1>2, <1>6, <1>7 DEF Ring
<1>9. q' \in [Objects -> Ring] /\ \A y \in Objects : q'[y] = IF y = x THEN s ELSE q[y]
  <2>1. s = [q[x] EXCEPT !.data[p].tossed = TRUE]
    BY <1>3, <1>5, <1>7
  <2>2. q' = [q EXCEPT ![x] = s]
    BY <1>1, <2>1
  <2> QED
    BY <1>2, <1>8, <2>2
<1>10. Queued(s) = Queued(q[x])
  BY <1>8 DEF Queued
<1>11. ASSUME NEW y \in Objects PROVE SameEntries(y)
  <2>1. CASE y = x
    BY <1>4, <1>6, <1>8, <1>9, <1>10, <2>1 DEF SameEntries
  <2>2. CASE y # x
    BY <1>9, <2>2 DEF SameEntries
  <2> QED
    BY <2>1, <2>2
<1> QED
  BY <1>9, <1>11

\* TossContents keeps the invariant.
LEMMA TossContentsQ ==
    ASSUME QInv, NEW x \in Objects, TossContents(x)
    PROVE  QInv'
<1>1. Types /\ Inv /\ Inv'
  BY TossContentsInv DEF QInv
<1>2. /\ stack = <<>> /\ inserted' = inserted /\ result' = result
      /\ wanted' = [wanted EXCEPT ![x] = Unknown]
      /\ \/ CanToss(x) /\ Toss(x, <<>>)
         \/ /\ q' = [q EXCEPT ![x].data[q[x].tail].tossed = TRUE]
            /\ UNCHANGED <<ops, stack>>
  BY DEF TossContents
<1>3. wanted' \in [Objects -> Contents] /\ result' \in {"success", "failure"}
  BY <1>1, <1>2 DEF Types, Contents
<1>4. CASE CanToss(x) /\ Toss(x, <<>>) /\ Creator(x) = NoOp
  <2>1. q' = [q EXCEPT ![x] = Remove(q[x], q[x].tail)] /\ stack' = <<>> /\ ops' = ops
    BY <1>4 DEF Toss
  <2>2. q' \in [Objects -> Ring] /\ (\A y \in Objects : SameEntries(y))
    BY <1>4, <2>1, BlankRemoved
  <2>3. ops' \in [Ops -> Op] /\ \A o \in Ops : SameLinks(o)
    BY <1>1, <2>1 DEF Types, SameLinks
  <2> QED
    BY <1>1, <1>2, <1>3, <2>1, <2>2, <2>3, IdleStep
<1>5. CASE CanToss(x) /\ Toss(x, <<>>) /\ Creator(x) # NoOp
  <2>1. PICK c \in Ops : c = Creator(x)
    BY <1>5, CreatorIs
  <2>2. Live(c) /\ ops[c].dstPos # InvalidPosition
    BY <1>5, <2>1, CreatorIs
  <2>3. PICK f : f = Delete(c)
    OBVIOUS
  <2>4. /\ ops' = [ops EXCEPT ![c].evaluated = TRUE] /\ UNCHANGED q
        /\ stack' = IF IsDeletedBy(c) THEN <<f>> \o <<>> ELSE <<>>
    BY <1>5, <2>1, <2>3 DEF Toss
  <2>5. /\ q' \in [Objects -> Ring] /\ ops' \in [Ops -> Op]
        /\ \A o \in Ops : SameLinks(o)
        /\ \A y \in Objects : SameEntries(y)
        /\ f \in Frame /\ f.at = "sources" /\ Fresh(f)
        /\ IsDeletedBy(c) => FrameOK(f)'
    BY <2>2, <2>3, <2>4, IdleMarks
  <2>6. stack' = <<>> \/ \E g : StartsOne(g)
    <3>1. CASE IsDeletedBy(c)
      <4>1. <<f>> \o <<>> = <<f>>
        BY <2>5, SMTT(30)
      <4> QED
        BY <2>4, <2>5, <3>1, <4>1 DEF StartsOne, Waits
    <3>2. CASE ~IsDeletedBy(c)
      BY <2>4, <3>2
    <3> QED
      BY <3>1, <3>2
  <2> QED
    BY <1>1, <1>2, <1>3, <2>5, <2>6, IdleStep
<1>6. CASE /\ q' = [q EXCEPT ![x].data[q[x].tail].tossed = TRUE]
           /\ UNCHANGED <<ops, stack>>
  <2>1. q' \in [Objects -> Ring] /\ (\A y \in Objects : SameEntries(y))
    BY <1>6, MarkedTossed
  <2>2. ops' \in [Ops -> Op] /\ stack' = <<>> /\ \A o \in Ops : SameLinks(o)
    BY <1>1, <1>2, <1>6 DEF Types, SameLinks
  <2> QED
    BY <1>1, <1>2, <1>3, <2>1, <2>2, IdleStep
<1> QED
  BY <1>2, <1>4, <1>5, <1>6

\* A call a request may start, with perhaps another one after it
Starts(f) == f \in Frame /\ FrameOK(f)' /\ Fresh(f) /\ ~Waits(f) /\ f.at \in Resting

\* A call about an object may start.
LEMMA RestingStarts ==
    ASSUME NEW f \in Frame, f.at \in Resting, f.op = NoOp, f.obj \in Objects,
           f.at \in OnEntry => f.pos \in Positions, f.at \in Counting => f.i > 0
    PROVE  Starts(f)
BY DEF Starts, FrameOK, Fresh, Waits, Resting, OnObject, Executing, Syncing, Deletes,
       Inserting, Points

\* The end of preDestroy()
LEMMA DestroyedCall ==
    ASSUME NEW x \in Objects, NEW f, f = CallOf("destroyed", NoOp, x, InvalidPosition),
           NEW g, g = [f EXCEPT !.at = "delete"]
    PROVE  Starts(f) /\ Starts(g)
<1>1. "destroyed" \in Points /\ "delete" \in Points
  BY DEF Points, Resting
<1>2. f \in Frame /\ f.at = "destroyed" /\ f.op = NoOp /\ f.obj = x
  BY <1>1, CallFrame
<1>3. g \in Frame /\ g.at = "delete" /\ g.op = NoOp /\ g.obj = x
  BY <1>1, <1>2, AtFrame
<1> QED
  BY <1>2, <1>3, RestingStarts DEF Resting, OnEntry, Counting

\* allSync()
LEMMA AllSyncCall ==
    ASSUME QInv, NEW x \in Objects, NEW f, f = AllSync(x)
    PROVE  Starts(f)
<1>1. PICK g : g = CallOf("allDependents", NoOp, x, q[x].head)
  OBVIOUS
<1>2. q[x].head \in Positions /\ q[x].length \in Nat /\ MaxLength \in Nat
  BY RingIs, QueueAssumption
<1>3. "allDependents" \in Points
  BY DEF Points, Resting
<1>4. g \in Frame /\ g.at = "allDependents" /\ g.op = NoOp /\ g.obj = x /\ g.pos = q[x].head
  BY <1>1, <1>2, <1>3, CallFrame
<1>5. f = [g EXCEPT !.i = q[x].length]
  BY <1>1 DEF AllSync
<1>6. f \in Frame /\ f.at = "allDependents" /\ f.op = NoOp /\ f.obj = x /\ f.pos = q[x].head
  BY <1>2, <1>4, <1>5 DEF Frame
<1> QED
  BY <1>2, <1>6, RestingStarts DEF Resting, OnEntry, Counting

\* Destroy keeps the invariant.
LEMMA DestroyQ ==
    ASSUME QInv, NEW x \in Objects, Destroy(x)
    PROVE  QInv'
<1>1. Types /\ Inv
  BY DEF QInv
<1>2. PICK f, g : /\ f = CallOf("destroyed", NoOp, x, InvalidPosition)
                  /\ g = [f EXCEPT !.at = "delete"]
  OBVIOUS
<1>3. Starts(f) /\ Starts(g)
  BY <1>2, DestroyedCall
<1>4. /\ stack = <<>> /\ UNCHANGED <<q, inserted, result, wanted>>
      /\ \/ stack' = <<AllSync(x), g>> /\ UNCHANGED ops
         \/ stack' = <<g>> /\ UNCHANGED ops
         \/ /\ CanToss(x)
            /\ stack' = IF Creator(x) # NoOp /\ IsDeletedBy(Creator(x))
                        THEN <<Delete(Creator(x)), f>> ELSE <<f>>
            /\ ops' = [o \in Ops |-> IF o = Creator(x)
                                     THEN [ops[o] EXCEPT !.evaluated = TRUE]
                                     ELSE ops[o]]
         \/ UNCHANGED <<ops, stack>>
  BY <1>2 DEF Destroy, history
<1>5. Inv' /\ wanted' \in [Objects -> Contents] /\ result' \in {"success", "failure"}
  BY <1>1, <1>4, InvUnchanged DEF Types
<1>6. ASSUME UNCHANGED ops
      PROVE  /\ q' \in [Objects -> Ring] /\ ops' \in [Ops -> Op]
             /\ (\A o \in Ops : SameLinks(o)) /\ (\A y \in Objects : SameEntries(y))
  BY <1>1, <1>4, <1>6, NothingChanges DEF Types
<1>7. CASE stack' = <<AllSync(x), g>> /\ UNCHANGED ops
  <2>1. PICK e : e = AllSync(x)
    OBVIOUS
  <2>2. Starts(e)
    BY <2>1, AllSyncCall
  <2>3. StartsTwo(e, g)
    BY <1>3, <1>7, <2>1, <2>2 DEF Starts, StartsTwo, Resting, Inserting
  <2> QED
    BY <1>4, <1>5, <1>6, <1>7, <2>3, IdleStep
<1>8. CASE stack' = <<g>> /\ UNCHANGED ops
  <2>1. StartsOne(g)
    BY <1>3, <1>8 DEF Starts, StartsOne
  <2> QED
    BY <1>4, <1>5, <1>6, <1>8, <2>1, IdleStep
<1>9. CASE UNCHANGED <<ops, stack>>
  BY <1>4, <1>5, <1>6, <1>9, IdleStep
<1>10. CASE /\ CanToss(x) /\ Creator(x) = NoOp
            /\ stack' = <<f>>
            /\ ops' = [o \in Ops |-> IF o = Creator(x)
                                     THEN [ops[o] EXCEPT !.evaluated = TRUE]
                                     ELSE ops[o]]
  <2>1. UNCHANGED ops
    <3>1. \A o \in Ops : o # Creator(x)
      BY <1>10 DEF Ops, NoOp
    <3> QED
      BY <1>1, <1>10, <3>1 DEF Types
  <2>2. StartsOne(f)
    BY <1>3, <1>10 DEF Starts, StartsOne
  <2> QED
    BY <1>4, <1>5, <1>6, <2>1, <2>2, IdleStep
<1>11. CASE /\ CanToss(x) /\ Creator(x) # NoOp
            /\ stack' = IF IsDeletedBy(Creator(x)) THEN <<Delete(Creator(x)), f>> ELSE <<f>>
            /\ ops' = [o \in Ops |-> IF o = Creator(x)
                                     THEN [ops[o] EXCEPT !.evaluated = TRUE]
                                     ELSE ops[o]]
  <2>1. PICK c \in Ops : c = Creator(x)
    BY <1>11, CreatorIs
  <2>2. Live(c) /\ ops[c].dstPos # InvalidPosition
    BY <1>11, <2>1, CreatorIs
  <2>3. PICK d : d = Delete(c)
    OBVIOUS
  <2>4. ops' = [ops EXCEPT ![c].evaluated = TRUE]
    BY <1>1, <1>11, <2>1 DEF Types
  <2>5. /\ q' \in [Objects -> Ring] /\ ops' \in [Ops -> Op]
        /\ \A o \in Ops : SameLinks(o)
        /\ \A y \in Objects : SameEntries(y)
        /\ d \in Frame /\ d.at = "sources" /\ Fresh(d)
        /\ IsDeletedBy(c) => FrameOK(d)'
    BY <1>4, <2>2, <2>3, <2>4, IdleMarks
  <2>6. (\E e : StartsOne(e)) \/ \E e, h : StartsTwo(e, h)
    <3>1. CASE IsDeletedBy(c)
      <4>1. stack' = <<d, f>>
        BY <1>11, <2>1, <2>3, <3>1
      <4>2. StartsTwo(d, f)
        BY <1>3, <2>5, <3>1, <4>1 DEF Starts, StartsTwo, Waits, Inserting
      <4> QED
        BY <4>2
    <3>2. CASE ~IsDeletedBy(c)
      <4>1. stack' = <<f>>
        BY <1>11, <2>1, <3>2
      <4> QED
        BY <1>3, <4>1 DEF Starts, StartsOne
    <3> QED
      BY <3>1, <3>2
  <2> QED
    BY <1>4, <1>5, <2>5, <2>6, IdleStep
<1> QED
  BY <1>4, <1>7, <1>8, <1>9, <1>10, <1>11
----------------------------------------------------------------------------
\* An operation is inserted

\* addDependent(): the last entry, perhaps a new one, gets another dependent.
GetsDependent(r, s, o) ==
    /\ s \in Ring /\ s.tail \in Positions /\ Queued(s) = Queued(r) \cup {s.tail}
    /\ \A p \in Positions : /\ s.data[p].op = r.data[p].op
                            /\ p # s.tail => s.data[p].deps = r.data[p].deps
    /\ \A d : Lists(s.data[s.tail].deps, d) <=> d = o \/ Lists(r.data[s.tail].deps, d)

\* A list with one operation appended several times
LEMMA Appended ==
    ASSUME NEW s \in Seq(Ops), NEW o \in Ops, NEW n \in Nat \ {0},
           NEW u \in [1..n -> {o}], NEW t, t = s \o u
    PROVE  t \in Seq(Ops) /\ \A d : Lists(t, d) <=> d = o \/ Lists(s, d)
<1>1. u \in Seq(Ops) /\ Len(u) = n /\ \A k \in 1..n : u[k] = o
  <2>1. u \in [1..n -> Ops]
    OBVIOUS
  <2> QED
    BY <2>1, SeqDef, LenProperties
<1>2. /\ t \in Seq(Ops) /\ Len(t) = Len(s) + n /\ Len(s) \in Nat
      /\ \A k \in 1..Len(t) : t[k] = IF k <= Len(s) THEN s[k] ELSE u[k - Len(s)]
  BY <1>1, ConcatProperties, LenProperties
<1>3. DOMAIN s = 1..Len(s) /\ DOMAIN t = 1..Len(t)
  BY <1>2, LenProperties
<1>4. ASSUME NEW d, Lists(t, d) PROVE d = o \/ Lists(s, d)
  <2>1. PICK k \in 1..Len(t) : t[k] = d
    BY <1>3, <1>4 DEF Lists
  <2>2. CASE k <= Len(s)
    <3>1. k \in DOMAIN s /\ s[k] = d
      BY <1>2, <1>3, <2>1, <2>2
    <3> QED
      BY <3>1 DEF Lists
  <2>3. CASE k > Len(s)
    <3>1. k - Len(s) \in 1..n
      BY <1>2, <2>3
    <3> QED
      BY <1>1, <1>2, <2>1, <2>3, <3>1
  <2> QED
    BY <1>2, <2>2, <2>3
<1>5. ASSUME NEW d, Lists(s, d) PROVE Lists(t, d)
  <2>1. PICK k \in 1..Len(s) : s[k] = d
    BY <1>3, <1>5 DEF Lists
  <2>2. k \in 1..Len(t) /\ t[k] = d
    BY <1>2, <2>1
  <2> QED
    BY <1>3, <2>2 DEF Lists
<1>6. Lists(t, o)
  <2>1. PICK k : k = Len(s) + 1
    OBVIOUS
  <2>2. k \in 1..Len(t) /\ ~(k <= Len(s)) /\ k - Len(s) = 1 /\ 1 \in 1..n
    BY <1>2, <2>1
  <2>3. k \in DOMAIN t /\ t[k] = o
    BY <1>1, <1>2, <1>3, <2>2
  <2> QED
    BY <2>3 DEF Lists
<1> QED
  BY <1>2, <1>4, <1>5, <1>6

\* addDependent() adds the operation and nothing else, to the last entry of the ring or to
\* a new and blank one.
LEMMA DependentAdded ==
    ASSUME NEW r \in Ring, RingInv(r), NEW o \in Ops, NEW n \in Nat \ {0},
           NEW s, s = AddDependents(r, o, n),
           \A p \in Positions : p \notin Queued(r) => r.data[p].op = NoOp /\ r.data[p].deps = <<>>
    PROVE  /\ GetsDependent(r, s, o)
           /\ r.data[s.tail].op = IF r.length = 0 THEN NoOp ELSE r.data[r.tail].op
<1>1. PICK w : w = IF r.length = 0 THEN NewEntry(r) ELSE r
  OBVIOUS
<1>2. s = [w EXCEPT !.data[w.tail].deps = @ \o [k \in 1..n |-> o]]
  BY <1>1 DEF AddDependents
<1>3. /\ w \in Ring /\ w.tail \in Positions /\ Queued(w) = Queued(r) \cup {w.tail}
      /\ \A p \in Positions : w.data[p].op = r.data[p].op /\ w.data[p].deps = r.data[p].deps
      /\ r.data[w.tail].op = IF r.length = 0 THEN NoOp ELSE r.data[r.tail].op
  <2>1. CASE r.length = 0
    <3>1. r.length < MaxLength /\ w = NewEntry(r)
      BY <1>1, <2>1, QueueAssumption
    <3>2. PICK m : m = NewTail(r)
      OBVIOUS
    <3>3. w \in Ring /\ m \in Positions /\ w.tail = m /\ w.data = [r.data EXCEPT ![m] = BlankEntry]
      BY <3>1, <3>2, NewEntryIs
    <3>4. Queued(w) = Queued(r) \cup {m} /\ m \notin Queued(r)
      BY <3>1, <3>2, NewEntryQueued
    <3>5. r.data[m].op = NoOp /\ r.data[m].deps = <<>>
      BY <3>3, <3>4
    <3>6. \A p \in Positions : w.data[p] = IF p = m THEN BlankEntry ELSE r.data[p]
      BY <3>3 DEF Ring
    <3> QED
      BY <2>1, <3>3, <3>4, <3>5, <3>6 DEF BlankEntry
  <2>2. CASE r.length # 0
    <3>1. r.length > 0
      BY <2>2, QueueAssumption DEF Ring
    <3>2. r.tail \in Queued(r) /\ r.tail \in Positions
      BY <3>1, QueuedEnds
    <3> QED
      BY <1>1, <2>2, <3>2
  <2> QED
    BY <2>1, <2>2
<1>4. PICK t : t = w.data[w.tail].deps \o [k \in 1..n |-> o]
  OBVIOUS
<1>5. w.data \in [Positions -> Entry] /\ w.data[w.tail] \in Entry /\ w.data[w.tail].deps \in Seq(Ops)
  BY <1>3 DEF Ring, Entry
<1>6. t \in Seq(Ops) /\ \A d : Lists(t, d) <=> d = o \/ Lists(w.data[w.tail].deps, d)
  <2>1. PICK b \in Seq(Ops) : b = w.data[w.tail].deps
    BY <1>5
  <2>2. PICK u \in [1..n -> {o}] : u = [k \in 1..n |-> o]
    OBVIOUS
  <2>3. t = b \o u
    BY <1>4, <2>1, <2>2
  <2>4. t \in Seq(Ops) /\ \A d : Lists(t, d) <=> d = o \/ Lists(b, d)
    BY ONLY <2>3, Appended, o \in Ops, n \in Nat \ {0}, b \in Seq(Ops), u \in [1..n -> {o}]
  <2> QED
    BY <2>1, <2>4
<1>7. PICK e : e = [w.data[w.tail] EXCEPT !.deps = t]
  OBVIOUS
<1>8. e \in Entry /\ e.op = w.data[w.tail].op /\ e.deps = t
  BY <1>5, <1>6, <1>7 DEF Entry
<1>9. PICK v : v = [w.data EXCEPT ![w.tail] = e]
  OBVIOUS
<1>10. v \in [Positions -> Entry] /\ \A p \in Positions : v[p] = IF p = w.tail THEN e ELSE w.data[p]
  BY <1>3, <1>5, <1>8, <1>9
<1>11. s = [w EXCEPT !.data = v]
  BY <1>2, <1>4, <1>7, <1>9
<1>12. /\ s \in Ring /\ s.data = v /\ s.head = w.head /\ s.tail = w.tail /\ s.length = w.length
  BY <1>3, <1>10, <1>11 DEF Ring
<1>13. Queued(s) = Queued(w)
  BY <1>12 DEF Queued
<1>14. \A p \in Positions : /\ s.data[p].op = r.data[p].op
                            /\ p # s.tail => s.data[p].deps = r.data[p].deps
  BY <1>3, <1>8, <1>10, <1>12
<1>15. s.data[s.tail].deps = t /\ r.data[s.tail].deps = w.data[w.tail].deps
  BY <1>3, <1>8, <1>10, <1>12
<1>16. \A d : Lists(s.data[s.tail].deps, d) <=> d = o \/ Lists(r.data[s.tail].deps, d)
  BY <1>6, <1>15
<1> QED
  BY <1>3, <1>12, <1>13, <1>14, <1>16 DEF GetsDependent

IsUsed(call, y) == \E i \in DOMAIN call.src : call.src[i] = y

\* An object is used once at least if it is used.
LEMMA UsesAre ==
    ASSUME NEW call \in Call, NEW y
    PROVE  /\ Uses(call, y) \in Nat
           /\ Uses(call, y) # 0 <=> IsUsed(call, y)
<1>1. PICK K : K = {i \in DOMAIN call.src : call.src[i] = y}
  OBVIOUS
<1>2. call.src \in Seq(Objects) /\ DOMAIN call.src = 1..Len(call.src) /\ Len(call.src) \in Nat
  BY DEF Call
<1>3. K \in SUBSET (1..Len(call.src))
  BY <1>1, <1>2
<1>4. IsFiniteSet(K)
  <2>1. IsFiniteSet(1..Len(call.src))
    BY <1>2, FS_Interval, 1 \in Int, Len(call.src) \in Int
  <2> QED
    BY <1>3, <2>1, FS_Subset
<1>5. Cardinality(K) \in Nat /\ (Cardinality(K) = 0 <=> K = {})
  BY <1>4, FS_EmptySet, FS_CardinalityType
<1> QED
  BY <1>1, <1>5 DEF Uses, IsUsed

\* The new operation o reads from the last entries of the objects src.
Reads(n, o, src) ==
    /\ n.state = "live" /\ n.dstPos = InvalidPosition /\ n.src = src
    /\ Len(n.srcPos) = Len(src) /\ Len(n.srcOp) = Len(src)
    /\ \A i \in 1..Len(src) :
          n.srcPos[i] = q'[src[i]].tail /\ n.srcOp[i] = q[src[i]].data[q'[src[i]].tail].op

GetsReader(o, src) ==
    \A y \in Objects :
       \/ (\E i \in 1..Len(src) : src[i] = y) /\ GetsDependent(q[y], q'[y], o)
       \/ (\A i \in 1..Len(src) : src[i] # y) /\ q'[y] = q[y]

\* An operation is inserted that reads from the last entries of its sources: the links
\* agree.
LEMMA ReaderAdded ==
    ASSUME Types, AllOpLinks, AllEntryLinks, \A a : ~Deleting(a),
           \A a : \A i \in Nat \ {0} : ~Passed(a, i)',
           NEW o \in Ops, o = inserted + 1, inserted' = o,
           NEW src \in Seq(Objects), GetsReader(o, src), Reads(ops'[o], o, src),
           \A a \in Ops : a # o => ops'[a] = ops[a]
    PROVE  AllOpLinks' /\ AllEntryLinks'
<1>1. ops[o].state = "new" /\ inserted \in Nat /\ Ops \subseteq Nat \ {0} /\ NoOp = 0
  BY QueueAssumption DEF AllOpLinks, OpLinks, Types, Ops, NoOp
<1>2. \A y \in Objects : \A p \in Positions :
         /\ Queued(q[y]) \subseteq Queued(q'[y]) /\ q'[y].data[p].op = q[y].data[p].op
         /\ \A d : Lists(q[y].data[p].deps, d) => Lists(q'[y].data[p].deps, d)
         /\ p \notin Queued(q'[y]) => q'[y].data[p].deps = q[y].data[p].deps
  BY DEF GetsReader, GetsDependent
<1>3. ASSUME NEW y \in Objects, NEW p \in Positions, NEW d, Lists(q'[y].data[p].deps, d),
             ~Lists(q[y].data[p].deps, d)
      PROVE  d = o /\ p = q'[y].tail /\ \E i \in 1..Len(src) : src[i] = y
  <2>1. q'[y] # q[y]
    BY <1>3
  <2>2. (\E i \in 1..Len(src) : src[i] = y) /\ GetsDependent(q[y], q'[y], o)
    BY <2>1 DEF GetsReader
  <2> QED
    BY <1>3, <2>2 DEF GetsDependent
<1>4. \A i \in 1..Len(src) :
         /\ src[i] \in Objects /\ q'[src[i]].tail \in Positions
         /\ q'[src[i]].tail \in Queued(q'[src[i]])
         /\ Lists(q'[src[i]].data[q'[src[i]].tail].deps, o)
  <2>1. ASSUME NEW i \in 1..Len(src), NEW y, y = src[i]
        PROVE  /\ y \in Objects /\ q'[y].tail \in Positions /\ q'[y].tail \in Queued(q'[y])
               /\ Lists(q'[y].data[q'[y].tail].deps, o)
    <3>1. y \in Objects
      BY <2>1, ElementOfSeq
    <3>2. GetsDependent(q[y], q'[y], o)
      BY <2>1, <3>1 DEF GetsReader
    <3> QED
      BY <3>1, <3>2 DEF GetsDependent
  <2> QED
    BY <2>1
<1>5. \A y \in Objects : \A p \in Positions : q[y].data[p].op # NoOp => q[y].data[p].op < o
  <2>1. ASSUME NEW y \in Objects, NEW p \in Positions, q[y].data[p].op # NoOp,
               NEW c, c = q[y].data[p].op
        PROVE  c < o
    <3>1. c \in Ops /\ ops[c].state = "live"
      BY <2>1, EntryLinksAre
    <3>2. c <= inserted
      BY <3>1, OpLinksAre
    <3> QED
      BY <1>1, <3>1, <3>2
  <2> QED
    BY <2>1
<1>6. ASSUME NEW a \in Ops, a # o PROVE OpLinks(a)'
  <2>1. ops'[a] = ops[a]
    BY <1>6
  <2>2. a > inserted' => ops'[a].state = "new"
    BY <1>1, <2>1 DEF AllOpLinks, OpLinks
  <2>3. ASSUME ops'[a].state = "live"
        PROVE  /\ a <= inserted'
               /\ ops'[a].dstPos # InvalidPosition =>
                     /\ ops'[a].dst \in Objects
                     /\ ops'[a].dstPos \in Queued(q'[ops'[a].dst])
                     /\ q'[ops'[a].dst].data[ops'[a].dstPos].op = a
               /\ Len(ops'[a].srcPos) = Len(ops'[a].src)
               /\ Len(ops'[a].srcOp) = Len(ops'[a].src)
    <3>1. a <= inserted
          /\ (ops[a].dstPos # InvalidPosition =>
                 /\ ops[a].dst \in Objects /\ ops[a].dstPos \in Positions
                 /\ ops[a].dstPos \in Queued(q[ops[a].dst])
                 /\ q[ops[a].dst].data[ops[a].dstPos].op = a)
          /\ Len(ops[a].srcPos) = Len(ops[a].src) /\ Len(ops[a].srcOp) = Len(ops[a].src)
      BY <2>1, <2>3, OpLinksAre
    <3>2. a <= inserted'
      <4>1. a \in Nat /\ inserted' = inserted + 1
        BY <1>1
      <4> QED
        BY <1>1, <3>1, <4>1
    <3>3. ASSUME ops[a].dstPos # InvalidPosition
          PROVE  /\ ops[a].dst \in Objects
                 /\ ops[a].dstPos \in Queued(q'[ops[a].dst])
                 /\ q'[ops[a].dst].data[ops[a].dstPos].op = a
      BY <1>2, <3>1, <3>3
    <3> QED
      BY <2>1, <3>1, <3>2, <3>3
  <2>4. ASSUME ops'[a].state = "live", NEW i \in 1..Len(ops'[a].src)
        PROVE  /\ ~Deleting(a)' =>
                     /\ ops'[a].src[i] \in Objects
                     /\ ops'[a].srcPos[i] \in Queued(q'[ops'[a].src[i]])
                     /\ Lists(q'[ops'[a].src[i]].data[ops'[a].srcPos[i]].deps, a)
                     /\ ops'[a].srcOp[i] = q'[ops'[a].src[i]].data[ops'[a].srcPos[i]].op
               /\ ops'[a].src[i] # NoObject =>
                     q'[ops'[a].src[i]].data[ops'[a].srcPos[i]].op < a
    <3>1. PICK y, p : y = ops[a].src[i] /\ p = ops[a].srcPos[i]
      OBVIOUS
    <3>2. /\ y \in Objects \cup {NoObject} /\ p \in Positions
          /\ y \in Objects /\ p \in Queued(q[y])
          /\ Lists(q[y].data[p].deps, a)
          /\ ops[a].srcOp[i] = q[y].data[p].op
          /\ y # NoObject => q[y].data[p].op < a
      BY <2>1, <2>4, <3>1, SourceIs
    <3>3. /\ p \in Queued(q'[y]) /\ Lists(q'[y].data[p].deps, a)
          /\ ops[a].srcOp[i] = q'[y].data[p].op
          /\ y # NoObject => q'[y].data[p].op < a
      BY <1>2, <3>2
    <3> QED
      BY <2>1, <3>1, <3>2, <3>3
  <2> QED
    BY <2>2, <2>3, <2>4, OpLinksFrom
<1>7. OpLinks(o)'
  <2>1. PICK n : n = ops'[o]
    OBVIOUS
  <2>2. ~(o > inserted') /\ o <= inserted'
    BY <1>1
  <2>3. /\ n.state = "live" /\ n.dstPos = InvalidPosition /\ n.src = src
        /\ Len(n.srcPos) = Len(src) /\ Len(n.srcOp) = Len(src)
        /\ \A i \in 1..Len(src) :
              /\ n.srcPos[i] = q'[src[i]].tail
              /\ n.srcOp[i] = q[src[i]].data[q'[src[i]].tail].op
    BY <2>1 DEF Reads
  <2>4. ASSUME NEW i \in 1..Len(n.src)
        PROVE  /\ n.src[i] \in Objects
               /\ n.srcPos[i] \in Queued(q'[n.src[i]])
               /\ Lists(q'[n.src[i]].data[n.srcPos[i]].deps, o)
               /\ n.srcOp[i] = q'[n.src[i]].data[n.srcPos[i]].op
               /\ q'[n.src[i]].data[n.srcPos[i]].op < o
    <3>1. PICK y, p : y = src[i] /\ p = q'[y].tail
      OBVIOUS
    <3>2. y \in Objects /\ p \in Positions /\ p \in Queued(q'[y]) /\ Lists(q'[y].data[p].deps, o)
      BY <1>4, <2>3, <3>1
    <3>3. n.src[i] = y /\ n.srcPos[i] = p /\ n.srcOp[i] = q[y].data[p].op
      BY <2>3, <2>4, <3>1
    <3>4. q'[y].data[p].op = q[y].data[p].op
      BY <1>2, <3>2
    <3>5. q[y].data[p].op < o
      <4>1. CASE q[y].data[p].op = NoOp
        BY <1>1, <4>1
      <4> QED
        BY <1>5, <3>2, <4>1
    <3> QED
      BY <3>2, <3>3, <3>4, <3>5
  <2> QED
    BY <2>1, <2>2, <2>3, <2>4, OpLinksFrom
<1>8. ASSUME NEW x \in Objects, NEW p \in Positions PROVE EntryLinks(x, p)'
  <2>1. /\ q[x].data[p].op \in Ops \cup {NoOp} /\ q[x].data[p].deps \in Seq(Ops)
        /\ p \notin Queued(q[x]) => q[x].data[p].op = NoOp /\ q[x].data[p].deps = <<>>
        /\ q[x].data[p].op # NoOp =>
              /\ ops[q[x].data[p].op].state = "live"
              /\ ops[q[x].data[p].op].dst = x /\ ops[q[x].data[p].op].dstPos = p
        /\ \A d \in Ops : Lists(q[x].data[p].deps, d) =>
              /\ ops[d].state = "live"
              /\ \E i \in 1..Len(ops[d].src) : ops[d].src[i] = x /\ ops[d].srcPos[i] = p
    BY EntryLinksAre
  <2>2. p \notin Queued(q'[x]) => q'[x].data[p].op = NoOp /\ q'[x].data[p].deps = <<>>
    BY <1>2, <2>1
  <2>3. q'[x].data[p].op # NoOp =>
              /\ ops'[q'[x].data[p].op].state = "live"
              /\ ops'[q'[x].data[p].op].dst = x /\ ops'[q'[x].data[p].op].dstPos = p
    <3>1. PICK c : c = q[x].data[p].op
      OBVIOUS
    <3>2. q'[x].data[p].op = c
      BY <1>2, <3>1
    <3>3. c # NoOp => c \in Ops /\ c # o /\ ops'[c] = ops[c]
      BY <1>1, <2>1, <3>1
    <3> QED
      BY <2>1, <3>1, <3>2, <3>3
  <2>4. ASSUME NEW d \in Ops, Lists(q'[x].data[p].deps, d)
        PROVE  /\ ops'[d].state = "live"
               /\ \E i \in 1..Len(ops'[d].src) :
                     ops'[d].src[i] = x /\ ops'[d].srcPos[i] = p /\ ~Passed(d, i)'
    <3>1. CASE Lists(q[x].data[p].deps, d)
      <4>1. ops[d].state = "live" /\ ops'[d] = ops[d] /\ Len(ops[d].src) \in Nat
        BY <1>1, <2>1, <3>1, OpLinksAre
      <4>2. PICK i \in 1..Len(ops[d].src) : ops[d].src[i] = x /\ ops[d].srcPos[i] = p
        BY <2>1, <3>1
      <4>3. ~Passed(d, i)'
        BY <4>1
      <4> QED
        BY <4>1, <4>2, <4>3
    <3>2. CASE d = o /\ p = q'[x].tail /\ \E i \in 1..Len(src) : src[i] = x
      <4>1. PICK i \in 1..Len(src) : src[i] = x
        BY <3>2
      <4>2. Len(src) \in Nat
        BY LenProperties
      <4>3. ~Passed(o, i)'
        BY <4>2
      <4> QED
        BY <3>2, <4>1, <4>3 DEF Reads
    <3>3. Lists(q[x].data[p].deps, d)
          \/ (d = o /\ p = q'[x].tail /\ \E i \in 1..Len(src) : src[i] = x)
      BY <1>3, <2>4
    <3> QED
      BY <3>1, <3>2, <3>3
  <2> QED
    BY <2>2, <2>3, <2>4, EntryLinksFrom
<1> QED
  BY <1>6, <1>7, <1>8 DEF AllOpLinks, AllEntryLinks

\* The rings of Insert
LEMMA QueuesAfter ==
    ASSUME QInv, NEW call \in Call, NEW o \in Ops,
           \A y \in Objects : q'[y] = AddDependents(q[y], o, Uses(call, y))
    PROVE  /\ GetsReader(o, call.src)
           /\ \A y \in Objects : q'[y] \in Ring /\ q'[y].tail \in Positions
           /\ \A y \in Objects : IsUsed(call, y) => q[y].data[q'[y].tail].op = Creator(y)
<1>1. call.src \in Seq(Objects) /\ DOMAIN call.src = 1..Len(call.src)
  BY DEF Call
<1>2. ASSUME NEW y \in Objects
      PROVE  /\ \/ IsUsed(call, y) /\ GetsDependent(q[y], q'[y], o)
                   /\ q[y].data[q'[y].tail].op = Creator(y)
                \/ ~IsUsed(call, y) /\ q'[y] = q[y]
             /\ q'[y] \in Ring /\ q'[y].tail \in Positions
  <2>1. PICK n \in Nat : n = Uses(call, y)
    BY UsesAre
  <2>2. q'[y] = AddDependents(q[y], o, n)
    BY <2>1
  <2>3. n # 0 <=> IsUsed(call, y)
    BY <2>1, UsesAre
  <2>4. q[y] \in Ring /\ RingInv(q[y]) /\ q[y].tail \in Positions
    BY RingIs
  <2>5. CASE n = 0
    BY <2>2, <2>3, <2>4, <2>5 DEF AddDependents
  <2>6. CASE n # 0
    <3>1. \A p \in Positions : p \notin Queued(q[y]) =>
             q[y].data[p].op = NoOp /\ q[y].data[p].deps = <<>>
      BY EntryLinksAre DEF QInv
    <3>2. n \in Nat \ {0}
      BY <2>6
    <3>3. PICK r, s : r = q[y] /\ s = q'[y]
      OBVIOUS
    <3>4. /\ r \in Ring /\ RingInv(r) /\ s = AddDependents(r, o, n)
          /\ \A p \in Positions : p \notin Queued(r) => r.data[p].op = NoOp /\ r.data[p].deps = <<>>
      BY <2>2, <2>4, <3>1, <3>3
    <3>5. /\ GetsDependent(r, s, o)
          /\ r.data[s.tail].op = IF r.length = 0 THEN NoOp ELSE r.data[r.tail].op
      BY <3>2, <3>4, DependentAdded
    <3>6. GetsDependent(q[y], q'[y], o) /\ q[y].data[q'[y].tail].op = Creator(y)
      BY <3>3, <3>5 DEF Creator, EntryOf
    <3>7. q'[y] \in Ring /\ q'[y].tail \in Positions
      BY <3>6 DEF GetsDependent
    <3> QED
      BY <2>3, <2>6, <3>6, <3>7
  <2> QED
    BY <2>5, <2>6
<1>3. \A y : IsUsed(call, y) <=> \E i \in 1..Len(call.src) : call.src[i] = y
  BY <1>1 DEF IsUsed
<1> QED
  BY <1>2, <1>3 DEF GetsReader

\* The operation of Insert
NewOperation(call, o, n) ==
    n = [state |-> "live", covers |-> call.covers, flush |-> call.flush,
         src |-> call.src,
         srcPos |-> [i \in DOMAIN call.src |-> q'[call.src[i]].tail],
         srcOp |-> [i \in DOMAIN call.src |-> Creator(call.src[i])],
         dst |-> call.dst, dstPos |-> InvalidPosition,
         refCount |-> 0, evaluated |-> FALSE, deleteMe |-> TRUE,
         reads |-> [i \in DOMAIN call.src |-> wanted[call.src[i]]],
         over |-> IF call.covers THEN Unknown ELSE wanted[call.dst]]

\* The fields of the operation that is inserted
LEMMA NewOperationIs ==
    ASSUME QInv, NEW call \in Call, NEW o \in Ops, NEW n, NewOperation(call, o, n),
           \A y \in Objects : q'[y].tail \in Positions,
           \A y \in Objects : IsUsed(call, y) => q[y].data[q'[y].tail].op = Creator(y)
    PROVE  n \in Op /\ n.dst = call.dst /\ Reads(n, o, call.src)
<1>1. PICK s : s = call.src
  OBVIOUS
<1>2. /\ s \in Seq(Objects) /\ DOMAIN s = 1..Len(s) /\ call.dst \in Objects
      /\ call.covers \in BOOLEAN /\ call.flush \in BOOLEAN
  BY <1>1 DEF Call
<1>3. \A i \in DOMAIN s : s[i] \in Objects
  BY <1>2, ElementOfSeq
<1>4. PICK w : w = [i \in DOMAIN s |-> q'[s[i]].tail]
  OBVIOUS
<1>5. PICK c : c = [i \in DOMAIN s |-> Creator(s[i])]
  OBVIOUS
<1>6. PICK v : v = [i \in DOMAIN s |-> wanted[s[i]]]
  OBVIOUS
<1>7. wanted \in [Objects -> Contents] /\ Unknown \in Contents
  BY DEF QInv, Types, Contents
<1>8. w \in [DOMAIN s -> Positions] /\ v \in [DOMAIN s -> Contents]
  BY <1>3, <1>4, <1>6, <1>7
<1>9. c \in [DOMAIN s -> Ops \cup {NoOp}]
  <2>1. \A i \in DOMAIN s : Creator(s[i]) \in Ops \cup {NoOp}
    BY <1>3, CreatorIs
  <2> QED
    BY <1>5, <2>1
<1>10. w \in Seq(Positions) /\ Len(w) = Len(s)
  BY ONLY <1>2, <1>8, ReplacedIn
<1>11. c \in Seq(Ops \cup {NoOp}) /\ Len(c) = Len(s)
  BY ONLY <1>2, <1>9, ReplacedIn
<1>12. v \in Seq(Contents)
  BY ONLY <1>2, <1>8, ReplacedIn
<1>13. s \in Seq(Objects \cup {NoObject})
  BY <1>2
<1>14. PICK u \in Contents : u = IF call.covers THEN Unknown ELSE wanted[call.dst]
  BY <1>2, <1>7
<1>15. n = [state |-> "live", covers |-> call.covers, flush |-> call.flush,
            src |-> s, srcPos |-> w, srcOp |-> c, dst |-> call.dst,
            dstPos |-> InvalidPosition, refCount |-> 0, evaluated |-> FALSE,
            deleteMe |-> TRUE, reads |-> v, over |-> u]
  BY <1>1, <1>4, <1>5, <1>6, <1>14, Zenon DEF NewOperation
<1>16. n \in Op
  BY <1>2, <1>10, <1>11, <1>12, <1>13, <1>15 DEF Op
<1>17. /\ n.state = "live" /\ n.dstPos = InvalidPosition /\ n.src = s /\ n.dst = call.dst
       /\ n.srcPos = w /\ n.srcOp = c
  BY <1>15
<1>18. ASSUME NEW i \in 1..Len(s)
       PROVE  w[i] = q'[s[i]].tail /\ c[i] = q[s[i]].data[q'[s[i]].tail].op
  <2>1. w[i] = q'[s[i]].tail /\ c[i] = Creator(s[i]) /\ s[i] \in Objects
    BY <1>2, <1>3, <1>4, <1>5
  <2>2. IsUsed(call, s[i])
    BY <1>1, <1>2 DEF IsUsed
  <2> QED
    BY <2>1, <2>2
<1> QED
  BY <1>1, <1>10, <1>11, <1>16, <1>17, <1>18 DEF Reads

\* Insert keeps the invariant.
LEMMA InsertQ ==
    ASSUME QInv, NEW call \in Calls, Insert(call)
    PROVE  QInv'
<1>1. Types /\ AllOpLinks /\ AllEntryLinks /\ Inv' /\ call \in Call
  BY InsertInv, QueueAssumption DEF QInv
<1>2. PICK o : o = inserted + 1
  OBVIOUS
<1>3. /\ stack = <<>> /\ inserted < MaxOps /\ inserted' = o /\ result' = result
      /\ q' = [y \in Objects |-> AddDependents(q[y], o, Uses(call, y))]
      /\ wanted' = [wanted EXCEPT ![call.dst] = o]
      /\ stack' = <<CallOf("toss", o, call.dst, InvalidPosition)>>
  BY <1>2 DEF Insert
<1>4. o \in Ops /\ o \in 0..MaxOps /\ inserted \in Nat
  BY <1>1, <1>2, <1>3, QueueAssumption DEF Types, Ops
<1>5. /\ GetsReader(o, call.src)
      /\ \A y \in Objects : q'[y] \in Ring /\ q'[y].tail \in Positions
      /\ \A y \in Objects : IsUsed(call, y) => q[y].data[q'[y].tail].op = Creator(y)
  BY <1>1, <1>3, <1>4, QueuesAfter
<1>6. PICK n : NewOperation(call, o, n)
  BY DEF NewOperation
<1>7. ops' = [ops EXCEPT ![o] = n]
  <2>1. ops' = [ops EXCEPT ![o] =
                [state |-> "live", covers |-> call.covers, flush |-> call.flush,
                 src |-> call.src,
                 srcPos |-> [i \in DOMAIN call.src |-> q'[call.src[i]].tail],
                 srcOp |-> [i \in DOMAIN call.src |-> Creator(call.src[i])],
                 dst |-> call.dst, dstPos |-> InvalidPosition,
                 refCount |-> 0, evaluated |-> FALSE, deleteMe |-> TRUE,
                 reads |-> [i \in DOMAIN call.src |-> wanted[call.src[i]]],
                 over |-> IF call.covers THEN Unknown ELSE wanted[call.dst]]]
    BY <1>2, <1>3 DEF Insert
  <2> QED
    BY <1>6, <2>1 DEF NewOperation
<1>8. n \in Op /\ n.dst = call.dst /\ Reads(n, o, call.src)
  BY <1>1, <1>4, <1>5, <1>6, NewOperationIs
<1>9. ops' \in [Ops -> Op] /\ ops'[o] = n /\ \A a \in Ops : a # o => ops'[a] = ops[a]
  BY <1>1, <1>4, <1>7, <1>8 DEF Types
<1>10. PICK f : f = CallOf("toss", o, call.dst, InvalidPosition)
  OBVIOUS
<1>11. StartsOne(f)
  <2>1. "toss" \in Points /\ call.dst \in Objects
    BY <1>1 DEF Points, Inserting, Call
  <2>2. /\ f \in Frame /\ f.at = "toss" /\ f.op = o /\ f.obj = call.dst
    BY <1>4, <1>10, <2>1, CallFrame
  <2>3. ops'[o].state = "live" /\ ops'[o].dstPos = InvalidPosition /\ ops'[o].dst = call.dst
    BY <1>8, <1>9 DEF Reads
  <2>4. FrameOK(f)'
    BY <1>4, <2>1, <2>2, <2>3 DEF FrameOK, Live, Points, OnObject, OnEntry, Counting, Resting, Executing,
         Syncing, Deletes, Inserting
  <2>5. Fresh(f) /\ ~Waits(f)
    BY <2>2 DEF Fresh, Waits, Deletes
  <2> QED
    BY <1>3, <1>10, <2>2, <2>4, <2>5 DEF StartsOne
<1>12. /\ stack' \in Seq(Frame) /\ FramesOK' /\ StackOrder'
       /\ \A a : \A i \in Nat \ {0} : ~Passed(a, i)'
  BY <1>11, FromIdle
<1>13. \A a : ~Deleting(a)
  BY <1>3, IdleIs
<1>14. AllOpLinks' /\ AllEntryLinks'
  <2>1. call.src \in Seq(Objects) /\ Reads(ops'[o], o, call.src)
    BY <1>1, <1>8, <1>9 DEF Call
  <2> QED
    BY <1>1, <1>2, <1>3, <1>4, <1>5, <1>9, <1>12, <1>13, <2>1, ReaderAdded
<1>15. Types'
  <2>1. q' \in [Objects -> Ring]
    BY <1>3, <1>5
  <2>2. wanted' \in [Objects -> Contents]
    BY <1>1, <1>3, <1>4 DEF Types, Contents
  <2> QED
    BY <1>1, <1>3, <1>4, <1>9, <1>12, <2>1, <2>2 DEF Types
<1> QED
  BY <1>1, <1>12, <1>14, <1>15 DEF QInv
----------------------------------------------------------------------------
\* The theorems

\* The invariant holds at first.
LEMMA InitQ == Init => QInv
<1> SUFFICES ASSUME Init PROVE QInv
  OBVIOUS
<1>1. Inv
  BY InitInv
<1>2. /\ q = [x \in Objects |-> EmptyRing] /\ ops = [o \in Ops |-> NewOp] /\ inserted = 0
      /\ stack = <<>> /\ result = "success" /\ wanted = [x \in Objects |-> 0]
  BY DEF Init
<1>3. Types
  <2>1. BlankEntry \in Entry
    BY DEF BlankEntry, Entry
  <2>2. MaxLength \in Nat /\ MaxLength > 1 /\ 0 \in Positions
    BY QueueAssumption DEF Positions
  <2>3. PICK d : d = [p \in Positions |-> BlankEntry]
    OBVIOUS
  <2>4. d \in [Positions -> Entry]
    BY <2>1, <2>3
  <2>5. EmptyRing \in Ring
    BY <2>2, <2>3, <2>4 DEF EmptyRing, Ring
  <2>6. NewOp \in Op
    BY <2>2 DEF NewOp, Op, Contents
  <2>7. stack \in Seq(Frame) /\ inserted \in 0..MaxOps /\ 0 \in Contents
    BY <1>2, QueueAssumption DEF Contents
  <2> QED
    BY <1>2, <2>5, <2>6, <2>7 DEF Types
<1>4. Depth = 0
  BY <1>2 DEF Depth
<1>5. FramesOK /\ StackOrder
  BY <1>4 DEF FramesOK, StackOrder
<1>6. AllOpLinks
  BY <1>2 DEF AllOpLinks, OpLinks, NewOp
<1>7. ASSUME NEW x \in Objects, NEW p \in Positions PROVE EntryLinks(x, p)
  <2>1. EntryOf(x, p).op = NoOp /\ EntryOf(x, p).deps = <<>>
    BY <1>2 DEF EntryOf, EmptyRing, BlankEntry
  <2>2. \A d \in Ops : ~DependsOn(d, x, p)
    BY <2>1 DEF DependsOn, Lists
  <2> QED
    BY <2>1, <2>2 DEF EntryLinks
<1> QED
  BY <1>1, <1>3, <1>5, <1>6, <1>7 DEF QInv, AllEntryLinks

\* Nothing the invariant speaks of changes.
LEMMA StutterQ ==
    ASSUME QInv, UNCHANGED vars
    PROVE  QInv'
<1>1. UNCHANGED <<q, ops, inserted, stack, result, wanted>>
  BY DEF vars, history
<1>2. Types' /\ Inv'
  BY <1>1, InvUnchanged DEF QInv, Types
<1>3. /\ \A x \in Objects : \A p \in Positions : EntryOf(x, p)' = EntryOf(x, p)
      /\ \A o : Live(o)' = Live(o) /\ Entered(o)' = Entered(o) /\ StatusOf(o)' = StatusOf(o)
      /\ Depth' = Depth /\ \A h : CallAt(h)' = CallAt(h)
  BY <1>1 DEF EntryOf, Live, Entered, StatusOf, Depth, CallAt, AtDepth
<1>4. \A o : Deleting(o)' = Deleting(o) /\ \A i : Passed(o, i)' = Passed(o, i)
  BY <1>3 DEF Deleting, Passed
<1>5. FramesOK'
  <2>1. \A f : FrameOK(f)' = FrameOK(f)
    BY <1>1, <1>3 DEF FrameOK
  <2>2. ASSUME NEW h \in 1..Depth
        PROVE  /\ FrameOK(CallAt(h))'
               /\ CallAt(h)'.at \in Inserting \cup {"flushed"} => h = 1
               /\ CallAt(h)'.at = "flush" => h = Depth
               /\ Waits(CallAt(h))' =>
                     \/ Entered(Awaited(CallAt(h)))'
                     \/ h + 1 = Depth /\ CallAt(Depth)'.at = "flush"
                        /\ CallAt(Depth)'.op = Awaited(CallAt(h))'
    BY <1>1, <1>3, <2>1 DEF QInv, FramesOK, Waits, Awaited, CallAt, AtDepth, Entered, FrameOK, Live,
         StatusOf, EntryOf
  <2> QED
    BY <1>3, <2>2 DEF FramesOK
<1>6. StackOrder'
  BY <1>3 DEF QInv, StackOrder
<1>7. AllOpLinks'
  BY <1>1, <1>3, <1>4 DEF QInv, AllOpLinks, OpLinks, Knows, DependsOn, EntryOf
<1>8. AllEntryLinks'
  BY <1>1, <1>3, <1>4 DEF QInv, AllEntryLinks, EntryLinks, DependsOn, EntryOf, Live
<1> QED
  BY <1>2, <1>5, <1>6, <1>7, <1>8 DEF QInv

\* Every step keeps the invariant.
LEMMA NextQ == QInv /\ [Next]_vars => QInv'
<1> SUFFICES ASSUME QInv, [Next]_vars PROVE QInv'
  OBVIOUS
<1>1. CASE Step
  <2> USE <1>1
  <2>1. CASE DeleteSource
    BY <2>1, DeleteSourceQ
  <2>2. CASE DeleteDestination
    BY <2>2, DeleteDestinationQ
  <2>3. CASE StartFlush
    BY <2>3, StartFlushQ DEF Step
  <2>4. CASE ReadSource
    BY <2>4, ReadSourceQ
  <2>5. CASE WriteDestination
    BY <2>5, WriteDestinationQ
  <2>6. CASE Compute
    BY <2>6, ComputeQ
  <2>7. CASE FinishFlush
    BY <2>7, FinishFlushQ
  <2>8. CASE NextEntry
    BY <2>8, NextEntryQ
  <2>9. CASE FlushCreator
    BY <2>9, FlushCreatorQ
  <2>10. CASE AdvanceEntry
    BY <2>10, AdvanceEntryQ
  <2>11. CASE Evaluate
    BY <2>11, EvaluateQ
  <2>12. CASE Evaluated
    BY <2>12, EvaluatedQ DEF Step
  <2>13. CASE FlushDependents
    BY <2>13, FlushDependentsQ
  <2>14. CASE TossCovered
    BY <2>14, TossCoveredQ
  <2>15. CASE FlushHead
    BY <2>15, FlushHeadQ
  <2>16. CASE SyncHead
    BY <2>16, SyncHeadQ
  <2>17. CASE SetOp
    BY <2>17, SetOpQ
  <2>18. CASE DestroyFlushed
    BY <2>18, DestroyFlushedQ
  <2>19. CASE Synced \/ DestroyedObject
    BY <2>19, ReturnsOnlyQ
  <2>20. CASE SyncAllDependents
    BY <2>20, SyncAllDependentsQ
  <2> QED
    BY <2>1, <2>2, <2>3, <2>4, <2>5, <2>6, <2>7, <2>8, <2>9, <2>10, <2>11, <2>12, <2>13, <2>14,
       <2>15, <2>16, <2>17, <2>18, <2>19, <2>20 DEF Step
<1>2. CASE Request
  <2>1. CASE \E call \in Calls : Insert(call)
    BY <2>1, InsertQ
  <2>2. CASE \E x \in Objects : Sync(x)
    BY <2>2, SyncQ
  <2>3. CASE \E x \in Objects : TossContents(x)
    BY <2>3, TossContentsQ
  <2>4. CASE \E x \in Objects : Destroy(x)
    BY <2>4, DestroyQ
  <2> QED
    BY <1>2, <2>1, <2>2, <2>3, <2>4 DEF Request
<1>3. CASE UNCHANGED vars
  BY <1>3, StutterQ
<1> QED
  BY <1>1, <1>2, <1>3 DEF Next

\* Between calls the invariant says that the links agree.
LEMMA LinksFollow == QInv => LinksAgree
<1> SUFFICES ASSUME QInv, Idle PROVE LinksAgree
  BY DEF LinksAgree
<1>1. \A o : ~Deleting(o)
  BY IdleIs DEF Idle
<1>2. Types /\ AllOpLinks /\ AllEntryLinks
  BY DEF QInv
<1>3. ASSUME NEW o \in Ops, Live(o), ops[o].dstPos # InvalidPosition
      PROVE  /\ ops[o].dstPos \in Queued(q[ops[o].dst])
             /\ EntryOf(ops[o].dst, ops[o].dstPos).op = o
             /\ \A i \in DOMAIN ops[o].src :
                   LET e == EntryOf(ops[o].src[i], ops[o].srcPos[i])
                   IN /\ ops[o].srcPos[i] \in Queued(q[ops[o].src[i]])
                      /\ \E k \in DOMAIN e.deps : e.deps[k] = o
                      /\ ops[o].srcOp[i] = e.op
  <2>1. ops[o].dstPos \in Queued(q[ops[o].dst]) /\ EntryOf(ops[o].dst, ops[o].dstPos).op = o
    BY <1>2, <1>3 DEF AllOpLinks, OpLinks, Live
  <2>2. ASSUME NEW i \in DOMAIN ops[o].src PROVE Knows(o, i)
    <3>1. i \in 1..Len(ops[o].src)
      BY <1>2 DEF Types, Op
    <3> QED
      BY <1>1, <1>2, <1>3, <3>1 DEF AllOpLinks, OpLinks, Live
  <2> QED
    BY <2>1, <2>2 DEF Knows, DependsOn, Lists
<1>4. ASSUME NEW x \in Objects, NEW p \in Queued(q[x])
      PROVE  LET e == EntryOf(x, p)
             IN /\ e.op # NoOp => /\ Live(e.op)
                                  /\ ops[e.op].dst = x /\ ops[e.op].dstPos = p
                /\ \A k \in DOMAIN e.deps :
                      /\ Live(e.deps[k])
                      /\ \E i \in DOMAIN ops[e.deps[k]].src :
                            /\ ops[e.deps[k]].src[i] = x
                            /\ ops[e.deps[k]].srcPos[i] = p
  <2>1. p \in Positions
    BY QueuedPositions
  <2>2. EntryLinks(x, p) /\ EntryOf(x, p).deps \in Seq(Ops)
    BY <1>2, <2>1, EntryIs DEF AllEntryLinks
  <2>3. ASSUME NEW k \in DOMAIN EntryOf(x, p).deps, NEW d, d = EntryOf(x, p).deps[k]
        PROVE  Live(d) /\ \E i \in DOMAIN ops[d].src : ops[d].src[i] = x /\ ops[d].srcPos[i] = p
    <3>1. d \in Ops
      BY <2>2, <2>3, ElementOfSeq
    <3>2. DependsOn(d, x, p)
      BY <2>3 DEF DependsOn, Lists
    <3>3. Live(d) /\ \E i \in 1..Len(ops[d].src) : ops[d].src[i] = x /\ ops[d].srcPos[i] = p
      BY <2>2, <3>1, <3>2 DEF EntryLinks
    <3>4. DOMAIN ops[d].src = 1..Len(ops[d].src)
      BY <1>2, <3>1 DEF Types, Op
    <3> QED
      BY <3>3, <3>4
  <2> QED
    BY <2>2, <2>3 DEF EntryLinks
<1> QED
  BY <1>3, <1>4 DEF LinksAgree

\* Between calls operations and rings point at each other (insert(), addDependent(),
\* setOp(), cleanup(), creatorCleanup()): whatever is inserted, flushed, tossed and destroyed and
\* whichever compute routines fail, an operation is the creator of the entry it remembers and
\* a dependent of the entries of its sources, and an entry names no other operation.
THEOREM LinksCorrect == Spec => []LinksAgree
<1>1. Init => QInv
  BY InitQ
<1>2. QInv /\ [Next]_vars => QInv'
  BY NextQ
<1>3. QInv => LinksAgree
  BY LinksFollow
<1> QED
  BY <1>1, <1>2, <1>3, PTL DEF Spec

\* CallersLive, of the operations
OperationsLive == \A n \in DOMAIN stack : stack[n].op # NoOp => Live(stack[n].op)

\* The invariant says that the operation of a call lives.
LEMMA CallersFollow == QInv => OperationsLive
<1> SUFFICES ASSUME QInv, NEW n \in DOMAIN stack, stack[n].op # NoOp PROVE Live(stack[n].op)
  BY DEF OperationsLive
<1>1. stack \in Seq(Frame) /\ FramesOK
  BY DEF QInv, Types
<1>2. Depth \in Nat /\ n \in 1..Depth
  BY <1>1, LenProperties DEF Depth
<1>3. PICK h : h = Depth + 1 - n
  OBVIOUS
<1>4. h \in 1..Depth /\ CallAt(h) = stack[n]
  <2>1. h \in 1..Depth /\ Len(stack) + 1 - h = n
    BY <1>2, <1>3 DEF Depth
  <2> QED
    BY <2>1 DEF CallAt, AtDepth
<1>5. PICK f : f = stack[n]
  OBVIOUS
<1>6. FrameOK(f)
  BY <1>1, <1>4, <1>5 DEF FramesOK
<1> QED
  BY <1>5, <1>6 DEF FrameOK

\* No call in progress goes on with an operation that has been deleted, however deep the
\* recursion of flush(), syncForWriting(), evaluate() and the destructors is (release()).
THEOREM OperationsOutliveCalls == Spec => []OperationsLive
<1>1. Init => QInv
  BY InitQ
<1>2. QInv /\ [Next]_vars => QInv'
  BY NextQ
<1>3. QInv => OperationsLive
  BY CallersFollow
<1> QED
  BY <1>1, <1>2, <1>3, PTL DEF Spec
----------------------------------------------------------------------------
\* The objects calls work on

\* The calls that end a request; o reads x.
Ending == {"synced", "destroyed", "delete"}
Reading(o, x) == \E i \in 1..Len(ops[o].src) : ops[o].src[i] = x

\* The object of the call f that is in progress at depth h
ObjectOK(h, f) ==
    /\ f.at \notin OnObject \cup {"flushed"} => f.obj = NoObject
    /\ f.at \in Syncing => f.obj = ops[f.op].dst
    /\ f.at \in Inserting \cup {"flushed"} => f.obj \notin destroyed \/ Reading(f.op, f.obj)
    /\ f.at = "dependents" =>
          \/ f.obj \in Borrowed
          \/ h = 2 /\ CallAt(1).at \in Inserting /\ f.obj = CallAt(1).obj
    /\ f.at = "allDependents" => f.obj \in Borrowed
    /\ f.at \in Ending => h = 1
    /\ f.at = "synced" => f.obj \notin destroyed
    /\ f.at = "destroyed" => f.obj \in destroyed \ (deleted \cup whenUnused)
    /\ f.at = "delete" =>
       /\ f.obj \in destroyed
       /\ \/ f.obj \in Borrowed
          \/ Depth = 1 /\ f.obj \notin deleted /\ q[f.obj].length = 0

\* Every call knows its object; only what the application has destroyed is deleted, and not
\* before its ring is empty.
ObjectsOK == \A h \in 1..Depth : ObjectOK(h, CallAt(h))
DestroyedFirst == whenUnused \subseteq destroyed /\ deleted \subseteq destroyed /\ destroyed \subseteq Objects
DeletedEmpty == \A x \in deleted : x \in Borrowed \/ q[x].length = 0
CInv == QInv /\ ObjectsOK /\ DestroyedFirst /\ DeletedEmpty

\* CallersLive, of the objects that are not borrowed
ObjectsOutlive == \A n \in DOMAIN stack : stack[n].obj \notin deleted \ Borrowed

\* The object of every call still exists, unless it is borrowed.
LEMMA ObjectsStay ==
    ASSUME CInv, NEW h \in 1..Depth, NEW f, f = CallAt(h)
    PROVE  f.obj \notin deleted \ Borrowed
<1> SUFFICES ASSUME f.obj \in deleted, f.obj \notin Borrowed PROVE FALSE
  OBVIOUS
<1>1. Types /\ AllOpLinks /\ FrameOK(f) /\ ObjectOK(h, f) /\ f.obj \in Objects /\ f.obj \in destroyed
      /\ q[f.obj].length = 0
  BY DEF CInv, QInv, FramesOK, ObjectsOK, DestroyedFirst, DeletedEmpty
<1>2. Queued(q[f.obj]) = {} /\ f.obj # NoObject
  <2>1. RingInv(q[f.obj])
    BY <1>1, RingIs DEF CInv
  <2> QED
    BY <1>1, <2>1, QueuedEnds, QueueAssumption
<1>3. f.at \in OnObject \cup {"flushed"}
  BY <1>1, <1>2 DEF ObjectOK
<1>4. CASE f.at \in Syncing
  <2>1. f.op \in Ops /\ Live(f.op) /\ ops[f.op].dstPos # InvalidPosition
    BY <1>1, <1>4 DEF FrameOK, Resting, Syncing
  <2>2. ops[f.op].dstPos \in Queued(q[ops[f.op].dst])
    BY <2>1, DestinationIs DEF CInv
  <2> QED
    BY <1>1, <1>2, <1>4, <2>2 DEF ObjectOK
<1>5. ASSUME NEW g, NEW k \in 1..Depth, g = CallAt(k), g.at \in Inserting \cup {"flushed"},
             g.obj = f.obj
      PROVE  FALSE
  <2>1. FrameOK(g) /\ ObjectOK(k, g)
    BY <1>5 DEF CInv, QInv, FramesOK, ObjectsOK
  <2>2. g.op \in Ops /\ Live(g.op)
        /\ (ops[g.op].deleteMe = FALSE \/ ops[g.op].dstPos = InvalidPosition)
    BY <1>5, <2>1 DEF FrameOK, Resting, Inserting
  <2>3. ~Deleting(g.op)
    <3> SUFFICES ASSUME NEW m \in 1..Depth, CallAt(m).at \in Deletes, CallAt(m).op = g.op
                 PROVE  FALSE
      BY DEF Deleting
    <3>1. PICK d : d = CallAt(m)
      OBVIOUS
    <3>2. FrameOK(d) /\ d.at \in Deletes /\ d.op = g.op
      BY <3>1 DEF CInv, QInv, FramesOK
    <3> QED
      BY <2>2, <3>2 DEF FrameOK
  <2>4. Reading(g.op, f.obj)
    BY <1>1, <1>5, <2>1 DEF ObjectOK
  <2>5. PICK i \in 1..Len(ops[g.op].src) : ops[g.op].src[i] = f.obj
    BY <2>4 DEF Reading
  <2>6. ops[g.op].srcPos[i] \in Queued(q[f.obj])
    BY <1>1, <2>2, <2>3, <2>5, SourceIs DEF Live
  <2> QED
    BY <1>2, <2>6
<1>6. CASE f.at \in Inserting \cup {"flushed"}
  BY <1>5, <1>6
<1>7. CASE f.at = "dependents"
  <2>1. h = 2 /\ CallAt(1).at \in Inserting /\ f.obj = CallAt(1).obj
    BY <1>1, <1>7 DEF ObjectOK
  <2>2. PICK g : g = CallAt(1)
    OBVIOUS
  <2>3. Depth \in Nat
    BY <1>1, LenProperties DEF Types, Depth
  <2>4. 1 \in 1..Depth
    BY <2>1, <2>3
  <2> QED
    BY <1>5, <2>1, <2>2, <2>4
<1>8. CASE f.at \in Resting /\ f.at # "dependents"
  BY <1>1, <1>8 DEF ObjectOK, Resting
<1> QED
  BY <1>3, <1>4, <1>6, <1>7, <1>8 DEF OnObject

\* Objects are deleted that wait for it.
DeletesUnused ==
    deleted' = deleted \/ \E x \in whenUnused : q'[x].length = 0 /\ deleted' = deleted \cup {x}

\* Operations keep what they read and write, unless they are being deleted.
KeepsSources ==
    \A o \in Ops : Live(o) =>
       \/ ops'[o].dst = ops[o].dst /\ ops'[o].src = ops[o].src
       \/ Top.at \in Deletes /\ o = Top.op

\* A call below the innermost one still knows its object.
LEMMA ObjectStays ==
    ASSUME CInv, stack # <<>>, UNCHANGED <<destroyed, whenUnused>>, DeletesUnused, KeepsSources,
           NEW h \in 1..Depth-1, NEW f, f = CallAt(h),
           AtDepth(stack', 1) = CallAt(1) \/ h = 1
    PROVE  ObjectOK(h, f)'
<1>1. Depth \in Nat \ {0} /\ Top = CallAt(Depth) /\ FrameOK(Top)
  BY TopIsOK DEF CInv
<1>2. FrameOK(f) /\ ObjectOK(h, f)
  <2>1. h \in 1..Depth
    BY <1>1
  <2> QED
    BY <2>1 DEF CInv, QInv, FramesOK, ObjectsOK
<1>3. f.at \in Syncing \cup Inserting \cup {"flushed"} =>
         ops'[f.op].dst = ops[f.op].dst /\ ops'[f.op].src = ops[f.op].src
  <2>1. f.at \in Syncing \cup Inserting \cup {"flushed"} =>
           /\ f.op \in Ops /\ Live(f.op)
           /\ \/ ops[f.op].refCount > 0
              \/ ops[f.op].dstPos = InvalidPosition
              \/ ops[f.op].deleteMe = FALSE
    BY <1>2 DEF FrameOK, Resting, Syncing, Inserting
  <2>2. Top.at \in Deletes =>
           /\ ops[Top.op].refCount = 0 /\ ops[Top.op].deleteMe = TRUE
           /\ ops[Top.op].dstPos # InvalidPosition
    BY <1>1 DEF FrameOK
  <2> QED
    BY <2>1, <2>2 DEF KeepsSources
<1>4. /\ f.at \in Syncing => f.obj = ops'[f.op].dst
      /\ f.at \in Inserting \cup {"flushed"} => f.obj \notin destroyed \/ Reading(f.op, f.obj)'
  BY <1>2, <1>3 DEF ObjectOK, Reading
<1>5. f.at = "destroyed" => f.obj \in destroyed' \ (deleted' \cup whenUnused')
  BY <1>2 DEF ObjectOK, DeletesUnused
<1>6. f.at = "delete" => f.obj \in Borrowed /\ f.obj \in destroyed'
  BY <1>1, <1>2 DEF ObjectOK
<1>7. f.at = "dependents" => \/ f.obj \in Borrowed
                             \/ /\ h = 2 /\ CallAt(1)'.at \in Inserting
                                /\ f.obj = CallAt(1)'.obj
  BY <1>2 DEF ObjectOK, CallAt
<1> QED
  BY <1>2, <1>4, <1>5, <1>6, <1>7 DEF ObjectOK

\* A call about no object
Alone(f) == f.at \notin OnObject \cup {"flushed"} /\ f.obj = NoObject

\* The innermost call goes on as f with its object, or without one.
GoesOnAs(f) ==
    \/ Alone(f)
    \/ /\ f.op = Top.op /\ f.obj = Top.obj
       /\ \/ Top.at \in Syncing /\ f.at \in Syncing
          \/ Top.at \in Inserting /\ f.at \in Inserting \cup {"flushed"}
          \/ Top.at = "flushed" /\ f.at = "flushed"
          \/ Top.at \in {"dependents", "allDependents"} /\ f.at = Top.at

\* It makes the call c and goes on as f afterwards.
CalledFor(c, f) ==
    \/ Alone(c)
    \/ c.at \in Syncing /\ c.op \in Ops /\ Live(c.op) /\ Top.at \notin Deletes
       /\ c.obj = ops[c.op].dst
    \/ c.at = "dependents" /\ c.obj = Top.obj /\ f.at = "allDependents"
       /\ Top.at = "allDependents"
    \/ c.at = "dependents" /\ c.obj = Top.obj /\ f.obj = Top.obj /\ f.at \in Inserting
       /\ Top.at \in Inserting

\* What a step does to the stack.
MovesOn ==
    \/ \E f : Continue(f) /\ GoesOnAs(f)
    \/ \E c, f :
          CallAndContinue(c, f) /\ GoesOnAs(f) /\ CalledFor(c, f)
    \/ Pop

\* The stack of a call that goes on, and of one that makes another call, whatever their
\* fields are
LEMMA ContinueShape ==
    ASSUME Types, stack # <<>>, NEW f, Continue(f)
    PROVE  /\ Depth' = Depth /\ AtDepth(stack', Depth) = f
           /\ \A h \in 1 .. Depth - 1 : AtDepth(stack', h) = CallAt(h)
<1>1. stack' = <<f>> \o Below
  BY DEF Continue
<1>2. PICK s, n : s = Below /\ n = Depth
  OBVIOUS
<1>0. PICK S : S = Frame \cup {f}
  OBVIOUS
<1>3. /\ s \in Seq(S) /\ n \in Nat \ {0} /\ Len(s) = n - 1
      /\ \A h \in 1 .. n - 1 : s[n - h] = CallAt(h)
  <2>1. s \in Seq(Frame) /\ Frame \subseteq S
    BY <1>0, <1>2, TopCall
  <2>2. s \in Seq(S)
    BY <2>1
  <2> QED
    BY <1>2, <2>2, TopCall
<1>4. PICK t : t = <<f>> \o s
  OBVIOUS
<1>5. /\ t \in Seq(S) /\ Len(t) = n /\ t[1] = f
      /\ \A h \in 1 .. n - 1 : t[n + 1 - h] = s[n - h]
  <2>1. <<f>> \in Seq(S) /\ Len(<<f>>) = 1 /\ <<f>>[1] = f
    BY <1>0
  <2>2. t \in Seq(S) /\ Len(t) = 1 + Len(s)
        /\ \A i \in 1 .. 1 + Len(s) : t[i] = IF i <= 1 THEN <<f>>[i] ELSE s[i - 1]
    BY ONLY <1>3, <1>4, <2>1, ConcatProperties
  <2>3. t[1] = f
    BY ONLY <1>3, <2>1, <2>2
  <2>4. ASSUME NEW h \in 1 .. n - 1 PROVE t[n + 1 - h] = s[n - h]
    <3>1. PICK i : i = n + 1 - h
      OBVIOUS
    <3>2. i \in 1 .. 1 + Len(s) /\ ~(i <= 1) /\ i - 1 = n - h
      BY ONLY <1>3, <3>1, h \in 1 .. n - 1
    <3> QED
      BY ONLY <2>2, <3>1, <3>2
  <2> QED
    BY ONLY <1>3, <2>2, <2>3, <2>4
<1>6. stack' = t
  BY <1>1, <1>2, <1>4
<1>7. AtDepth(stack', n) = f /\ \A h \in 1 .. n - 1 : AtDepth(stack', h) = s[n - h]
  <2>1. n + 1 - n = 1
    BY <1>3
  <2> QED
    BY <1>5, <1>6, <2>1 DEF AtDepth
<1> QED
  BY <1>2, <1>3, <1>5, <1>6, <1>7 DEF Depth

\* The same of a call that makes another one
LEMMA CallShape ==
    ASSUME Types, stack # <<>>, NEW f, NEW callee, CallAndContinue(callee, f)
    PROVE  /\ Depth' = Depth + 1
           /\ AtDepth(stack', Depth + 1) = callee /\ AtDepth(stack', Depth) = f
           /\ \A h \in 1 .. Depth - 1 : AtDepth(stack', h) = CallAt(h)
<1>1. stack' = <<callee, f>> \o Below
  BY DEF CallAndContinue
<1>2. PICK s, n : s = Below /\ n = Depth
  OBVIOUS
<1>0. PICK S : S = Frame \cup {f, callee}
  OBVIOUS
<1>3. /\ s \in Seq(S) /\ n \in Nat \ {0} /\ Len(s) = n - 1
      /\ \A h \in 1 .. n - 1 : s[n - h] = CallAt(h)
  <2>1. s \in Seq(Frame) /\ Frame \subseteq S
    BY <1>0, <1>2, TopCall
  <2>2. s \in Seq(S)
    BY <2>1
  <2> QED
    BY <1>2, <2>2, TopCall
<1>4. PICK t : t = <<callee, f>> \o s
  OBVIOUS
<1>5. /\ t \in Seq(S) /\ Len(t) = n + 1 /\ t[1] = callee /\ t[2] = f
      /\ \A h \in 1 .. n - 1 : t[n + 2 - h] = s[n - h]
  <2>1. <<callee, f>> \in Seq(S) /\ Len(<<callee, f>>) = 2 /\ <<callee, f>>[1] = callee
        /\ <<callee, f>>[2] = f
    BY <1>0
  <2>2. t \in Seq(S) /\ Len(t) = 2 + Len(s)
        /\ \A i \in 1 .. 2 + Len(s) : t[i] = IF i <= 2 THEN <<callee, f>>[i] ELSE s[i - 2]
    BY ONLY <1>3, <1>4, <2>1, ConcatProperties
  <2>3. t[1] = callee /\ t[2] = f
    BY ONLY <1>3, <2>1, <2>2
  <2>4. ASSUME NEW h \in 1 .. n - 1 PROVE t[n + 2 - h] = s[n - h]
    <3>1. PICK i : i = n + 2 - h
      OBVIOUS
    <3>2. i \in 1 .. 2 + Len(s) /\ ~(i <= 2) /\ i - 2 = n - h
      BY ONLY <1>3, <3>1, h \in 1 .. n - 1
    <3> QED
      BY ONLY <2>2, <3>1, <3>2
  <2> QED
    BY ONLY <1>3, <2>2, <2>3, <2>4
<1>6. stack' = t
  BY <1>1, <1>2, <1>4
<1>7. AtDepth(stack', n + 1) = callee /\ AtDepth(stack', n) = f /\ \A h \in 1 .. n - 1 : AtDepth(stack', h) = s[n - h]
  <2>1. /\ n + 1 + 1 - (n + 1) = 1 /\ n + 1 + 1 - n = 2
        /\ \A h \in 1 .. n - 1 : n + 1 + 1 - h = n + 2 - h
    BY <1>3
  <2> QED
    BY <1>5, <1>6, <2>1 DEF AtDepth
<1> QED
  BY <1>2, <1>3, <1>5, <1>6, <1>7 DEF Depth

\* ObjectsOK after a step, call by call
LEMMA ObjectsFrom ==
    ASSUME NEW n, Depth' = n,
           \A h \in 1..n : \A f : f = AtDepth(stack', h) => ObjectOK(h, f)'
    PROVE  ObjectsOK'
BY DEF ObjectsOK, CallAt

\* The innermost call still knows its object when it goes on as f.
LEMMA ObjectGoesOn ==
    ASSUME CInv, stack # <<>>, UNCHANGED <<destroyed, whenUnused>>, DeletesUnused, KeepsSources,
           NEW f, GoesOnAs(f), NEW n, n = Depth, AtDepth(stack', n) = f,
           n # 1 => AtDepth(stack', 1) = CallAt(1)
    PROVE  ObjectOK(n, f)'
<1>1. Depth \in Nat \ {0} /\ Top = CallAt(Depth) /\ FrameOK(Top)
      /\ (Top.at \in Inserting \cup {"flushed"} => Depth = 1)
  BY TopIsOK DEF CInv
<1>2. ObjectOK(n, Top)
  <2>1. n \in 1..Depth
    BY <1>1
  <2> QED
    BY <1>1, <2>1 DEF CInv, ObjectsOK
<1>3. CASE Alone(f)
  BY <1>3 DEF Alone, ObjectOK, OnObject, Resting, Ending
<1>4. CASE f.op = Top.op /\ f.obj = Top.obj /\ Top.at \in Syncing /\ f.at \in Syncing
  <2>1. Top.op \in Ops /\ Live(Top.op) /\ Top.at \notin Deletes
    BY <1>1, <1>4 DEF FrameOK, Resting, Syncing, Deletes
  <2>2. f.obj = ops'[f.op].dst
    BY <1>2, <1>4, <2>1 DEF ObjectOK, KeepsSources
  <2> QED
    BY <1>4, <2>2 DEF ObjectOK, OnObject, Inserting, Syncing, Ending
<1>5. CASE /\ f.op = Top.op /\ f.obj = Top.obj /\ Top.at \in Inserting \cup {"flushed"}
           /\ f.at \in Inserting \cup {"flushed"}
  <2>1. Top.op \in Ops /\ Live(Top.op) /\ Top.at \notin Deletes
    BY <1>1, <1>5 DEF FrameOK, Resting, Inserting, Deletes
  <2>2. f.obj \notin destroyed' \/ Reading(f.op, f.obj)'
    BY <1>2, <1>5, <2>1 DEF ObjectOK, KeepsSources, Reading
  <2> QED
    BY <1>5, <2>2 DEF ObjectOK, OnObject, Inserting, Syncing, Ending
<1>6. CASE f.obj = Top.obj /\ Top.at \in {"dependents", "allDependents"} /\ f.at = Top.at
  <2>1. CASE f.at = "allDependents"
    BY <1>2, <1>6, <2>1 DEF ObjectOK, OnObject, Inserting, Syncing, Ending, Resting
  <2>2. CASE f.at = "dependents"
    <3>1. \/ f.obj \in Borrowed
          \/ n = 2 /\ CallAt(1).at \in Inserting /\ f.obj = CallAt(1).obj
      BY <1>2, <1>6, <2>2 DEF ObjectOK
    <3>2. \/ f.obj \in Borrowed
          \/ n = 2 /\ CallAt(1)'.at \in Inserting /\ f.obj = CallAt(1)'.obj
      BY <3>1 DEF CallAt
    <3> QED
      BY <2>2, <3>2 DEF ObjectOK, OnObject, Inserting, Syncing, Ending, Resting
  <2> QED
    BY <1>6, <2>1, <2>2
<1> QED
  BY <1>3, <1>4, <1>5, <1>6 DEF GoesOnAs

\* The call c knows its object.
LEMMA ObjectCalled ==
    ASSUME CInv, stack # <<>>, KeepsSources, NEW c, NEW f, CalledFor(c, f),
           NEW n, n = Depth, AtDepth(stack', n) = f
    PROVE  ObjectOK(n + 1, c)'
<1>1. Depth \in Nat \ {0} /\ Top = CallAt(Depth) /\ FrameOK(Top)
      /\ (Top.at \in Inserting \cup {"flushed"} => Depth = 1)
  BY TopIsOK DEF CInv
<1>2. ObjectOK(n, Top)
  <2>1. n \in 1..Depth
    BY <1>1
  <2> QED
    BY <1>1, <2>1 DEF CInv, ObjectsOK
<1>3. CASE Alone(c)
  BY <1>3 DEF Alone, ObjectOK, OnObject, Resting, Ending
<1>4. CASE c.at \in Syncing /\ c.op \in Ops /\ Live(c.op) /\ Top.at \notin Deletes
           /\ c.obj = ops[c.op].dst
  <2>1. c.obj = ops'[c.op].dst
    BY <1>4 DEF KeepsSources
  <2> QED
    BY <1>4, <2>1 DEF ObjectOK, OnObject, Inserting, Syncing, Ending
<1>5. CASE c.at = "dependents" /\ c.obj = Top.obj /\ Top.at = "allDependents"
  <2>1. c.obj \in Borrowed
    BY <1>2, <1>5 DEF ObjectOK
  <2> QED
    BY <1>5, <2>1 DEF ObjectOK, OnObject, Inserting, Syncing, Ending, Resting
<1>6. CASE c.at = "dependents" /\ c.obj = Top.obj /\ f.obj = Top.obj /\ f.at \in Inserting
           /\ Top.at \in Inserting
  <2>1. n = 1 /\ n + 1 = 2
    BY <1>1, <1>6
  <2>2. CallAt(1)'.at \in Inserting /\ c.obj = CallAt(1)'.obj
    BY <1>6, <2>1 DEF CallAt
  <2> QED
    BY <1>6, <2>1, <2>2 DEF ObjectOK, OnObject, Inserting, Syncing, Ending, Resting
<1> QED
  BY <1>3, <1>4, <1>5, <1>6 DEF CalledFor

\* A step of the innermost call
LEMMA ObjectsStep ==
    ASSUME CInv, stack # <<>>, UNCHANGED <<destroyed, whenUnused>>, DeletesUnused, KeepsSources,
           MovesOn
    PROVE  ObjectsOK'
<1>1. Depth \in Nat \ {0} /\ Types
  BY TopIsOK DEF CInv
<1>2. PICK n : n = Depth
  OBVIOUS
<1>3. ASSUME NEW m, Depth' = m, m \in {n - 1, n, n + 1},
             \A h \in 1..n-1 : AtDepth(stack', h) = CallAt(h),
             m >= n => \A f : f = AtDepth(stack', n) => ObjectOK(n, f)',
             m > n => \A f : f = AtDepth(stack', n + 1) => ObjectOK(n + 1, f)'
      PROVE  ObjectsOK'
  <2>1. ASSUME NEW h \in 1..m, NEW f, f = AtDepth(stack', h) PROVE ObjectOK(h, f)'
    <3>1. CASE h \in 1..n-1
      <4>1. f = CallAt(h) /\ h \in 1..Depth-1
        BY <1>2, <1>3, <2>1, <3>1
      <4>2. AtDepth(stack', 1) = CallAt(1) \/ h = 1
        <5>1. 1 \in 1..n-1
          BY <1>1, <1>2, <3>1
        <5> QED
          BY <1>3, <5>1
      <4> QED
        BY <4>1, <4>2, ObjectStays
    <3>2. CASE h = n
      BY <1>1, <1>2, <1>3, <2>1, <3>2
    <3>3. CASE h = n + 1
      BY <1>1, <1>2, <1>3, <2>1, <3>3
    <3> QED
      BY <1>1, <1>2, <1>3, <3>1, <3>2, <3>3
  <2> QED
    BY <1>3, <2>1, ObjectsFrom
<1>4. ASSUME \A h \in 1..n-1 : AtDepth(stack', h) = CallAt(h)
      PROVE  n # 1 => AtDepth(stack', 1) = CallAt(1)
  <2>1. n # 1 => 1 \in 1..n-1
    BY <1>1, <1>2
  <2> QED
    BY <1>4, <2>1
<1>5. CASE \E f : Continue(f) /\ GoesOnAs(f)
  <2>1. PICK f : Continue(f) /\ GoesOnAs(f)
    BY <1>5
  <2>2. Depth' = n /\ AtDepth(stack', n) = f /\ \A h \in 1..n-1 : AtDepth(stack', h) = CallAt(h)
    BY <1>1, <1>2, <2>1, ContinueShape
  <2>3. ObjectOK(n, f)'
    BY <1>2, <1>4, <2>1, <2>2, ObjectGoesOn
  <2> QED
    BY <1>1, <1>2, <1>3, <2>2, <2>3
<1>6. CASE \E c, f :
              CallAndContinue(c, f) /\ GoesOnAs(f) /\ CalledFor(c, f)
  <2>1. PICK c, f : CallAndContinue(c, f) /\ GoesOnAs(f) /\ CalledFor(c, f)
    BY <1>6
  <2>2. /\ Depth' = n + 1 /\ AtDepth(stack', n + 1) = c /\ AtDepth(stack', n) = f
        /\ \A h \in 1..n-1 : AtDepth(stack', h) = CallAt(h)
    BY <1>1, <1>2, <2>1, CallShape
  <2>3. ObjectOK(n, f)'
    BY <1>2, <1>4, <2>1, <2>2, ObjectGoesOn
  <2>4. ObjectOK(n + 1, c)'
    BY <1>2, <2>1, <2>2, ObjectCalled
  <2> QED
    BY <1>1, <1>2, <1>3, <2>2, <2>3, <2>4
<1>7. CASE Pop
  <2>1. Depth' = n - 1 /\ \A h \in 1..n-1 : AtDepth(stack', h) = CallAt(h)
    BY <1>1, <1>2, <1>7, PopSteps DEF Returns
  <2>2. ~(n - 1 >= n) /\ ~(n - 1 > n)
    BY <1>1, <1>2
  <2> QED
    BY <1>3, <2>1, <2>2
<1> QED
  BY <1>5, <1>6, <1>7 DEF MovesOn

\* What the innermost call knows of its object
LEMMA TopObject ==
    ASSUME CInv, stack # <<>>
    PROVE  /\ Depth \in Nat \ {0} /\ Top = CallAt(Depth) /\ Top \in Frame /\ FrameOK(Top)
           /\ ObjectOK(Depth, Top)
           /\ Top.at \notin OnObject \cup {"flushed"} => Top.obj = NoObject
           /\ Top.at \in Syncing => Top.obj = ops[Top.op].dst
<1>1. Depth \in Nat \ {0} /\ Top = CallAt(Depth) /\ Top \in Frame /\ FrameOK(Top)
  BY TopIsOK DEF CInv
<1>2. ObjectOK(Depth, Top)
  <2>1. Depth \in 1..Depth
    BY <1>1
  <2> QED
    BY <1>1, <2>1 DEF CInv, ObjectsOK
<1>3. \A f : (f = Top /\ ObjectOK(Depth, f)) =>
         /\ f.at \notin OnObject \cup {"flushed"} => f.obj = NoObject
         /\ f.at \in Syncing => f.obj = ops[f.op].dst
  BY DEF ObjectOK
<1> QED
  BY <1>1, <1>2, <1>3

\* A step of a call that adds no entry
LEMMA CallStep ==
    ASSUME CInv, QInv', stack # <<>>, UNCHANGED <<destroyed, whenUnused>>,
           DeletesUnused, KeepsSources, MovesOn,
           \A x \in deleted \ Borrowed : q'[x].length = 0
    PROVE  CInv'
<1>1. ObjectsOK'
  BY ObjectsStep
<1>2. DestroyedFirst'
  BY DEF CInv, DestroyedFirst, DeletesUnused
<1>3. DeletedEmpty'
  BY DEF CInv, DestroyedFirst, DeletedEmpty, DeletesUnused
<1> QED
  BY <1>1, <1>2, <1>3 DEF CInv

\* A step that changes the stack only
LEMMA PureObjects ==
    ASSUME CInv, QInv', stack # <<>>, UNCHANGED <<q, ops, objVars>>, MovesOn
    PROVE  CInv'
<1>1. DeletesUnused /\ KeepsSources /\ UNCHANGED <<destroyed, whenUnused>>
      /\ \A x \in deleted \ Borrowed : q'[x].length = 0
  BY DEF CInv, DeletedEmpty, DeletesUnused, KeepsSources, objVars
<1> QED
  BY <1>1, CallStep

\* An operation is flushed: the call is about no object.
LEMMA FlushAlone ==
    ASSUME NEW o
    PROVE  Alone(Flush(o)) /\ Alone(Delete(o))
BY DEF Alone, Flush, Delete, CallOf, OnObject, Syncing, Inserting, Resting

\* An operation is executed: its objects stay.
LEMMA ExecuteC ==
    ASSUME CInv, QInv', ReadSource \/ WriteDestination \/ Compute
    PROVE  CInv'
<1>1. stack # <<>> /\ Top.at \in {"read", "write", "abandon", "compute"}
  BY DEF ReadSource, WriteDestination, Compute, At
<1>2. PICK t : t = Top
  OBVIOUS
<1>3. t \in Frame /\ t.obj = NoObject /\ t.op \in Ops /\ Live(t.op) /\ t.at \notin Deletes
  <2>1. t \in Frame /\ FrameOK(t) /\ t.obj = NoObject
    BY <1>1, <1>2, TopObject DEF OnObject, Syncing, Inserting, Resting
  <2> QED
    BY <1>1, <1>2, <2>1 DEF FrameOK, Resting, Deletes
<1>4. \A l \in Executing : Alone([t EXCEPT !.at = l])
  BY <1>3 DEF Alone, Frame, OnObject, Syncing, Inserting, Resting, Executing
<1>5. Alone([t EXCEPT !.i = @ + 1])
  BY <1>1, <1>2, <1>3 DEF Alone, Frame, OnObject, Syncing, Inserting, Resting
<1>6. \A f : CalledFor(SyncForWriting(t.op), f)
  BY <1>2, <1>3 DEF CalledFor, SyncForWriting, CallOf, Syncing
<1>7. UNCHANGED <<q, ops, objVars>>
  BY DEF ReadSource, WriteDestination, Compute
<1>8. MovesOn
  <2>1. CASE ReadSource
    <3>1. \/ \E l \in Executing : Continue([t EXCEPT !.at = l])
          \/ Continue([t EXCEPT !.i = @ + 1])
          \/ \E c : CallAndContinue(Flush(c), [t EXCEPT !.i = @ + 1])
      BY <1>2, <2>1 DEF ReadSource, Executing
    <3> QED
      BY <1>4, <1>5, <3>1, FlushAlone DEF MovesOn, GoesOnAs, CalledFor
  <2>2. CASE WriteDestination
    <3>1. \E l \in Executing : CallAndContinue(SyncForWriting(t.op), [t EXCEPT !.at = l])
      BY <1>2, <2>2 DEF WriteDestination, Executing
    <3> QED
      BY <1>4, <1>6, <3>1 DEF MovesOn, GoesOnAs
  <2>3. CASE Compute
    <3>1. \E l \in Executing : Continue([t EXCEPT !.at = l])
      BY <1>2, <2>3 DEF Compute, Executing
    <3> QED
      BY <1>4, <3>1 DEF MovesOn, GoesOnAs
  <2> QED
    BY <2>1, <2>2, <2>3
<1> QED
  BY <1>1, <1>7, <1>8, PureObjects

\* A destination is synchronized: it stays.
LEMMA SyncingC ==
    ASSUME CInv, QInv', NextEntry \/ FlushCreator \/ AdvanceEntry \/ Evaluate
    PROVE  CInv'
<1>1. stack # <<>> /\ Top.at \in Syncing
  BY DEF NextEntry, FlushCreator, AdvanceEntry, Evaluate, At, Syncing
<1>2. PICK t : t = Top
  OBVIOUS
<1>3. t \in Frame /\ t.obj = ops[t.op].dst /\ t.op \in Ops /\ Live(t.op) /\ t.at \notin Deletes
  <2>1. t \in Frame /\ FrameOK(t) /\ t.obj = ops[t.op].dst
    BY <1>1, <1>2, TopObject
  <2> QED
    BY <1>1, <1>2, <2>1 DEF FrameOK, Resting, Deletes, Syncing
<1>4. ASSUME NEW f, f.at \in Syncing, f.op = t.op, f.obj = t.obj PROVE GoesOnAs(f)
  BY <1>1, <1>2, <1>4 DEF GoesOnAs
<1>5. GoesOnAs([t EXCEPT !.at = "creator"]) /\ GoesOnAs([t EXCEPT !.at = "next"])
  <2>1. ASSUME NEW l \in Syncing PROVE GoesOnAs([t EXCEPT !.at = l])
    <3>1. PICK f : f = [t EXCEPT !.at = l]
      OBVIOUS
    <3>2. f.at \in Syncing /\ f.op = t.op /\ f.obj = t.obj
      BY <1>3, <3>1 DEF Frame
    <3>3. GoesOnAs(f)
      BY <1>4, <3>2
    <3> QED
      BY <3>1, <3>3
  <2>2. "creator" \in Syncing /\ "next" \in Syncing
    BY DEF Syncing
  <2> QED
    BY <2>1, <2>2
<1>6. \A p, b : GoesOnAs([t EXCEPT !.at = "entries", !.pos = p, !.failed = b])
  <2> TAKE p, b
  <2>1. PICK f : f = [t EXCEPT !.at = "entries", !.pos = p, !.failed = b]
    OBVIOUS
  <2>2. f.at \in Syncing /\ f.op = t.op /\ f.obj = t.obj
    BY <1>3, <2>1 DEF Frame, Syncing
  <2>3. GoesOnAs(f)
    BY <1>4, <2>2
  <2> QED
    BY <2>1, <2>3
<1>7. GoesOnAs([t EXCEPT !.i = @ + 1])
      /\ \A d : GoesOnAs([t EXCEPT !.at = "evaluated", !.dependent = d])
  <2>1. PICK f : f = [t EXCEPT !.i = @ + 1]
    OBVIOUS
  <2>2. f.at = t.at /\ f.op = t.op /\ f.obj = t.obj
    BY <1>3, <2>1 DEF Frame
  <2>3. GoesOnAs(f)
    BY <1>1, <1>2, <1>4, <2>2
  <2>4. ASSUME NEW d PROVE GoesOnAs([t EXCEPT !.at = "evaluated", !.dependent = d])
    <3>1. PICK g : g = [t EXCEPT !.at = "evaluated", !.dependent = d]
      OBVIOUS
    <3>2. g.at \in Syncing /\ g.op = t.op /\ g.obj = t.obj
      BY <1>3, <3>1 DEF Frame, Syncing
    <3>3. GoesOnAs(g)
      BY <1>4, <3>2
    <3> QED
      BY <3>1, <3>3
  <2> QED
    BY <2>1, <2>3, <2>4
<1>8. \A p, f : CalledFor(CallOf("evaluate", t.op, t.obj, p), f)
  BY <1>2, <1>3 DEF CalledFor, CallOf, Syncing
<1>9. UNCHANGED <<q, ops, objVars>>
  BY DEF NextEntry, FlushCreator, AdvanceEntry, Evaluate
<1>10. MovesOn
  <2>1. CASE NextEntry
    <3>1. \/ Pop
          \/ \E p : CallAndContinue(CallOf("evaluate", t.op, t.obj, p), [t EXCEPT !.at = "creator"])
      BY <1>2, <2>1 DEF NextEntry, Return
    <3> QED
      BY <1>5, <1>8, <3>1 DEF MovesOn
  <2>2. CASE FlushCreator
    <3>1. \/ Pop
          \/ Continue([t EXCEPT !.at = "next"])
          \/ \E c : CallAndContinue(Flush(c), [t EXCEPT !.at = "next"])
      BY <1>2, <2>2 DEF FlushCreator, Return
    <3> QED
      BY <1>5, <3>1, FlushAlone DEF MovesOn, CalledFor
  <2>3. CASE AdvanceEntry
    <3>1. \E p, b : Continue([t EXCEPT !.at = "entries", !.pos = p, !.failed = b])
      BY <1>2, <2>3 DEF AdvanceEntry
    <3> QED
      BY <1>6, <3>1 DEF MovesOn
  <2>4. CASE Evaluate
    <3>1. \/ Pop
          \/ Continue([t EXCEPT !.i = @ + 1])
          \/ \E d : CallAndContinue(Flush(d), [t EXCEPT !.at = "evaluated", !.dependent = d])
      BY <1>2, <2>4 DEF Evaluate, Return
    <3> QED
      BY <1>7, <3>1, FlushAlone DEF MovesOn, CalledFor
  <2> QED
    BY <2>1, <2>2, <2>3, <2>4
<1> QED
  BY <1>1, <1>9, <1>10, PureObjects

\* The dependents of an entry are flushed: its object stays.
LEMMA DependentsC ==
    ASSUME CInv, QInv', FlushDependents \/ SyncAllDependents
    PROVE  CInv'
<1>1. stack # <<>> /\ Top.at \in {"dependents", "allDependents"}
  BY DEF FlushDependents, SyncAllDependents, At
<1>2. PICK t : t = Top
  OBVIOUS
<1>3. t \in Frame
  BY <1>1, <1>2, TopObject
<1>4. GoesOnAs([t EXCEPT !.i = @ + 1])
  <2>1. PICK f : f = [t EXCEPT !.i = @ + 1]
    OBVIOUS
  <2>2. f.at = t.at /\ f.op = t.op /\ f.obj = t.obj
    BY <1>3, <2>1 DEF Frame
  <2> QED
    BY <1>1, <1>2, <2>1, <2>2 DEF GoesOnAs
<1>5. ASSUME NEW p, NEW k, NEW f, f = [t EXCEPT !.pos = p, !.i = k]
      PROVE  f.at = t.at /\ f.obj = t.obj /\ GoesOnAs(f)
  <2>1. f.at = t.at /\ f.op = t.op /\ f.obj = t.obj
    BY <1>3, <1>5 DEF Frame
  <2> QED
    BY <1>1, <1>2, <2>1 DEF GoesOnAs
<1>6. MovesOn
  <2>1. CASE FlushDependents
    <3>1. Pop \/ \E d : CallAndContinue(Flush(d), [t EXCEPT !.i = @ + 1])
      BY <1>2, <2>1 DEF FlushDependents
    <3> QED
      BY <1>4, <3>1, FlushAlone DEF MovesOn, CalledFor
  <2>2. CASE SyncAllDependents
    <3>1. \/ Pop
          \/ \E c : Continue(Flush(c))
          \/ \E p, k : CallAndContinue(CallOf("dependents", NoOp, t.obj, t.pos),
                                       [t EXCEPT !.pos = p, !.i = k])
      BY <1>2, <2>2 DEF SyncAllDependents
    <3>2. ASSUME NEW f, f.at = "allDependents"
          PROVE  CalledFor(CallOf("dependents", NoOp, t.obj, t.pos), f)
      BY <1>2, <2>2, <3>2 DEF CalledFor, CallOf, SyncAllDependents, At
    <3>3. t.at = "allDependents"
      BY <1>2, <2>2 DEF SyncAllDependents, At
    <3>4. CASE \E p, k : CallAndContinue(CallOf("dependents", NoOp, t.obj, t.pos),
                                        [t EXCEPT !.pos = p, !.i = k])
      <4>1. PICK p, k : CallAndContinue(CallOf("dependents", NoOp, t.obj, t.pos),
                                        [t EXCEPT !.pos = p, !.i = k])
        BY <3>4
      <4>2. PICK f : f = [t EXCEPT !.pos = p, !.i = k]
        OBVIOUS
      <4>3. f.at = "allDependents" /\ GoesOnAs(f)
        BY <1>5, <3>3, <4>2
      <4>4. CalledFor(CallOf("dependents", NoOp, t.obj, t.pos), f)
        BY <3>2, <4>3
      <4> QED
        BY <4>1, <4>2, <4>3, <4>4 DEF MovesOn
    <3> QED
      BY <3>1, <3>4, FlushAlone DEF MovesOn, GoesOnAs
  <2> QED
    BY <2>1, <2>2
<1>7. UNCHANGED <<q, ops, objVars>>
  BY DEF FlushDependents, SyncAllDependents
<1> QED
  BY <1>1, <1>6, <1>7, PureObjects

\* A full queue loses its head: its object stays.
LEMMA HeadC ==
    ASSUME CInv, QInv', FlushHead \/ SyncHead
    PROVE  CInv'
<1>1. stack # <<>> /\ Top.at \in Inserting
  BY DEF FlushHead, SyncHead, At, Inserting
<1>2. PICK t : t = Top
  OBVIOUS
<1>3. t \in Frame
  BY <1>1, <1>2, TopObject
<1>4. ASSUME NEW l \in Inserting, NEW f, f = [t EXCEPT !.at = l]
      PROVE  f.at = l /\ f.obj = t.obj /\ GoesOnAs(f)
  <2>1. f.at = l /\ f.op = t.op /\ f.obj = t.obj
    BY <1>3, <1>4 DEF Frame
  <2> QED
    BY <1>1, <1>2, <2>1 DEF GoesOnAs
<1>5. MovesOn
  <2>1. CASE FlushHead
    <3>1. PICK p : CallAndContinue(CallOf("dependents", NoOp, t.obj, p), [t EXCEPT !.at = "head"])
      BY <1>2, <2>1 DEF FlushHead
    <3>2. PICK f : f = [t EXCEPT !.at = "head"]
      OBVIOUS
    <3>3. f.at = "head" /\ f.obj = t.obj /\ GoesOnAs(f)
      BY <1>4, <3>2 DEF Inserting
    <3>4. CalledFor(CallOf("dependents", NoOp, t.obj, p), f)
      BY <1>1, <1>2, <3>3 DEF CalledFor, CallOf, Inserting
    <3> QED
      BY <3>1, <3>2, <3>3, <3>4 DEF MovesOn
  <2>2. CASE SyncHead
    <3>1. \/ Continue([t EXCEPT !.at = "last"])
          \/ \E c : CallAndContinue(Flush(c), [t EXCEPT !.at = "last"])
      BY <1>2, <2>2 DEF SyncHead
    <3>2. GoesOnAs([t EXCEPT !.at = "last"])
      BY <1>4 DEF Inserting
    <3> QED
      BY <3>1, <3>2, FlushAlone DEF MovesOn, CalledFor
  <2> QED
    BY <2>1, <2>2
<1>6. UNCHANGED <<q, ops, objVars>>
  BY DEF FlushHead, SyncHead
<1> QED
  BY <1>1, <1>5, <1>6, PureObjects

\* The application looks at an object that exists.
LEMMA SyncedC ==
    ASSUME CInv, QInv', Synced
    PROVE  CInv'
<1>1. stack # <<>> /\ MovesOn /\ UNCHANGED <<q, ops, objVars>>
  BY DEF Synced, At, MovesOn
<1> QED
  BY <1>1, PureObjects

\* A step that marks operations and entries: no ring grows or shrinks.
LEMMA MarksObjects ==
    ASSUME CInv, QInv', stack # <<>>, UNCHANGED objVars, MovesOn,
           \A x \in Objects : q'[x].length = q[x].length,
           \A o \in Ops : ops'[o].dst = ops[o].dst /\ ops'[o].src = ops[o].src
    PROVE  CInv'
<1>1. DeletesUnused /\ KeepsSources /\ UNCHANGED <<destroyed, whenUnused>>
  BY DEF DeletesUnused, KeepsSources, objVars
<1>2. \A x \in deleted \ Borrowed : q'[x].length = 0
  BY DEF CInv, DeletedEmpty, DestroyedFirst
<1> QED
  BY <1>1, <1>2, CallStep

\* The status of an entry changes no length.
LEMMA StatusLengths ==
    ASSUME CInv, NEW x, NEW p, NEW s, SetStatus(x, p, s)
    PROVE  \A y \in Objects : q'[y].length = q[y].length
<1>1. q \in [Objects -> Ring]
  BY DEF CInv, QInv, Types
<1>2. PICK v : q' = [q EXCEPT ![x].data[p].status = v]
  BY DEF SetStatus
<1>3. \A y \in Objects : q[y] \in Ring
  BY <1>1
<1>4. \A y \in Objects : y # x => q'[y] = q[y]
  BY <1>1, <1>2
<1>5. ASSUME x \in Objects PROVE q'[x].length = q[x].length
  <2>1. PICK r : r = q[x]
    OBVIOUS
  <2>2. q'[x] = [r EXCEPT !.data[p].status = v]
    BY <1>1, <1>2, <1>5, <2>1
  <2>3. r \in Ring
    BY <1>3, <1>5, <2>1
  <2> QED
    BY <2>1, <2>2, <2>3 DEF Ring
<1> QED
  BY <1>4, <1>5

\* A flush begins and ends.
LEMMA FlushC ==
    ASSUME CInv, QInv', StartFlush \/ FinishFlush
    PROVE  CInv'
<1>1. stack # <<>> /\ Top.at \in {"flush", "computed", "abandoned"}
  BY DEF StartFlush, FinishFlush, At
<1>2. PICK t : t = Top
  OBVIOUS
<1>3. t \in Frame /\ t.obj = NoObject /\ ops \in [Ops -> Op]
  BY <1>1, <1>2, TopObject DEF OnObject, Syncing, Inserting, Resting, CInv, QInv, Types
<1>4. UNCHANGED objVars /\ \/ UNCHANGED <<q, ops>>
                           \/ \E x, p, s : SetStatus(x, p, s)
  BY DEF StartFlush, FinishFlush
<1>5. \A x \in Objects : q'[x].length = q[x].length
  BY <1>4, StatusLengths
<1>6. \A o \in Ops : ops'[o].dst = ops[o].dst /\ ops'[o].src = ops[o].src
  <2>1. CASE StartFlush
    <3>1. ops' = ops \/ \E o : ops' = [ops EXCEPT ![o].refCount = @ + 1]
      BY <2>1 DEF StartFlush
    <3>2. CASE \E o : ops' = [ops EXCEPT ![o].refCount = @ + 1]
      <4>1. PICK o : ops' = [ops EXCEPT ![o].refCount = @ + 1]
        BY <3>2
      <4> QED
        BY <1>3, <4>1 DEF Op
    <3> QED
      BY <3>1, <3>2
  <2>2. CASE FinishFlush
    <3>1. \E o : ops' = [ops EXCEPT ![o].refCount = @ - 1, ![o].evaluated = TRUE]
      BY <2>2 DEF FinishFlush
    <3> QED
      BY <1>3, <3>1 DEF Op
  <2> QED
    BY <2>1, <2>2
<1>7. MovesOn
  <2>1. CASE StartFlush
    <3>1. Pop \/ Continue([t EXCEPT !.at = "read"])
      BY <1>2, <2>1 DEF StartFlush, Return
    <3>2. Alone([t EXCEPT !.at = "read"])
      BY <1>3 DEF Alone, Frame, OnObject, Syncing, Inserting, Resting
    <3> QED
      BY <3>1, <3>2 DEF MovesOn, GoesOnAs
  <2>2. CASE FinishFlush
    <3>1. Pop \/ \E o : Continue(Delete(o))
      BY <2>2 DEF FinishFlush
    <3> QED
      BY <3>1, FlushAlone DEF MovesOn, GoesOnAs
  <2> QED
    BY <2>1, <2>2
<1> QED
  BY <1>1, <1>4, <1>5, <1>6, <1>7, MarksObjects

\* A dependent that could not be flushed is destroyed: the object stays.
LEMMA EvaluatedC ==
    ASSUME CInv, QInv', Evaluated
    PROVE  CInv'
<1>1. stack # <<>> /\ Top.at = "evaluated"
  BY DEF Evaluated, At
<1>2. PICK t : t = Top
  OBVIOUS
<1>3. t \in Frame /\ ops \in [Ops -> Op]
  BY <1>1, <1>2, TopObject DEF CInv, QInv, Types
<1>4. PICK f : f = [t EXCEPT !.at = "evaluate", !.i = @ + 1, !.dependent = NoOp,
                             !.failed = @ \/ result = "failure"]
  OBVIOUS
<1>5. f.at = "evaluate" /\ f.op = t.op /\ f.obj = t.obj
  BY <1>3, <1>4 DEF Frame
<1>6. GoesOnAs(f)
  BY <1>1, <1>2, <1>5 DEF GoesOnAs, Syncing
<1>7. UNCHANGED <<q, objVars>> /\ (ops' = ops \/ \E d : ops' = [ops EXCEPT ![d].evaluated = TRUE])
      /\ (Continue(f) \/ \E d : CallAndContinue(Delete(d), f))
  BY <1>2, <1>4 DEF Evaluated
<1>8. \A o \in Ops : ops'[o].dst = ops[o].dst /\ ops'[o].src = ops[o].src
  <2>1. CASE \E d : ops' = [ops EXCEPT ![d].evaluated = TRUE]
    <3>1. PICK d : ops' = [ops EXCEPT ![d].evaluated = TRUE]
      BY <2>1
    <3> QED
      BY <1>3, <3>1 DEF Op
  <2> QED
    BY <1>7, <2>1
<1>9. MovesOn
  BY <1>6, <1>7, FlushAlone DEF MovesOn, CalledFor
<1> QED
  BY <1>1, <1>7, <1>8, <1>9, MarksObjects

\* Operations are tossed that the new one covers: its destination stays.
LEMMA TossCoveredC ==
    ASSUME CInv, QInv', TossCovered
    PROVE  CInv'
<1>1. stack # <<>> /\ Top.at = "toss"
  BY DEF TossCovered, At
<1>2. PICK t : t = Top
  OBVIOUS
<1>3. t \in Frame /\ ops \in [Ops -> Op] /\ Types
  BY <1>1, <1>2, TopObject DEF CInv, QInv, Types
<1>4. UNCHANGED objVars
      /\ \/ /\ Continue([t EXCEPT !.at = "queue"]) /\ UNCHANGED <<q, ops>>
         \/ /\ Creator(t.obj) # NoOp /\ Toss(t.obj, stack)
  BY <1>2 DEF TossCovered
<1>5. CASE Continue([t EXCEPT !.at = "queue"]) /\ UNCHANGED <<q, ops>>
  <2>1. PICK f : f = [t EXCEPT !.at = "queue"]
    OBVIOUS
  <2>2. f.at = "queue" /\ f.op = t.op /\ f.obj = t.obj
    BY <1>3, <2>1 DEF Frame
  <2>3. MovesOn
    BY <1>1, <1>2, <1>5, <2>1, <2>2 DEF MovesOn, GoesOnAs, Inserting
  <2> QED
    BY <1>1, <1>4, <1>5, <2>3, PureObjects
<1>6. CASE Creator(t.obj) # NoOp /\ Toss(t.obj, stack)
  <2>1. PICK c : c = Creator(t.obj)
    OBVIOUS
  <2>2. /\ UNCHANGED q /\ ops' = [ops EXCEPT ![c].evaluated = TRUE]
        /\ stack' = stack \/ stack' = <<Delete(c)>> \o stack
    BY <1>6, <2>1 DEF Toss
  <2>3. Continue(t) \/ CallAndContinue(Delete(c), t)
    BY <1>1, <1>2, <1>3, <2>2, PushSteps DEF Continue, CallAndContinue
  <2>4. GoesOnAs(t)
    BY <1>1, <1>2 DEF GoesOnAs, Inserting
  <2>5. MovesOn
    BY <2>3, <2>4, FlushAlone DEF MovesOn, CalledFor
  <2>6. \A o \in Ops : ops'[o].dst = ops[o].dst /\ ops'[o].src = ops[o].src
    BY <1>3, <2>2 DEF Op
  <2> QED
    BY <1>1, <1>4, <2>2, <2>5, <2>6, MarksObjects
<1> QED
  BY <1>4, <1>5, <1>6

\* An operation that was kept is destroyed: its destination stays.
LEMMA DestroyFlushedC ==
    ASSUME CInv, QInv', DestroyFlushed
    PROVE  CInv'
<1>1. stack # <<>> /\ ops \in [Ops -> Op]
  BY DEF DestroyFlushed, At, CInv, QInv, Types
<1>2. PICK o : o = Top.op
  OBVIOUS
<1>3. /\ UNCHANGED <<q, objVars>>
      /\ ops' = [ops EXCEPT ![o].deleteMe = TRUE, ![o].evaluated = TRUE]
      /\ Continue(Delete(o)) \/ Pop
  BY <1>2 DEF DestroyFlushed
<1>4. \A a \in Ops : ops'[a].dst = ops[a].dst /\ ops'[a].src = ops[a].src
  BY <1>1, <1>3 DEF Op
<1>5. MovesOn
  BY <1>3, FlushAlone DEF MovesOn, GoesOnAs
<1> QED
  BY <1>1, <1>3, <1>4, <1>5, MarksObjects

\* The operation gets its entry: the object of the call is not deleted.
LEMMA SetOpC ==
    ASSUME CInv, QInv', SetOp
    PROVE  CInv'
<1>1. stack # <<>> /\ Top.at \in {"queue", "last"}
  BY DEF SetOp, At
<1>2. PICK t : t = Top
  OBVIOUS
<1>3. t \in Frame /\ ops \in [Ops -> Op] /\ q \in [Objects -> Ring]
  BY <1>1, <1>2, TopObject DEF CInv, QInv, Types
<1>4. PICK f : f = [t EXCEPT !.at = "flushed"]
  OBVIOUS
<1>5. f.at = "flushed" /\ f.op = t.op /\ f.obj = t.obj
  BY <1>3, <1>4 DEF Frame
<1>6. GoesOnAs(f)
  BY <1>1, <1>2, <1>5 DEF GoesOnAs, Inserting
<1>7. /\ UNCHANGED objVars
      /\ q' = q \/ \E r : q' = [q EXCEPT ![t.obj] = r]
      /\ \E v, w : ops' = [ops EXCEPT ![t.op].dstPos = v, ![t.op].deleteMe = w]
      /\ Pop \/ \E o : CallAndContinue(Flush(o), f)
  BY <1>2, <1>4 DEF SetOp
<1>8. MovesOn
  BY <1>6, <1>7, FlushAlone DEF MovesOn, CalledFor
<1>9. \A o \in Ops : ops'[o].dst = ops[o].dst /\ ops'[o].src = ops[o].src
  BY <1>3, <1>7 DEF Op
<1>10. DeletesUnused /\ KeepsSources /\ UNCHANGED <<destroyed, whenUnused>>
  BY <1>7, <1>9 DEF DeletesUnused, KeepsSources, objVars
<1>11. t.obj \notin deleted \ Borrowed
  <2>1. Depth \in 1..Depth /\ t = CallAt(Depth)
    BY <1>1, <1>2, TopObject
  <2> QED
    BY <2>1, ObjectsStay
<1>12. \A x \in deleted \ Borrowed : q'[x].length = 0
  <2> TAKE x \in deleted \ Borrowed
  <2>1. x \in Objects /\ q[x].length = 0 /\ x # t.obj
    BY <1>11 DEF CInv, DeletedEmpty, DestroyedFirst
  <2> QED
    BY <1>3, <1>7, <2>1
<1> QED
  BY <1>1, <1>8, <1>10, <1>12, CallStep

\* The ring of an object that is not used any more does not change, and an object is
\* deleted when it waits for that only.
LEMMA RingLeft ==
    ASSUME CInv, NEW x \in Objects, NEW s, q' = [q EXCEPT ![x] = s],
           q[x].length = 0 => s.length = 0,
           \/ deleted' = deleted
           \/ s.length = 0 /\ x \in whenUnused /\ deleted' = deleted \cup {x}
    PROVE  DeletesUnused /\ \A y \in deleted \ Borrowed : q'[y].length = 0
<1>1. q \in [Objects -> Ring]
  BY DEF CInv, QInv, Types
<1>2. q'[x] = s /\ \A y \in Objects : y # x => q'[y] = q[y]
  BY <1>1
<1>3. DeletesUnused
  BY <1>2 DEF DeletesUnused
<1>4. \A y \in deleted \ Borrowed : y \in Objects /\ q[y].length = 0
  BY DEF CInv, DestroyedFirst, DeletedEmpty
<1> QED
  BY <1>2, <1>3, <1>4

\* Nothing is removed from an empty ring.
LEMMA RemoveEmpty ==
    ASSUME NEW r, NEW p, NEW s, s = Remove(r, p), r.length = 0
    PROVE  s.length = 0
BY DEF Remove

\* The operation that is deleted forgets objects, the others keep theirs.
LEMMA RemoveEntryC ==
    ASSUME CInv, NEW x \in Objects, NEW p, NEW r, NEW a, NEW newOps, RemoveEntry(x, p, r, a, newOps),
           r.length = q[x].length, newOps \in [Ops -> Op]
    PROVE  /\ DeletesUnused /\ \A y \in deleted \ Borrowed : q'[y].length = 0
           /\ \A o \in Ops : o # a => ops'[o] = newOps[o]
<1>1. PICK s : s = Remove(r, p)
  OBVIOUS
<1>2. /\ q' = [q EXCEPT ![x] = s]
      /\ \/ deleted' = deleted
         \/ s.length = 0 /\ x \in whenUnused /\ deleted' = deleted \cup {x}
      /\ \A o \in Ops : o # a => ops'[o] = newOps[o]
  BY <1>1, Zenon DEF RemoveEntry
<1>3. q[x].length = 0 => s.length = 0
  BY <1>1, RemoveEmpty
<1>4. DeletesUnused /\ \A y \in deleted \ Borrowed : q'[y].length = 0
  BY <1>2, <1>3, RingLeft
<1> QED
  BY <1>2, <1>4

\* A destructor leaves a source, which may be the end of the source.
LEMMA DeleteSourceC ==
    ASSUME CInv, QInv', DeleteSource
    PROVE  CInv'
<1>1. stack # <<>> /\ Top.at = "sources"
  BY DEF DeleteSource, At
<1>2. PICK t : t = Top
  OBVIOUS
<1>3. PICK a : a = t.op
  OBVIOUS
<1>4. t \in Frame /\ t.obj = NoObject /\ a \in Ops /\ ops \in [Ops -> Op] /\ q \in [Objects -> Ring]
  <2>1. t \in Frame /\ t.obj = NoObject /\ FrameOK(t)
    BY <1>1, <1>2, TopObject DEF OnObject, Syncing, Inserting, Resting
  <2> QED
    BY <1>1, <1>2, <1>3, <2>1 DEF FrameOK, Resting, CInv, QInv, Types
<1>5. PICK f : f = [t EXCEPT !.i = @ + 1]
  OBVIOUS
<1>6. PICK g : g = [t EXCEPT !.at = "destination"]
  OBVIOUS
<1>7. Alone(f) /\ Alone(g)
  BY <1>1, <1>2, <1>4, <1>5, <1>6 DEF Alone, Frame, OnObject, Syncing, Inserting, Resting
<1>8. UNCHANGED <<destroyed, whenUnused>>
  BY DEF DeleteSource
<1>9. \/ Continue(f) /\ UNCHANGED <<q, ops, deleted>>
      \/ Continue(g) /\ UNCHANGED <<q, ops, deleted>>
      \/ \E i \in 1..Len(ops[a].src) : /\ ops[a].src[i] # NoObject
                                       /\ Cleanup(ops[a].src[i], ops[a].srcPos[i], a, f)
  <2>1. t.i > 0 /\ t.i \in Nat /\ Len(ops[a].src) \in Nat
    <3>1. t.i > 0
      <4>1. FrameOK(t)
        BY <1>1, <1>2, TopObject
      <4> QED
        BY <1>1, <1>2, <4>1 DEF FrameOK, Counting
    <3>2. ops[a].src \in Seq(Objects \cup {NoObject}) /\ t.i \in Nat
      BY <1>4 DEF Op, Frame
    <3> QED
      BY <3>1, <3>2, LenProperties
  <2>2. \/ /\ t.i <= Len(ops[a].src) /\ ops[a].src[t.i] # NoObject
           /\ Cleanup(ops[a].src[t.i], ops[a].srcPos[t.i], a, f)
        \/ Continue(f) /\ UNCHANGED <<q, ops, deleted>>
        \/ Continue(g) /\ UNCHANGED <<q, ops, deleted>>
    BY <1>2, <1>3, <1>5, <1>6 DEF DeleteSource
  <2>3. t.i <= Len(ops[a].src) => t.i \in 1..Len(ops[a].src)
    BY <2>1
  <2> QED
    BY <2>2, <2>3
<1>10. CASE UNCHANGED <<q, ops, deleted>> /\ (Continue(f) \/ Continue(g))
  <2>1. DeletesUnused /\ KeepsSources /\ MovesOn
        /\ \A x \in deleted \ Borrowed : q'[x].length = 0
    BY <1>7, <1>10 DEF DeletesUnused, KeepsSources, MovesOn, GoesOnAs, CInv, DeletedEmpty
  <2> QED
    BY <1>1, <1>8, <2>1, CallStep
<1>11. ASSUME NEW i \in 1..Len(ops[a].src), ops[a].src[i] # NoObject,
              Cleanup(ops[a].src[i], ops[a].srcPos[i], a, f)
       PROVE  CInv'
  <2>1. PICK x, p : x = ops[a].src[i] /\ p = ops[a].srcPos[i]
    OBVIOUS
  <2>2. x \in Objects
    <3>1. ops[a].src \in Seq(Objects \cup {NoObject})
      BY <1>4 DEF Op
    <3> QED
      BY <1>11, <2>1, <3>1, ElementOfSeq
  <2>3. PICK left : left = Without(EntryOf(x, p).deps, a)
    OBVIOUS
  <2>4. PICK c : c = EntryOf(x, p).op
    OBVIOUS
  <2>5. PICK r : r = [q[x] EXCEPT !.data[p].deps = left]
    OBVIOUS
  <2>6. r.length = q[x].length
    BY <1>4, <2>2, <2>5 DEF Ring
  <2>7. \/ /\ q' = [q EXCEPT ![x] = r] /\ deleted' = deleted
           /\ ops' = [ops EXCEPT ![a].srcOp = ClearedOf(@, c), ![c].evaluated = TRUE]
           /\ Continue(f) \/ CallAndContinue(Delete(c), f)
        \/ /\ RemoveEntry(x, p, r, a, ops) /\ Continue(f)
        \/ /\ q' = [q EXCEPT ![x] = r] /\ deleted' = deleted /\ ops' = ops
           /\ Continue(f)
    BY <1>11, <2>1, <2>3, <2>4, <2>5 DEF Cleanup
  <2>8. MovesOn
    BY <1>7, <2>7, FlushAlone DEF MovesOn, GoesOnAs, CalledFor
  <2>9. DeletesUnused /\ \A y \in deleted \ Borrowed : q'[y].length = 0
    <3>1. CASE q' = [q EXCEPT ![x] = r] /\ deleted' = deleted
      BY <2>2, <2>6, <3>1, RingLeft
    <3>2. CASE RemoveEntry(x, p, r, a, ops)
      BY <1>4, <2>2, <2>6, <3>2, RemoveEntryC
    <3> QED
      BY <2>7, <3>1, <3>2
  <2>10. \A o \in Ops : o # a => ops'[o].dst = ops[o].dst /\ ops'[o].src = ops[o].src
    <3>1. CASE ops' = [ops EXCEPT ![a].srcOp = ClearedOf(@, c), ![c].evaluated = TRUE]
      <4>1. PICK v : ops' = [ops EXCEPT ![a].srcOp = v, ![c].evaluated = TRUE]
        BY <3>1
      <4> QED
        BY <1>4, <4>1 DEF Op
    <3>2. CASE RemoveEntry(x, p, r, a, ops)
      BY <1>4, <2>2, <2>6, <3>2, RemoveEntryC
    <3> QED
      BY <2>7, <3>1, <3>2
  <2>11. KeepsSources
    BY <1>1, <1>2, <1>3, <2>10 DEF KeepsSources, Deletes
  <2> QED
    BY <1>1, <1>8, <2>8, <2>9, <2>11, CallStep
<1> QED
  BY <1>9, <1>10, <1>11

\* A destructor leaves the destination, which may be the end of it.
LEMMA DeleteDestinationC ==
    ASSUME CInv, QInv', DeleteDestination
    PROVE  CInv'
<1>1. stack # <<>> /\ Top.at = "destination" /\ Pop /\ UNCHANGED <<destroyed, whenUnused>>
  BY DEF DeleteDestination, At
<1>2. PICK a : a = Top.op
  OBVIOUS
<1>3. a \in Ops /\ ops \in [Ops -> Op] /\ q \in [Objects -> Ring]
  <2>1. FrameOK(Top)
    BY <1>1, TopObject
  <2> QED
    BY <1>1, <1>2, <2>1 DEF FrameOK, Resting, CInv, QInv, Types
<1> DEFINE b == Top.op
           y == ops[b].dst
           d == ops[b].dstPos
           e == EntryOf(y, d)
           go == [ops EXCEPT ![b] = [NewOp EXCEPT !.state = "deleted"]]
           ri == [q[y] EXCEPT !.data[d].op = IF @ = b THEN NoOp ELSE @]
           cl == [o \in Ops |-> IF \E i \in DOMAIN e.deps : e.deps[i] = o
                                THEN [go[o] EXCEPT !.srcOp = ClearedOf(@, b)]
                                ELSE go[o]]
<1>4. \/ /\ y # NoObject
         /\ \/ RemoveEntry(y, d, ri, b, cl)
            \/ q' = [q EXCEPT ![y] = ri] /\ ops' = cl /\ deleted' = deleted
      \/ ops' = go /\ q' = q /\ deleted' = deleted
  BY DEF DeleteDestination
<1>5. PICK x, p : x = ops[a].dst /\ p = ops[a].dstPos
  OBVIOUS
<1>6. PICK gone : gone = [ops EXCEPT ![a] = [NewOp EXCEPT !.state = "deleted"]]
  OBVIOUS
<1>7. PICK r : r = [q[x] EXCEPT !.data[p].op = IF @ = a THEN NoOp ELSE @]
  OBVIOUS
<1>8. PICK cleared : cleared = cl
  OBVIOUS
<1>9. b = a /\ y = x /\ d = p /\ ri = r /\ go = gone
  BY <1>2, <1>5, <1>6, <1>7
<1>10. \/ /\ x # NoObject
          /\ \/ RemoveEntry(x, p, r, a, cleared)
             \/ q' = [q EXCEPT ![x] = r] /\ ops' = cleared /\ deleted' = deleted
       \/ ops' = gone /\ q' = q /\ deleted' = deleted
  <2> HIDE DEF b, y, d, e, go, ri, cl
  <2> QED
    BY <1>4, <1>8, <1>9
<1>11. /\ cleared = [o \in Ops |-> cleared[o]]
       /\ \A o \in Ops : \/ cleared[o] = gone[o]
                         \/ cleared[o] = [gone[o] EXCEPT !.srcOp = ClearedOf(@, a)]
  <2> HIDE DEF b, y, d, e, go, ri
  <2>1. \A o \in Ops : \/ cl[o] = go[o]
                       \/ cl[o] = [go[o] EXCEPT !.srcOp = ClearedOf(@, b)]
    OBVIOUS
  <2>2. cl = [o \in Ops |-> cl[o]]
    OBVIOUS
  <2> HIDE DEF cl
  <2> QED
    BY <1>8, <1>9, <2>1, <2>2
<1> HIDE DEF b, y, d, e, go, ri, cl
<1>12. gone \in [Ops -> Op] /\ \A o \in Ops : o # a => gone[o] = ops[o]
  <2>1. [NewOp EXCEPT !.state = "deleted"] \in Op
    <3>1. MaxLength \in Nat
      BY QueueAssumption
    <3>2. NewOp \in Op
      BY <3>1 DEF NewOp, Op, Contents
    <3> QED
      BY <3>2 DEF Op
  <2> QED
    BY <1>3, <1>6, <2>1
<1>13. cleared \in [Ops -> Op]
       /\ \A o \in Ops : o # a => cleared[o].dst = ops[o].dst /\ cleared[o].src = ops[o].src
  <2>1. ASSUME NEW s \in Seq(Ops \cup {NoOp}) PROVE ClearedOf(s, a) \in Seq(Ops \cup {NoOp})
    BY DEF ClearedOf
  <2>2. ASSUME NEW o \in Ops
        PROVE  cleared[o] \in Op /\ cleared[o].dst = gone[o].dst /\ cleared[o].src = gone[o].src
    <3>1. PICK g : g = gone[o] /\ g \in Op
      BY <1>12
    <3>2. PICK v : v = ClearedOf(g.srcOp, a)
      OBVIOUS
    <3>3. v \in Seq(Ops \cup {NoOp})
      BY <2>1, <3>1, <3>2 DEF Op
    <3>4. cleared[o] = g \/ cleared[o] = [g EXCEPT !.srcOp = v]
      BY <1>11, <3>1, <3>2
    <3> QED
      BY <3>1, <3>3, <3>4 DEF Op
  <2> QED
    BY <1>11, <1>12, <2>2
<1>14. x # NoObject => x \in Objects /\ r.length = q[x].length
  <2>1. x # NoObject => x \in Objects
    BY <1>3, <1>5 DEF Op
  <2>2. PICK v : r = [q[x] EXCEPT !.data[p].op = v]
    BY <1>7
  <2> QED
    BY <1>3, <2>1, <2>2 DEF Ring
<1>15. /\ DeletesUnused /\ \A z \in deleted \ Borrowed : q'[z].length = 0
       /\ \A o \in Ops : o # a => ops'[o].dst = ops[o].dst /\ ops'[o].src = ops[o].src
  <2>1. CASE x # NoObject /\ RemoveEntry(x, p, r, a, cleared)
    BY <1>13, <1>14, <2>1, RemoveEntryC
  <2>2. CASE x # NoObject /\ q' = [q EXCEPT ![x] = r] /\ ops' = cleared /\ deleted' = deleted
    BY <1>13, <1>14, <2>2, RingLeft
  <2>3. CASE ops' = gone /\ q' = q /\ deleted' = deleted
    BY <1>12, <2>3 DEF CInv, DeletedEmpty, DeletesUnused
  <2> QED
    BY <1>10, <2>1, <2>2, <2>3
<1>16. KeepsSources /\ MovesOn
  BY <1>1, <1>2, <1>15 DEF KeepsSources, MovesOn, Deletes
<1> QED
  BY <1>1, <1>15, <1>16, CallStep

\* The end of preDestroy(): nothing is in progress any more.
LEMMA DestroyedObjectC ==
    ASSUME CInv, QInv', DestroyedObject
    PROVE  CInv'
<1>1. stack # <<>> /\ Top.at \in {"destroyed", "delete"} /\ Pop
      /\ UNCHANGED <<q, ops, destroyed, whenUnused>>
  BY DEF DestroyedObject, At
<1>2. PICK t : t = Top
  OBVIOUS
<1>3. Depth = 1 /\ ObjectOK(1, t) /\ Types
  <2>1. ObjectOK(Depth, t) /\ Types
    BY <1>1, <1>2, TopObject DEF CInv, QInv
  <2>2. Depth = 1
    BY <1>1, <1>2, <2>1 DEF ObjectOK, Ending
  <2> QED
    BY <2>1, <2>2
<1>4. Depth' = 0
  <2>1. Depth' = Depth - 1
    BY <1>1, <1>3, PopSteps DEF Returns
  <2> QED
    BY <1>3, <2>1
<1>5. ObjectsOK'
  BY <1>4 DEF ObjectsOK
<1>6. deleted' = deleted
      \/ /\ deleted' = deleted \cup {t.obj} /\ t.obj \in destroyed
         /\ t.obj \in Borrowed \/ q[t.obj].length = 0
  BY <1>1, <1>2, <1>3 DEF DestroyedObject, ObjectOK, At
<1>7. DestroyedFirst' /\ DeletedEmpty'
  BY <1>1, <1>6 DEF CInv, DestroyedFirst, DeletedEmpty
<1> QED
  BY <1>5, <1>7 DEF CInv

\* The calls after a request of the application know their objects.
LEMMA ObjectsStart ==
    ASSUME \/ stack' = <<>>
           \/ \E f : stack' = <<f>> /\ ObjectOK(1, f)'
           \/ \E f, g : stack' = <<f, g>> /\ ObjectOK(2, f)' /\ ObjectOK(1, g)'
    PROVE  ObjectsOK'
<1>1. CASE stack' = <<>>
  BY <1>1 DEF ObjectsOK, Depth
<1>2. CASE \E f : stack' = <<f>> /\ ObjectOK(1, f)'
  <2>1. PICK f : stack' = <<f>> /\ ObjectOK(1, f)'
    BY <1>2
  <2>2. PICK n : n = 1
    OBVIOUS
  <2>3. Depth' = n /\ AtDepth(stack', 1) = f
    BY <2>1, <2>2 DEF Depth, AtDepth
  <2>4. \A h \in 1..n : \A k : k = AtDepth(stack', h) => ObjectOK(h, k)'
    <3>1. \A h \in 1..n : h = 1
      BY <2>2
    <3> QED
      BY <2>1, <2>3, <3>1
  <2> QED
    BY <2>3, <2>4, ObjectsFrom
<1>3. CASE \E f, g : stack' = <<f, g>> /\ ObjectOK(2, f)' /\ ObjectOK(1, g)'
  <2>1. PICK f, g : stack' = <<f, g>> /\ ObjectOK(2, f)' /\ ObjectOK(1, g)'
    BY <1>3
  <2>2. PICK n : n = 2
    OBVIOUS
  <2>3. Depth' = n /\ AtDepth(stack', 1) = g /\ AtDepth(stack', 2) = f
    BY <2>1, <2>2 DEF Depth, AtDepth
  <2>4. \A h \in 1..n : \A k : k = AtDepth(stack', h) => ObjectOK(h, k)'
    <3>1. \A h \in 1..n : h = 1 \/ h = 2
      BY <2>2
    <3> QED
      BY <2>1, <2>3, <3>1
  <2> QED
    BY <2>3, <2>4, ObjectsFrom
<1> QED
  BY <1>1, <1>2, <1>3

\* A call about no object knows it.
LEMMA AloneOK ==
    ASSUME NEW f, NEW h, Alone(f)
    PROVE  ObjectOK(h, f)'
BY DEF Alone, ObjectOK, OnObject, Syncing, Inserting, Resting, Ending

\* A request that deletes nothing and leaves the rings of deleted objects alone
LEMMA RequestC ==
    ASSUME CInv, QInv', ObjectsOK', deleted' = deleted,
           destroyed \subseteq destroyed', destroyed' \subseteq Objects, whenUnused' \subseteq destroyed',
           \A x \in deleted : q'[x].length = q[x].length
    PROVE  CInv'
BY DEF CInv, DestroyedFirst, DeletedEmpty

\* Sync works on an object that exists.
LEMMA SyncC ==
    ASSUME CInv, QInv', NEW x \in Objects, Sync(x)
    PROVE  CInv'
<1>1. PICK f : f = CallOf("synced", NoOp, x, InvalidPosition)
  OBVIOUS
<1>2. /\ x \notin destroyed /\ UNCHANGED <<q, objVars>>
      /\ stack' = <<f>> \/ \E c : stack' = <<Flush(c), f>>
  BY <1>1 DEF Sync, Usable
<1>3. ObjectOK(1, f)'
  BY <1>1, <1>2 DEF CallOf, ObjectOK, OnObject, Syncing, Inserting, Resting, Ending, objVars
<1>4. ObjectsOK'
  BY <1>2, <1>3, FlushAlone, AloneOK, ObjectsStart
<1> QED
  BY <1>2, <1>4, RequestC DEF objVars, CInv, DestroyedFirst

\* TossContents works on an object that exists.
LEMMA TossContentsC ==
    ASSUME CInv, QInv', NEW x \in Objects, TossContents(x)
    PROVE  CInv'
<1>1. /\ x \notin destroyed /\ UNCHANGED objVars /\ stack = <<>>
      /\ stack' = <<>> \/ \E c : stack' = <<Delete(c)>> \o <<>>
      /\ \/ q' = q
         \/ \E r : q' = [q EXCEPT ![x] = r]
  <2>1. x \notin destroyed /\ UNCHANGED objVars /\ stack = <<>>
    BY DEF TossContents, Usable
  <2>2. \/ Toss(x, <<>>)
        \/ q' = [q EXCEPT ![x].data[q[x].tail].tossed = TRUE] /\ stack' = stack
    BY DEF TossContents
  <2>3. CASE Toss(x, <<>>)
    BY <2>1, <2>3 DEF Toss
  <2>4. CASE q' = [q EXCEPT ![x].data[q[x].tail].tossed = TRUE] /\ stack' = stack
    <3>1. q' = [q EXCEPT ![x] = [q[x] EXCEPT !.data[q[x].tail].tossed = TRUE]]
      BY <2>4
    <3> QED
      BY <2>1, <2>4, <3>1
  <2> QED
    BY <2>1, <2>2, <2>3, <2>4
<1>2. stack' = <<>> \/ \E c : stack' = <<Delete(c)>>
  <2>1. ASSUME NEW c, stack' = <<Delete(c)>> \o <<>> PROVE stack' = <<Delete(c)>>
    <3>1. PICK d : d = Delete(c)
      OBVIOUS
    <3>2. <<d>> \o <<>> = <<d>>
      OBVIOUS
    <3> QED
      BY <2>1, <3>1, <3>2
  <2> QED
    BY <1>1, <2>1
<1>3. ObjectsOK'
  BY <1>2, FlushAlone, AloneOK, ObjectsStart
<1>4. \A y \in deleted : q'[y].length = q[y].length
  <2> TAKE y \in deleted
  <2>1. y \in Objects /\ y # x /\ q \in [Objects -> Ring]
    BY <1>1 DEF CInv, DestroyedFirst, QInv, Types
  <2> QED
    BY <1>1, <2>1
<1> QED
  BY <1>1, <1>3, <1>4, RequestC DEF objVars, CInv, DestroyedFirst

\* An object is deleted at once, or when its entries are gone, or by the call that waits for
\* its dependents.
LEMMA DestroyC ==
    ASSUME CInv, QInv', NEW x \in Objects, Destroy(x)
    PROVE  CInv'
<1>1. PICK f : f = CallOf("destroyed", NoOp, x, InvalidPosition)
  OBVIOUS
<1>2. PICK g : g = [f EXCEPT !.at = "delete"]
  OBVIOUS
<1>3. PICK e : e = AllSync(x)
  OBVIOUS
<1>4. /\ x \notin destroyed /\ deleted' = deleted /\ destroyed' = destroyed \cup {x} /\ q' = q
      /\ \/ x \in Borrowed /\ stack' = <<e, g>> /\ whenUnused' = whenUnused
         \/ q[x].length = 0 /\ stack' = <<g>> /\ whenUnused' = whenUnused
         \/ /\ stack' = <<f>> \/ \E c : stack' = <<Delete(c), f>>
            /\ whenUnused' = whenUnused
         \/ stack' = <<>> /\ whenUnused' = whenUnused \cup {x}
  BY <1>1, <1>2, <1>3 DEF Destroy, Usable
<1>5. x \notin deleted /\ x \notin whenUnused
  BY <1>4 DEF CInv, DestroyedFirst
<1>6. /\ f.at = "destroyed" /\ f.obj = x /\ g.at = "delete" /\ g.obj = x
      /\ e.at = "allDependents" /\ e.obj = x
  BY <1>1, <1>2, <1>3 DEF CallOf, AllSync
<1>7. ObjectOK(2, e)' \/ x \notin Borrowed
  BY <1>6 DEF ObjectOK, OnObject, Syncing, Inserting, Resting, Ending
<1>8. whenUnused' = whenUnused => ObjectOK(1, f)'
  BY <1>4, <1>5, <1>6 DEF ObjectOK, OnObject, Syncing, Inserting, Resting, Ending
<1>9. x \in Borrowed => ObjectOK(1, g)'
  BY <1>4, <1>6 DEF ObjectOK, OnObject, Syncing, Inserting, Resting, Ending
<1>10. q[x].length = 0 /\ stack' = <<g>> => ObjectOK(1, g)'
  <2>1. stack' = <<g>> => Depth' = 1
    BY DEF Depth
  <2> QED
    BY <1>4, <1>5, <1>6, <2>1 DEF ObjectOK, OnObject, Syncing, Inserting, Resting, Ending
<1>11. ObjectsOK'
  BY <1>4, <1>7, <1>8, <1>9, <1>10, FlushAlone, AloneOK, ObjectsStart
<1> QED
  BY <1>4, <1>11, RequestC DEF CInv, DestroyedFirst

\* A temporary is destroyed when an operation is inserted that reads it; the same operation
\* may write it.
LEMMA InsertC ==
    ASSUME CInv, QInv', NEW call \in Calls, Insert(call)
    PROVE  CInv'
<1>1. PICK o : o = inserted + 1
  OBVIOUS
<1>2. PICK f : f = CallOf("toss", o, call.dst, InvalidPosition)
  OBVIOUS
<1>3. PICK sources : sources = {call.src[i] : i \in DOMAIN call.src}
  OBVIOUS
<1>4. /\ \A i \in DOMAIN call.src : call.src[i] \notin destroyed
      /\ call.dst \notin destroyed /\ deleted' = deleted
      /\ stack' = <<f>>
      /\ destroyed' = destroyed \cup (sources \cap Temps)
      /\ whenUnused' = whenUnused \cup (sources \cap Temps)
  BY <1>1, <1>2, <1>3 DEF Insert, Usable
<1>5. q' = [x \in Objects |-> AddDependents(q[x], o, Uses(call, x))]
  BY <1>1 DEF Insert
<1>6. o \in Ops
  <2>1. inserted < MaxOps /\ inserted \in 0..MaxOps
    BY DEF Insert, CInv, QInv, Types
  <2> QED
    BY <1>1, <2>1, QueueAssumption DEF Ops
<1>7. ops'[o].src = call.src
  <2>1. ops \in [Ops -> Op]
    BY DEF CInv, QInv, Types
  <2>2. PICK n : NewOperation(call, o, n)
    BY DEF NewOperation
  <2>3. ops' = [ops EXCEPT ![o] =
                [state |-> "live", covers |-> call.covers, flush |-> call.flush,
                 src |-> call.src,
                 srcPos |-> [i \in DOMAIN call.src |-> q'[call.src[i]].tail],
                 srcOp |-> [i \in DOMAIN call.src |-> Creator(call.src[i])],
                 dst |-> call.dst, dstPos |-> InvalidPosition,
                 refCount |-> 0, evaluated |-> FALSE, deleteMe |-> TRUE,
                 reads |-> [i \in DOMAIN call.src |-> wanted[call.src[i]]],
                 over |-> IF call.covers THEN Unknown ELSE wanted[call.dst]]]
    BY <1>1, <1>5 DEF Insert
  <2>4. ops' = [ops EXCEPT ![o] = n] /\ n.src = call.src
    BY <2>2, <2>3 DEF NewOperation
  <2> QED
    BY <1>6, <2>1, <2>4
<1>8. call.src \in Seq(Objects) /\ DOMAIN call.src = 1..Len(call.src)
  BY QueueAssumption DEF Call
<1>9. call.dst \notin destroyed' \/ Reading(o, call.dst)'
  <2>1. call.dst \in sources => Reading(o, call.dst)'
    <3>1. call.dst \in sources => \E i \in 1..Len(call.src) : call.src[i] = call.dst
      BY <1>3, <1>8
    <3> QED
      BY <1>7, <3>1 DEF Reading
  <2> QED
    BY <1>4, <2>1
<1>10. ObjectOK(1, f)'
  BY <1>2, <1>9 DEF CallOf, ObjectOK, OnObject, Syncing, Inserting, Resting, Ending
<1>11. ObjectsOK'
  BY <1>4, <1>10, ObjectsStart
<1>12. \A y \in deleted : q'[y].length = q[y].length
  <2> TAKE y \in deleted
  <2>1. y \in Objects /\ y \in destroyed
    BY DEF CInv, DestroyedFirst
  <2>2. {i \in DOMAIN call.src : call.src[i] = y} = {}
    BY <1>4, <2>1
  <2>3. Uses(call, y) = 0
    BY <2>2, FS_EmptySet DEF Uses
  <2>4. q'[y] = AddDependents(q[y], o, 0)
    BY <1>5, <2>1, <2>3
  <2> QED
    BY <2>4 DEF AddDependents
<1>13. sources \subseteq Objects
  BY <1>3, <1>8
<1> QED
  BY <1>4, <1>11, <1>12, <1>13, RequestC DEF CInv, DestroyedFirst

\* Every step keeps the invariant of the objects.
LEMMA NextC == CInv /\ [Next]_vars => CInv'
<1> SUFFICES ASSUME CInv, [Next]_vars PROVE CInv'
  OBVIOUS
<1>1. QInv'
  BY NextQ DEF CInv
<1> USE <1>1
<1>2. CASE Step
  <2>1. CASE DeleteSource
    BY <2>1, DeleteSourceC
  <2>2. CASE DeleteDestination
    BY <2>2, DeleteDestinationC
  <2>3. CASE StartFlush \/ FinishFlush
    BY <2>3, FlushC
  <2>4. CASE ReadSource \/ WriteDestination \/ Compute
    BY <2>4, ExecuteC
  <2>5. CASE NextEntry \/ FlushCreator \/ AdvanceEntry \/ Evaluate
    BY <2>5, SyncingC
  <2>6. CASE Evaluated
    BY <2>6, EvaluatedC
  <2>7. CASE FlushDependents \/ SyncAllDependents
    BY <2>7, DependentsC
  <2>8. CASE TossCovered
    BY <2>8, TossCoveredC
  <2>9. CASE FlushHead \/ SyncHead
    BY <2>9, HeadC
  <2>10. CASE SetOp
    BY <2>10, SetOpC
  <2>11. CASE DestroyFlushed
    BY <2>11, DestroyFlushedC
  <2>12. CASE Synced
    BY <2>12, SyncedC
  <2>13. CASE DestroyedObject
    BY <2>13, DestroyedObjectC
  <2> QED
    BY <1>2, <2>1, <2>2, <2>3, <2>4, <2>5, <2>6, <2>7, <2>8, <2>9, <2>10, <2>11, <2>12, <2>13
    DEF Step
<1>3. CASE Request
  <2>1. CASE \E call \in Calls : Insert(call)
    BY <2>1, InsertC
  <2>2. CASE \E x \in Objects : Sync(x)
    BY <2>2, SyncC
  <2>3. CASE \E x \in Objects : TossContents(x)
    BY <2>3, TossContentsC
  <2>4. CASE \E x \in Objects : Destroy(x)
    BY <2>4, DestroyC
  <2> QED
    BY <1>3, <2>1, <2>2, <2>3, <2>4 DEF Request
<1>4. CASE UNCHANGED vars
  <2>1. UNCHANGED <<q, ops, stack, destroyed, whenUnused, deleted>>
    BY <1>4 DEF vars, objVars
  <2>2. ObjectsOK'
    BY <2>1 DEF CInv, ObjectsOK, ObjectOK, Depth, CallAt, AtDepth, Reading
  <2> QED
    BY <2>1, <2>2 DEF CInv, DestroyedFirst, DeletedEmpty
<1> QED
  BY <1>2, <1>3, <1>4 DEF Next

\* The invariant of the objects holds at first.
LEMMA InitC == Init => CInv
<1> SUFFICES ASSUME Init PROVE CInv
  OBVIOUS
<1>1. QInv /\ stack = <<>> /\ destroyed = {} /\ whenUnused = {} /\ deleted = {}
  BY InitQ DEF Init
<1>2. ObjectsOK
  BY <1>1 DEF ObjectsOK, Depth
<1> QED
  BY <1>1, <1>2 DEF CInv, DestroyedFirst, DeletedEmpty

\* The invariant says that the objects of all calls exist.
LEMMA ObjectsFollow == CInv => ObjectsOutlive
<1> SUFFICES ASSUME CInv, NEW n \in DOMAIN stack PROVE stack[n].obj \notin deleted \ Borrowed
  BY DEF ObjectsOutlive
<1>1. stack \in Seq(Frame)
  BY DEF CInv, QInv, Types
<1>2. Depth \in Nat /\ n \in 1..Depth
  BY <1>1, LenProperties DEF Depth
<1>3. PICK h : h = Depth + 1 - n
  OBVIOUS
<1>4. h \in 1..Depth /\ CallAt(h) = stack[n]
  <2>1. h \in 1..Depth /\ Len(stack) + 1 - h = n
    BY <1>2, <1>3 DEF Depth
  <2> QED
    BY <2>1 DEF CallAt, AtDepth
<1> QED
  BY <1>4, ObjectsStay

\* No call in progress works on an object that has been deleted, unless the application owns
\* its storage: however many operations wait for an object, it is deleted after the last call
\* that uses it has returned (xil_destroy(), cleanup(), creatorCleanup()).
THEOREM ObjectsOutliveCalls == Spec => []ObjectsOutlive
<1>1. Init => CInv
  BY InitC
<1>2. CInv /\ [Next]_vars => CInv'
  BY NextC
<1>3. CInv => ObjectsOutlive
  BY ObjectsFollow
<1> QED
  BY <1>1, <1>2, <1>3, PTL DEF Spec

\* When the application lends no storage, a call in progress works on an operation and an
\* object that still exist.
THEOREM CallersCorrect ==
  ASSUME Borrowed = {}
  PROVE  Spec => []CallersLive
<1>1. Init => CInv
  BY InitC
<1>2. CInv /\ [Next]_vars => CInv'
  BY NextC
<1>3. CInv => CallersLive
  <2> SUFFICES ASSUME CInv PROVE CallersLive
    OBVIOUS
  <2>1. ObjectsOutlive /\ OperationsLive
    BY ObjectsFollow, CallersFollow DEF CInv
  <2> QED
    BY <2>1 DEF CallersLive, ObjectsOutlive, OperationsLive
<1> QED
  BY <1>1, <1>2, <1>3, PTL DEF Spec
============================================================================
