---------------------------- MODULE DagLockProof ----------------------------
(***************************************************************************)
(* Theorems about DagLock, for any number of threads, objects and calls.   *)
(*                                                                         *)
(* The first one: references are walked under the DAG manager's mutex.     *)
(* The inductive invariant adds what the record of a thread looks like, so *)
(* that it is known where a thread is after a step.                        *)
(*                                                                         *)
(* The others: the counts of the references are exact, and no mutex is     *)
(* left locked, when no two threads lock() the same object.  One inductive *)
(* invariant, CountingInv, serves the counts and the DAGs; the mutexes of  *)
(* the manager and of the objects need only the places of the threads      *)
(* (HeldInv).  The holders of a reference are                              *)
(* counted in five parts - objects, locked objects, operations, threads,   *)
(* samples -, and every action moves references between a few of them: the *)
(* Balance lemmas turn "this function changed in one place" into "the      *)
(* count must have grown by that much".  Exact counts keep a reference     *)
(* that is held leading to its DAG, which is what the thread that has the  *)
(* DAG's mutex needs to unlock it.                                         *)
(***************************************************************************)
EXTENDS DagLock, FiniteSetTheorems, TLAPS

IsThread(w) ==
    w = [at |-> w.at, op |-> w.op, ref |-> w.ref, samples |-> w.samples, i |-> w.i,
         obj |-> w.obj, dag1 |-> w.dag1, dag2 |-> w.dag2]

Inv == /\ thread = [t \in Threads |-> thread[t]]
       /\ \A t \in Threads : IsThread(thread[t])
       /\ WalksAlone

\* Where a thread has to hold the manager's mutex.
Walking == {"iterate", "inside"}
----------------------------------------------------------------------------
LEMMA InitInv == Init => Inv
  BY DEF Init, Inv, IsThread, Idle, WalksAlone, At

\* One thread goes on as w: if it walks on it has the manager's mutex, and it
\* does not take it from one that walks.
LEMMA ThreadReplaced ==
    ASSUME Inv, NEW t \in Threads, NEW w, IsThread(w),
           thread' = [thread EXCEPT ![t] = w],
           w.at \in Walking => manager' = t,
           manager' = manager \/ manager \in {t, Nobody}
    PROVE  Inv'
<1>1. thread' = [u \in Threads |-> IF u = t THEN w ELSE thread[u]]
  BY DEF Inv
<1>2. ASSUME NEW u \in Threads
      PROVE  /\ IsThread(thread'[u])
             /\ thread'[u].at \in Walking => manager' = u
  <2>1. CASE u = t
    BY <1>1, <2>1
  <2>2. CASE u # t
    <3>1. thread'[u] = thread[u]
      BY <1>1, <2>2
    <3>2. IsThread(thread[u]) /\ (thread[u].at \in Walking => manager = u)
      BY DEF Inv, WalksAlone, At, Walking
    <3>3. manager = u => manager' = u
      BY <2>2, LockAssumption
    <3> QED
      BY <3>1, <3>2, <3>3
  <2> QED
    BY <2>1, <2>2
<1>3. thread' = [u \in Threads |-> thread'[u]]
  BY <1>1
<1> QED
  BY <1>2, <1>3 DEF Inv, IsThread, WalksAlone, At, Walking

\* What a thread looks like, and where it is, when its record has changed.
LEMMA IdleThread == IsThread(Idle)
  BY DEF IsThread, Idle

\* The fields of such a record can be named,
LEMMA Fields ==
    ASSUME NEW z, IsThread(z)
    PROVE  \E a, o, r, s, i, x, d1, d2 :
              z = [at |-> a, op |-> o, ref |-> r, samples |-> s, i |-> i,
                   obj |-> x, dag1 |-> d1, dag2 |-> d2]
  BY Zenon DEF IsThread

\* and it is one again when a field has got another value.
LEMMA SetAt ==
    ASSUME NEW z, IsThread(z), NEW l, NEW w, w = [z EXCEPT !.at = l]
    PROVE  IsThread(w) /\ w.at = l
<1>1. PICK a, o, r, s, i, x, d1, d2 :
          z = [at |-> a, op |-> o, ref |-> r, samples |-> s, i |-> i,
               obj |-> x, dag1 |-> d1, dag2 |-> d2]
  BY Fields
<1> QED
  BY <1>1 DEF IsThread

LEMMA SetI ==
    ASSUME NEW z, IsThread(z), NEW v1, NEW w, w = [z EXCEPT !.i = v1]
    PROVE  IsThread(w) /\ w.at = z.at
<1>1. PICK a, o, r, s, i, x, d1, d2 :
          z = [at |-> a, op |-> o, ref |-> r, samples |-> s, i |-> i,
               obj |-> x, dag1 |-> d1, dag2 |-> d2]
  BY Fields
<1> QED
  BY <1>1 DEF IsThread

LEMMA SetRef ==
    ASSUME NEW z, IsThread(z), NEW v1, NEW w, w = [z EXCEPT !.ref = v1]
    PROVE  IsThread(w) /\ w.at = z.at
<1>1. PICK a, o, r, s, i, x, d1, d2 :
          z = [at |-> a, op |-> o, ref |-> r, samples |-> s, i |-> i,
               obj |-> x, dag1 |-> d1, dag2 |-> d2]
  BY Fields
<1> QED
  BY <1>1 DEF IsThread

\* A thread stays where it is and keeps the manager's mutex if it walks.
LEMMA Stays ==
    ASSUME Inv, NEW t \in Threads, UNCHANGED thread,
           \/ manager' = manager
           \/ manager = t /\ thread[t].at \notin Walking
    PROVE  Inv'
<1>1. thread' = [thread EXCEPT ![t] = thread[t]]
  BY DEF Inv
<1>2. IsThread(thread[t])
  BY DEF Inv
<1>3. thread[t].at \in Walking => manager' = t
  BY DEF Inv, WalksAlone, At, Walking
<1> QED
  BY <1>1, <1>2, <1>3, ThreadReplaced

\* A call begins: nobody has the manager's mutex.
LEMMA SampleRefsInv ==
    ASSUME Inv, NEW t \in Threads, NEW call, SampleRefs(t, call)
    PROVE  Inv'
<1>1. PICK o, r, s : thread' = [thread EXCEPT ![t] =
                        [Idle EXCEPT !.at = "iterate", !.op = o, !.ref = r, !.samples = s]]
  BY DEF SampleRefs
<1>2. manager = Nobody /\ manager' = t
  BY DEF SampleRefs
<1>0. PICK w : w = [Idle EXCEPT !.at = "iterate", !.op = o, !.ref = r, !.samples = s]
  OBVIOUS
<1>3. IsThread(w)
  BY <1>0 DEF IsThread, Idle
<1>4. thread' = [thread EXCEPT ![t] = w]
  BY <1>0, <1>1
<1> QED
  BY <1>2, <1>3, <1>4, ThreadReplaced

LEMMA LockObjectInv ==
    ASSUME Inv, NEW t \in Threads, NEW x, LockObject(t, x)
    PROVE  Inv'
<1>1. /\ manager = Nobody
      /\ dagRef[x] = NoRef => manager' = manager
      /\ dagRef[x] # NoRef => manager' = t
  BY DEF LockObject
<1>2. CASE thread' = [thread EXCEPT ![t] = [Idle EXCEPT !.at = "mutex", !.obj = x]]
  <2>0. PICK w : w = [Idle EXCEPT !.at = "mutex", !.obj = x]
    OBVIOUS
  <2>1. IsThread(w) /\ w.at = "mutex"
    BY <2>0 DEF IsThread, Idle
  <2>3. thread' = [thread EXCEPT ![t] = w]
    BY <1>2, <2>0
  <2> QED
    BY <1>1, <1>2, <2>1, <2>3, ThreadReplaced DEF Walking
<1>3. CASE thread' = [thread EXCEPT ![t] = [Idle EXCEPT !.at = "dag", !.obj = x, !.ref = dagRef[x]]]
  <2>0. PICK w : w = [Idle EXCEPT !.at = "dag", !.obj = x, !.ref = dagRef[x]]
    OBVIOUS
  <2>1. IsThread(w) /\ w.at = "dag"
    BY <2>0 DEF IsThread, Idle
  <2>3. thread' = [thread EXCEPT ![t] = w]
    BY <1>3, <2>0
  <2> QED
    BY <1>1, <1>3, <2>1, <2>3, ThreadReplaced DEF Walking
<1> QED
  BY <1>2, <1>3 DEF LockObject

\* The loop over the objects keeps the manager's mutex.
LEMMA IterateInv ==
    ASSUME Inv, NEW t \in Threads, SetObjectRef(t) \/ BeginMerge(t) \/ EndIterate(t)
    PROVE  Inv'
<1>1. manager = t /\ manager' = t
  BY DEF SetObjectRef, BeginMerge, EndIterate, Has
<1>2. CASE thread' = [thread EXCEPT ![t] = [thread[t] EXCEPT !.i = thread[t].i + 1]]
  <2>0. PICK w : w = [thread[t] EXCEPT !.i = thread[t].i + 1]
    OBVIOUS
  <2>1. IsThread(thread[t])
    BY DEF Inv
  <2>2. IsThread(w) /\ w.at = thread[t].at
    BY <2>0, <2>1, SetI
  <2>3. thread' = [thread EXCEPT ![t] = w]
    BY <1>2, <2>0
  <2> QED
    BY <1>1, <1>2, <2>2, <2>3, ThreadReplaced DEF Walking
<1>3. CASE thread' = [thread EXCEPT ![t] = [thread[t] EXCEPT !.at = "first", !.dag1 = dagOf[thread[t].ref],
            !.dag2 = dagOf[thread[t].samples[thread[t].i]]]]
  <2>0. PICK w : w = [thread[t] EXCEPT !.at = "first", !.dag1 = dagOf[thread[t].ref],
            !.dag2 = dagOf[thread[t].samples[thread[t].i]]]
    OBVIOUS
  <2>1. IsThread(thread[t])
    BY DEF Inv
  <2>2. IsThread(w) /\ w.at = "first"
    <3>1. PICK a, o1, r1, s1, i1, x1, d1, d2 :
            thread[t] = [at |-> a, op |-> o1, ref |-> r1, samples |-> s1, i |-> i1,
               obj |-> x1, dag1 |-> d1, dag2 |-> d2]
      BY <2>1, Fields
    <3> QED
      BY <2>0, <3>1 DEF IsThread
  <2>3. thread' = [thread EXCEPT ![t] = w]
    BY <1>3, <2>0
  <2> QED
    BY <1>1, <1>3, <2>2, <2>3, ThreadReplaced DEF Walking
<1>4. CASE thread' = [thread EXCEPT ![t] = [thread[t] EXCEPT !.at = "lock"]]
  <2>0. PICK w : w = [thread[t] EXCEPT !.at = "lock"]
    OBVIOUS
  <2>1. IsThread(thread[t])
    BY DEF Inv
  <2>2. IsThread(w) /\ w.at = "lock"
    BY <2>0, <2>1, SetAt
  <2>3. thread' = [thread EXCEPT ![t] = w]
    BY <1>4, <2>0
  <2> QED
    BY <1>1, <1>4, <2>2, <2>3, ThreadReplaced DEF Walking
<1> QED
  BY <1>2, <1>3, <1>4 DEF SetObjectRef, BeginMerge, EndIterate, Goto

\* mergeDAGs() comes back with the manager's mutex, whoever had it meanwhile.
LEMMA MergeInv ==
    ASSUME Inv, NEW t \in Threads, LockFirst(t) \/ LockSecond(t)
    PROVE  Inv'
<1>1. manager \in {t, Nobody} /\ manager' = t
  BY DEF LockFirst, LockSecond, HasAgain
<1>2. CASE thread' = [thread EXCEPT ![t] = [thread[t] EXCEPT !.at = "second"]]
  <2>0. PICK w : w = [thread[t] EXCEPT !.at = "second"]
    OBVIOUS
  <2>1. IsThread(thread[t])
    BY DEF Inv
  <2>2. IsThread(w) /\ w.at = "second"
    BY <2>0, <2>1, SetAt
  <2>3. thread' = [thread EXCEPT ![t] = w]
    BY <1>2, <2>0
  <2> QED
    BY <1>1, <1>2, <2>2, <2>3, ThreadReplaced DEF Walking
<1>3. CASE thread' = [thread EXCEPT ![t] = [thread[t] EXCEPT !.at = "iterate", !.i = 1]]
  <2>0. PICK w : w = [thread[t] EXCEPT !.at = "iterate", !.i = 1]
    OBVIOUS
  <2>1. IsThread(thread[t])
    BY DEF Inv
  <2>2. IsThread(w) /\ w.at = "iterate"
    <3>1. PICK a, o1, r1, s1, i1, x1, d1, d2 :
            thread[t] = [at |-> a, op |-> o1, ref |-> r1, samples |-> s1, i |-> i1,
               obj |-> x1, dag1 |-> d1, dag2 |-> d2]
      BY <2>1, Fields
    <3> QED
      BY <2>0, <3>1 DEF IsThread
  <2>3. thread' = [thread EXCEPT ![t] = w]
    BY <1>3, <2>0
  <2> QED
    BY <1>1, <1>3, <2>2, <2>3, ThreadReplaced DEF Walking
<1> QED
  BY <1>2, <1>3 DEF LockFirst, LockSecond, Goto

\* The DAG is locked, and the manager's mutex given up.
LEMMA LockDagInv ==
    ASSUME Inv, NEW t \in Threads, LockDag(t)
    PROVE  Inv'
<1>1. manager \in {t, Nobody}
  BY DEF LockDag, HasAgain
<1>2. CASE thread' = [thread EXCEPT ![t] = [thread[t] EXCEPT !.at = "insert", !.samples = <<>>]]
  <2>0. PICK w : w = [thread[t] EXCEPT !.at = "insert", !.samples = <<>>]
    OBVIOUS
  <2>1. IsThread(thread[t])
    BY DEF Inv
  <2>2. IsThread(w) /\ w.at = "insert"
    <3>1. PICK a, o1, r1, s1, i1, x1, d1, d2 :
            thread[t] = [at |-> a, op |-> o1, ref |-> r1, samples |-> s1, i |-> i1,
               obj |-> x1, dag1 |-> d1, dag2 |-> d2]
      BY <2>1, Fields
    <3> QED
      BY <2>0, <3>1 DEF IsThread
  <2>3. thread' = [thread EXCEPT ![t] = w]
    BY <1>2, <2>0
  <2> QED
    BY <1>1, <1>2, <2>2, <2>3, ThreadReplaced DEF Walking
<1> QED
  BY <1>2 DEF LockDag

LEMMA LockObjectDagInv ==
    ASSUME Inv, NEW t \in Threads, LockObjectDag(t)
    PROVE  Inv'
<1>1. /\ manager \in {t, Nobody}
      /\ \/ thread' = [thread EXCEPT ![t] = [thread[t] EXCEPT !.at = "hold"]]
         \/ /\ manager' = t
            /\ \/ thread' = [thread EXCEPT ![t] = [thread[t] EXCEPT !.at = "inside"]]
               \/ thread' = [thread EXCEPT ![t] =
                               [thread[t] EXCEPT !.ref = dagRef[thread[t].obj]]]
  BY DEF LockObjectDag, HasAgain, Goto
<1>2. CASE thread' = [thread EXCEPT ![t] = [thread[t] EXCEPT !.at = "hold"]]
  <2>0. PICK w : w = [thread[t] EXCEPT !.at = "hold"]
    OBVIOUS
  <2>1. IsThread(thread[t])
    BY DEF Inv
  <2>2. IsThread(w) /\ w.at = "hold"
    BY <2>0, <2>1, SetAt
  <2>3. thread' = [thread EXCEPT ![t] = w]
    BY <1>2, <2>0
  <2> QED
    BY <1>1, <1>2, <2>2, <2>3, ThreadReplaced DEF Walking
<1>3. CASE manager' = t /\ thread' = [thread EXCEPT ![t] = [thread[t] EXCEPT !.at = "inside"]]
  <2>0. PICK w : w = [thread[t] EXCEPT !.at = "inside"]
    OBVIOUS
  <2>1. IsThread(thread[t])
    BY DEF Inv
  <2>2. IsThread(w) /\ w.at = "inside"
    BY <2>0, <2>1, SetAt
  <2>3. thread' = [thread EXCEPT ![t] = w]
    BY <1>3, <2>0
  <2> QED
    BY <1>1, <1>3, <2>2, <2>3, ThreadReplaced DEF Walking
<1>4. CASE manager' = t /\ thread' = [thread EXCEPT ![t] = [thread[t] EXCEPT !.ref = dagRef[thread[t].obj]]]
  <2>0. PICK w : w = [thread[t] EXCEPT !.ref = dagRef[thread[t].obj]]
    OBVIOUS
  <2>1. IsThread(thread[t])
    BY DEF Inv
  <2>2. IsThread(w) /\ w.at = thread[t].at
    BY <2>0, <2>1, SetRef
  <2>3. thread' = [thread EXCEPT ![t] = w]
    BY <1>4, <2>0
  <2> QED
    BY <1>1, <1>4, <2>2, <2>3, ThreadReplaced DEF Walking
<1> QED
  BY <1>1, <1>2, <1>3, <1>4

\* The mutex of an object is locked, inside or alone, and what was locked is
\* unlocked again.
LEMMA HoldInv ==
    ASSUME Inv, NEW t \in Threads, LockMutexInside(t) \/ LockMutex(t) \/ UnlockDag(t)
                                  \/ UnlockMutex(t) \/ EndInsert(t)
    PROVE  Inv'
<1>1. manager' = manager \/ manager = t
  BY DEF LockMutexInside, LockMutex, UnlockDag, UnlockMutex, EndInsert,
     Inv, WalksAlone, At
<1>2. CASE thread' = [thread EXCEPT ![t] = [thread[t] EXCEPT !.at = "hold"]]
  <2>0. PICK w : w = [thread[t] EXCEPT !.at = "hold"]
    OBVIOUS
  <2>1. IsThread(thread[t])
    BY DEF Inv
  <2>2. IsThread(w) /\ w.at = "hold"
    BY <2>0, <2>1, SetAt
  <2>3. thread' = [thread EXCEPT ![t] = w]
    BY <1>2, <2>0
  <2> QED
    BY <1>1, <1>2, <2>2, <2>3, ThreadReplaced DEF Walking
<1>3. CASE thread' = [thread EXCEPT ![t] = [thread[t] EXCEPT !.at = "unlock"]]
  <2>0. PICK w : w = [thread[t] EXCEPT !.at = "unlock"]
    OBVIOUS
  <2>1. IsThread(thread[t])
    BY DEF Inv
  <2>2. IsThread(w) /\ w.at = "unlock"
    BY <2>0, <2>1, SetAt
  <2>3. thread' = [thread EXCEPT ![t] = w]
    BY <1>3, <2>0
  <2> QED
    BY <1>1, <1>3, <2>2, <2>3, ThreadReplaced DEF Walking
<1>4. CASE thread' = [thread EXCEPT ![t] = Idle]
  <2>0. PICK w : w = Idle
    OBVIOUS
  <2>1. IsThread(w) /\ w.at = "idle"
    BY <2>0, IdleThread DEF Idle
  <2>3. thread' = [thread EXCEPT ![t] = w]
    BY <1>4, <2>0
  <2> QED
    BY <1>1, <1>4, <2>1, <2>3, ThreadReplaced DEF Walking
<1> QED
  BY <1>2, <1>3, <1>4 DEF LockMutexInside, LockMutex, UnlockDag, UnlockMutex, EndInsert,
     Goto

LEMMA SleepInv ==
    ASSUME Inv, NEW t \in Threads, Sleep(t)
    PROVE  Inv'
<1>1. UNCHANGED thread /\ manager = t /\ thread[t].at \notin Walking
  BY DEF Sleep, Wait, Has, At, Walking
<1> QED
  BY <1>1, Stays

LEMMA NextInv == Inv /\ [Next]_vars => Inv'
<1> SUFFICES ASSUME Inv, [Next]_vars PROVE Inv'
  OBVIOUS
<1>1. CASE UNCHANGED vars
  BY <1>1 DEF vars, Inv, IsThread, WalksAlone, At
<1>2. ASSUME NEW t \in Threads, Step(t) PROVE Inv'
  BY <1>2, IterateInv, SleepInv, MergeInv, LockDagInv, LockObjectDagInv, HoldInv
  DEF Step
<1>3. ASSUME NEW t \in Threads, DestroyOp(t) PROVE Inv'
  <2>1. UNCHANGED <<thread, manager>>
    BY <1>3 DEF DestroyOp
  <2> QED
    BY <2>1, Stays
<1> QED
  BY <1>1, <1>2, <1>3, SampleRefsInv, LockObjectInv DEF Next

\* A thread that walks the references of its objects holds managerMutex, for any
\* number of threads, however often merging and locking gave it up before.
THEOREM WalksUnderManager == Spec => []WalksAlone
<1>1. Spec => []Inv
  BY InitInv, NextInv, PTL DEF Spec
<1>2. Inv => WalksAlone
  BY DEF Inv
<1> QED
  BY <1>1, <1>2, PTL
----------------------------------------------------------------------------
\* How many hold a reference, and counting them

\* The elements of S that f takes to r
Uses(S, f, r) == {y \in S : f[y] = r}

Same(a, b) == IF a = b THEN 1 ELSE 0

\* The samples of all threads that are r
Samples(th, r) ==
    UNION {{<<"sample", t, i>> : i \in {j \in DOMAIN th[t].samples :
                                          th[t].samples[j] = r}} : t \in Threads}

\* The reference a thread holds, but for its samples
Own(w) == IF w.at \in {"hold", "unlock"} THEN NoRef ELSE w.ref
Owned(th) == [u \in Threads |-> Own(th[u])]
----------------------------------------------------------------------------
\* How often a reference occurs in a sequence
LEMMA TimesNone == ASSUME NEW r PROVE Times(r, <<>>) = 0
<1>1. {i \in DOMAIN <<>> : <<>>[i] = r} = {}
  OBVIOUS
<1> QED
  BY <1>1, FS_EmptySet DEF Times

LEMMA TimesOne == ASSUME NEW r, NEW a PROVE Times(r, <<a>>) = Same(a, r)
<1>1. {i \in DOMAIN <<a>> : <<a>>[i] = r} = IF a = r THEN {1} ELSE {}
  OBVIOUS
<1> QED
  BY <1>1, FS_EmptySet, FS_Singleton DEF Times, Same

\* The places where it occurs are finitely many.
LEMMA TimesFinite ==
    ASSUME NEW R, NEW s \in Seq(R), NEW r
    PROVE  /\ IsFiniteSet({i \in DOMAIN s : s[i] = r})
           /\ Times(r, s) \in Nat
<1>1. {i \in DOMAIN s : s[i] = r} \in SUBSET (1..Len(s)) /\ Len(s) \in Int
  OBVIOUS
<1>2. IsFiniteSet(1..Len(s))
  BY <1>1, FS_Interval
<1>3. IsFiniteSet({i \in DOMAIN s : s[i] = r})
  BY ONLY <1>1, <1>2, FS_Subset
<1> QED
  BY <1>3, FS_CardinalityType DEF Times

LEMMA TimesAppend ==
    ASSUME NEW R, NEW s \in Seq(R), NEW a \in R, NEW r
    PROVE  Times(r, Append(s, a)) = Times(r, s) + Same(a, r)
<1> DEFINE S == {i \in DOMAIN s : s[i] = r}
           n == Len(s) + 1
<1>1. {i \in DOMAIN Append(s, a) : Append(s, a)[i] = r} = IF a = r THEN S \cup {n} ELSE S
  <2>1. DOMAIN s = 1..Len(s) /\ DOMAIN Append(s, a) = 1..n /\ Len(s) \in Nat
    OBVIOUS
  <2>2. \A i \in 1..n : Append(s, a)[i] = IF i = n THEN a ELSE s[i]
    OBVIOUS
  <2>3. \A i \in 1..n : i \in 1..Len(s) <=> i # n
    BY <2>1
  <2>4. n \in 1..n /\ \A i \in 1..Len(s) : i \in 1..n
    BY <2>1
  <2> QED
    BY ONLY <2>1, <2>2, <2>3, <2>4
<1>2. n \notin S
  OBVIOUS
<1>3. IsFiniteSet(S)
  BY TimesFinite
<1>4. Cardinality(S \cup {n}) = Cardinality(S) + 1
  BY ONLY <1>2, <1>3, FS_AddElement
<1>5. Cardinality(S) \in Nat
  BY ONLY <1>3, FS_CardinalityType
<1>6. CASE a = r
  BY <1>1, <1>4, <1>6 DEF Times, Same
<1>7. CASE a # r
  <2>1. Times(r, Append(s, a)) = Cardinality(S) /\ Times(r, s) = Cardinality(S)
    BY <1>1, <1>7 DEF Times
  <2>2. Same(a, r) = 0
    BY <1>7 DEF Same
  <2> QED
    BY ONLY <1>5, <2>1, <2>2
<1> QED
  BY <1>6, <1>7
----------------------------------------------------------------------------
\* A function changes in one place.
Replaced(S, f, g, x, v) == g[x] = v /\ \A y \in S \ {x} : g[y] = f[y]

LEMMA UsesSet ==
    ASSUME NEW S, NEW f, NEW g, NEW x \in S, NEW v, NEW r,
           Replaced(S, f, g, x, v), IsFiniteSet(Uses(S, f, r))
    PROVE  /\ IsFiniteSet(Uses(S, g, r))
           /\ Cardinality(Uses(S, g, r))
                = Cardinality(Uses(S, f, r)) - Same(f[x], r) + Same(v, r)
<1> DEFINE A == Uses(S, f, r)
           B == A \ {x}
<1>1. /\ IsFiniteSet(B)
      /\ Cardinality(B) = Cardinality(A) - Same(f[x], r)
      /\ Cardinality(A) \in Int
  <2>1. x \in A <=> f[x] = r
    BY DEF Uses
  <2>2. IsFiniteSet(A)
    OBVIOUS
  <2> QED
    BY ONLY <2>1, <2>2, FS_RemoveElement, FS_CardinalityType DEF Same
<1>2. Uses(S, g, r) = IF v = r THEN B \cup {x} ELSE B
  BY DEF Uses, Replaced
<1>3. x \notin B
  OBVIOUS
<1> QED
  BY ONLY <1>1, <1>2, <1>3, FS_AddElement DEF Same

\* A function forgets the values in a set of places.
Forgotten(S, f, g, X) == \A y \in S : g[y] = IF y \in X THEN NoRef ELSE f[y]

LEMMA UsesForget ==
    ASSUME NEW S, NEW f, NEW g, NEW X \in SUBSET S, NEW r, r # NoRef,
           Forgotten(S, f, g, X), IsFiniteSet(Uses(S, f, r))
    PROVE  /\ IsFiniteSet(Uses(S, g, r))
           /\ Cardinality(Uses(S, g, r))
                = Cardinality(Uses(S, f, r)) - Cardinality({x \in X : f[x] = r})
           /\ Cardinality({x \in X : f[x] = r}) \in Nat
<1> DEFINE A == Uses(S, f, r)
           B == {x \in X : f[x] = r}
<1>1. IsFiniteSet(A) /\ B \in SUBSET A
  BY DEF Uses
<1>2. Uses(S, g, r) = A \ B
  BY DEF Uses, Forgotten
<1>3. A \cap B = B
  BY <1>1
<1>4. IsFiniteSet(B)
  BY ONLY <1>1, FS_Subset
<1> HIDE DEF A, B
<1>5. IsFiniteSet(A \ B) /\ Cardinality(A \ B) = Cardinality(A) - Cardinality(B)
  BY ONLY <1>1, <1>3, FS_Difference
<1>6. Cardinality(B) \in Nat
  BY ONLY <1>4, FS_CardinalityType
<1> QED
  BY <1>2, <1>5, <1>6 DEF A, B

\* A tag does not change the number of elements.
LEMMA Tagged ==
    ASSUME NEW S, IsFiniteSet(S), NEW tag
    PROVE  /\ IsFiniteSet({<<tag, x>> : x \in S})
           /\ Cardinality({<<tag, x>> : x \in S}) = Cardinality(S)
<1> DEFINE T == {<<tag, x>> : x \in S}
           f == [x \in S |-> <<tag, x>>]
<1>1. f \in [S -> T]
  OBVIOUS
<1>2. \A x, y \in S : f[x] = f[y] => x = y
  OBVIOUS
<1>3. \A z \in T : \E x \in S : f[x] = z
  OBVIOUS
<1> HIDE DEF f, T
<1>4. f \in Bijection(S, T)
  BY ONLY <1>1, <1>2, <1>3 DEF Bijection, Injection, Surjection, IsInjective
<1>5. IsFiniteSet(T) /\ Cardinality(T) = Cardinality(S)
  BY <1>4, FS_Bijection DEF ExistsBijection
<1> QED
  BY <1>5 DEF T

LEMMA TaggedSample ==
    ASSUME NEW S, IsFiniteSet(S), NEW t
    PROVE  /\ IsFiniteSet({<<"sample", t, i>> : i \in S})
           /\ Cardinality({<<"sample", t, i>> : i \in S}) = Cardinality(S)
<1> DEFINE T == {<<"sample", t, i>> : i \in S}
           f == [i \in S |-> <<"sample", t, i>>]
<1>1. f \in [S -> T]
  OBVIOUS
<1>2. \A x, y \in S : f[x] = f[y] => x = y
  OBVIOUS
<1>3. \A z \in T : \E x \in S : f[x] = z
  OBVIOUS
<1> HIDE DEF f, T
<1>4. f \in Bijection(S, T)
  BY ONLY <1>1, <1>2, <1>3 DEF Bijection, Injection, Surjection, IsInjective
<1>5. IsFiniteSet(T) /\ Cardinality(T) = Cardinality(S)
  BY <1>4, FS_Bijection DEF ExistsBijection
<1> QED
  BY <1>5 DEF T

\* Two sets without a common element
LEMMA Disjoint ==
    ASSUME NEW A, NEW B, IsFiniteSet(A), IsFiniteSet(B), A \cap B = {}
    PROVE  /\ IsFiniteSet(A \cup B)
           /\ Cardinality(A \cup B) = Cardinality(A) + Cardinality(B)
           /\ Cardinality(A) \in Nat /\ Cardinality(B) \in Nat
<1>1. Cardinality(A) \in Nat /\ Cardinality(B) \in Nat
  BY FS_CardinalityType
<1>2. /\ IsFiniteSet(A \cup B)
      /\ Cardinality(A \cup B) = Cardinality(A) + Cardinality(B) - Cardinality({})
  BY FS_Union
<1> QED
  BY <1>1, <1>2, FS_EmptySet

\* Same thread drops its samples and has others.
LEMMA SamplesSet ==
    ASSUME NEW th1, NEW th2, NEW t \in Threads, NEW r,
           \A u \in Threads \ {t} : th2[u] = th1[u],
           NEW R, th1[t].samples \in Seq(R), th2[t].samples \in Seq(R),
           IsFiniteSet(Samples(th1, r))
    PROVE  /\ IsFiniteSet(Samples(th2, r))
           /\ Cardinality(Samples(th2, r)) = Cardinality(Samples(th1, r))
                 - Times(r, th1[t].samples) + Times(r, th2[t].samples)
<1> DEFINE Mine(th, u) == {<<"sample", u, i>> : i \in {j \in DOMAIN th[u].samples :
                                                       th[u].samples[j] = r}}
           Rest == UNION {Mine(th1, u) : u \in Threads \ {t}}
<1>1. /\ IsFiniteSet(Mine(th1, t)) /\ Cardinality(Mine(th1, t)) = Times(r, th1[t].samples)
      /\ IsFiniteSet(Mine(th2, t)) /\ Cardinality(Mine(th2, t)) = Times(r, th2[t].samples)
  <2>1. /\ IsFiniteSet({j \in DOMAIN th1[t].samples : th1[t].samples[j] = r})
        /\ IsFiniteSet({j \in DOMAIN th2[t].samples : th2[t].samples[j] = r})
    BY TimesFinite
  <2> QED
    BY ONLY <2>1, TaggedSample DEF Times
<1>2. Samples(th1, r) = Rest \cup Mine(th1, t)
  BY DEF Samples
<1>3. Samples(th2, r) = Rest \cup Mine(th2, t)
  <2>1. \A u \in Threads \ {t} : Mine(th2, u) = Mine(th1, u)
    OBVIOUS
  <2>2. Samples(th2, r) = UNION {Mine(th2, u) : u \in Threads}
    BY DEF Samples
  <2> HIDE DEF Mine
  <2> QED
    BY <2>1, <2>2
<1>4. Rest \cap Mine(th1, t) = {} /\ Rest \cap Mine(th2, t) = {}
  OBVIOUS
<1>5. IsFiniteSet(Rest)
  <2>1. Rest \in SUBSET Samples(th1, r)
    BY <1>2
  <2> QED
    BY ONLY <2>1, IsFiniteSet(Samples(th1, r)), FS_Subset
<1> HIDE DEF Mine, Rest
<1>6. /\ Cardinality(Rest \cup Mine(th1, t)) = Cardinality(Rest) + Times(r, th1[t].samples)
      /\ Cardinality(Rest) \in Nat /\ Times(r, th1[t].samples) \in Nat
  BY <1>1, <1>4, <1>5, Disjoint
<1>7. /\ IsFiniteSet(Rest \cup Mine(th2, t))
      /\ Cardinality(Rest \cup Mine(th2, t)) = Cardinality(Rest) + Times(r, th2[t].samples)
      /\ Times(r, th2[t].samples) \in Nat
  BY <1>1, <1>4, <1>5, Disjoint
<1> QED
  BY <1>2, <1>3, <1>6, <1>7

\* Who holds a reference: an object, one that is locked, an operation, a thread
\* and its samples
LEMMA HoldersAdded ==
    ASSUME NEW r,
           IsFiniteSet(Uses(Objects, dagRef, r)), IsFiniteSet(Uses(Objects, oldDagRef, r)),
           IsFiniteSet(Uses(Ops, opRef, r)), IsFiniteSet(Uses(Threads, Owned(thread), r)),
           IsFiniteSet(Samples(thread, r)), r # NoRef
    PROVE  Cardinality(Holders(r)) =
               Cardinality(Uses(Objects, dagRef, r)) + Cardinality(Uses(Objects, oldDagRef, r))
             + Cardinality(Uses(Ops, opRef, r)) + Cardinality(Uses(Threads, Owned(thread), r))
             + Cardinality(Samples(thread, r))
<1> DEFINE A == {<<"object", x>> : x \in Uses(Objects, dagRef, r)}
           B == {<<"locked", x>> : x \in Uses(Objects, oldDagRef, r)}
           C == {<<"operation", x>> : x \in Uses(Ops, opRef, r)}
           D == {<<"thread", x>> : x \in Uses(Threads, Owned(thread), r)}
           E == Samples(thread, r)
<1>1. /\ IsFiniteSet(A) /\ Cardinality(A) = Cardinality(Uses(Objects, dagRef, r))
      /\ IsFiniteSet(B) /\ Cardinality(B) = Cardinality(Uses(Objects, oldDagRef, r))
      /\ IsFiniteSet(C) /\ Cardinality(C) = Cardinality(Uses(Ops, opRef, r))
      /\ IsFiniteSet(D) /\ Cardinality(D) = Cardinality(Uses(Threads, Owned(thread), r))
  BY Tagged
<1>2. Holders(r) = (((A \cup B) \cup C) \cup D) \cup E
  <2>1. Uses(Objects, dagRef, r) = {y \in Objects : dagRef[y] = r}
    BY DEF Uses
  <2>2. Uses(Objects, oldDagRef, r) = {y \in Objects : oldDagRef[y] = r}
    BY DEF Uses
  <2>3. Uses(Ops, opRef, r) = {p \in Ops : opRef[p] = r}
    BY DEF Uses
  <2>4. Uses(Threads, Owned(thread), r)
          = {u \in Threads : thread[u].ref = r /\ thread[u].at \notin {"hold", "unlock"}}
    BY DEF Uses, Owned, Own
  <2> QED
    BY <2>1, <2>2, <2>3, <2>4, Zenon DEF Holders, Samples
<1>3. /\ A \cap B = {} /\ (A \cup B) \cap C = {} /\ ((A \cup B) \cup C) \cap D = {}
  OBVIOUS
<1>4. \A z \in E : z[1] = "sample"
  BY DEF Samples
<1>5. \A z \in A \cup B \cup C \cup D : z[1] # "sample"
  OBVIOUS
<1>6. (((A \cup B) \cup C) \cup D) \cap E = {}
  <2> HIDE DEF A, B, C, D, E
  <2> QED
    BY <1>4, <1>5
<1> HIDE DEF A, B, C, D, E
<1>7. IsFiniteSet(A \cup B) /\ Cardinality(A \cup B) = Cardinality(A) + Cardinality(B)
      /\ Cardinality(A) \in Nat /\ Cardinality(B) \in Nat
  BY ONLY <1>1, <1>3, Disjoint
<1>8. IsFiniteSet((A \cup B) \cup C)
      /\ Cardinality((A \cup B) \cup C) = Cardinality(A \cup B) + Cardinality(C)
      /\ Cardinality(C) \in Nat
  BY ONLY <1>1, <1>3, <1>7, Disjoint
<1>9. IsFiniteSet(((A \cup B) \cup C) \cup D)
      /\ Cardinality(((A \cup B) \cup C) \cup D) = Cardinality((A \cup B) \cup C) + Cardinality(D)
      /\ Cardinality(D) \in Nat
  BY ONLY <1>1, <1>3, <1>8, Disjoint
<1>10. IsFiniteSet(E) /\ E = Samples(thread, r)
  BY DEF E
<1>11. Cardinality((((A \cup B) \cup C) \cup D) \cup E)
         = Cardinality(((A \cup B) \cup C) \cup D) + Cardinality(E)
       /\ Cardinality(E) \in Nat
  BY ONLY <1>6, <1>9, <1>10, Disjoint
<1> QED
  BY <1>1, <1>2, <1>7, <1>8, <1>9, <1>10, <1>11
----------------------------------------------------------------------------
\* Where a thread is: before it has its DAG, or in lock() and unlock()
Before == {"iterate", "first", "second", "lock"}
Locking == {"dag", "inside", "mutex", "hold", "unlock"}

Record == [at : {"idle", "insert"} \cup Before \cup Locking,
           op : Ops \cup {0}, ref : Refs \cup {NoRef}, samples : Seq(Refs \cup {NoRef}),
           i : Nat \ {0}, obj : Objects \cup {NoObject},
           dag1 : Dags \cup {NoDag}, dag2 : Dags \cup {NoDag}]

Typed ==
    /\ thread \in [Threads -> Record]
    /\ dagRef \in [Objects -> Refs \cup {NoRef}]
    /\ oldDagRef \in [Objects -> Refs \cup {NoRef}]
    /\ opRef \in [Ops -> Refs \cup {NoRef}]
    /\ opObjects \in [Ops -> Seq(Objects)]
    /\ dagOf \in [Refs -> Dags \cup {NoDag}]
    /\ dagMutex \in [Dags -> Threads \cup {Nobody}]
    /\ refCount \in [Refs -> Int]
    /\ dags \in 0..MaxOps /\ inserted \in 0..MaxOps /\ dags <= inserted

\* What a thread knows at every point of its call
CallOK(t, w) ==
    /\ w.at \in {"idle", "mutex"} => w.ref = NoRef
    /\ w.at \in Before \cup {"insert"} => w.op \in 1..inserted /\ w.ref # NoRef
    /\ w.at \in {"dag", "inside"} => w.ref # NoRef
    /\ w.at \notin Before => w.samples = <<>>
    /\ w.at \in Before => Len(w.samples) = Len(opObjects[w.op]) /\ opRef[w.op] = NoRef
    /\ w.at \in {"first", "second"} => w.i \in DOMAIN w.samples /\ w.samples[w.i] # NoRef
    /\ w.at \in Locking => w.obj \in Locks[t]
CallInv == \A t \in Threads : CallOK(t, thread[t])

\* Every insertion has an operation of its own.
OpInv ==
    /\ \A t, u \in Threads : t # u /\ thread[t].at \in Before /\ thread[u].at \in Before
          => thread[t].op # thread[u].op
    /\ \A o \in Ops : o > inserted => opRef[o] = NoRef

\* An object that has kept a reference for unlock() is locked.
LockedInv ==
    \A x \in Objects : oldDagRef[x] # NoRef => \E t \in Threads : At(t, "hold") /\ thread[t].obj = x

\* Only references that have been made are held.
KnownInv ==
    /\ \A x \in Objects : dagRef[x] <= dags /\ oldDagRef[x] <= dags
    /\ \A o \in Ops : opRef[o] <= dags
    /\ \A t \in Threads : /\ thread[t].ref <= dags
                          /\ \A k \in DOMAIN thread[t].samples : thread[t].samples[k] <= dags

\* A reference counts who holds it.
Counted(r) ==
    /\ IsFiniteSet(Uses(Objects, dagRef, r)) /\ IsFiniteSet(Uses(Objects, oldDagRef, r))
    /\ IsFiniteSet(Uses(Ops, opRef, r)) /\ IsFiniteSet(Uses(Threads, Owned(thread), r))
    /\ IsFiniteSet(Samples(thread, r))
    /\ refCount[r] =
             Cardinality(Uses(Objects, dagRef, r)) + Cardinality(Uses(Objects, oldDagRef, r))
           + Cardinality(Uses(Ops, opRef, r)) + Cardinality(Uses(Threads, Owned(thread), r))
           + Cardinality(Samples(thread, r))
CountInv == \A r \in Refs : Counted(r)

\* The thread that has a DAG's mutex holds a reference that leads to the DAG.
Claims(t, d) ==
    \/ (At(t, "insert") \/ At(t, "inside")) /\ dagOf[thread[t].ref] = d
    \/ At(t, "second") /\ dagOf[FirstRef(t)] = d
    \/ At(t, "hold") /\ oldDagRef[thread[t].obj] # NoRef /\ dagOf[oldDagRef[thread[t].obj]] = d
LeakInv == \A d \in Dags : dagMutex[d] # Nobody => Claims(dagMutex[d], d)

CountingInv == Typed /\ CallInv /\ OpInv /\ LockedInv /\ KnownInv /\ CountInv /\ LeakInv

\* No two threads lock the same object.
OwnLocks == \A t, u \in Threads : t # u => Locks[t] \cap Locks[u] = {}
----------------------------------------------------------------------------
\* Same thread goes on: the others stay where they are in their calls,
LEMMA CallKept ==
    ASSUME Typed, CallInv, NEW t \in Threads, NEW w \in Record,
           thread' = [thread EXCEPT ![t] = w],
           inserted' \in Nat, inserted <= inserted',
           \A u \in Threads \ {t} : thread[u].at \in Before =>
              /\ opObjects'[thread[u].op] = opObjects[thread[u].op]
              /\ opRef'[thread[u].op] = opRef[thread[u].op],
           CallOK(t, w)'
    PROVE  CallInv'
<1> SUFFICES ASSUME NEW u \in Threads PROVE CallOK(u, thread[u])'
  BY DEF CallInv
<1>1. CASE u = t
  BY <1>1 DEF Typed
<1>2. CASE u # t
  <2>1. thread'[u] = thread[u] /\ thread[u] \in Record
    BY <1>2 DEF Typed
  <2>2. CallOK(u, thread[u])
    BY DEF CallInv
  <2>3. thread[u].op \in 1..inserted => thread[u].op \in 1..inserted'
    BY DEF Typed
  <2> QED
    BY <1>2, <2>1, <2>2, <2>3 DEF CallOK
<1> QED
  BY <1>1, <1>2

\* and keep their operations for themselves.
LEMMA OpKept ==
    ASSUME Typed, CallInv, OpInv, NEW t \in Threads, NEW w \in Record,
           thread' = [thread EXCEPT ![t] = w],
           w.at \in Before => \/ thread[t].at \in Before /\ w.op = thread[t].op
                              \/ w.op > inserted,
           \A o \in Ops : o > inserted' => opRef'[o] = NoRef
    PROVE  OpInv'
<1>1. \A u \in Threads : thread'[u] = IF u = t THEN w ELSE thread[u]
  BY DEF Typed
<1>2. \A u \in Threads : thread[u].at \in Before => thread[u].op \in 1..inserted
  BY DEF CallInv, CallOK
<1>3. \A u \in Threads : thread[u].at \in Before => ~(thread[u].op > inserted)
  BY <1>2 DEF Typed
<1>4. ASSUME NEW u \in Threads, NEW v \in Threads, u # v,
             thread'[u].at \in Before, thread'[v].at \in Before
      PROVE  thread'[u].op # thread'[v].op
  BY <1>1, <1>3, <1>4 DEF OpInv
<1> QED
  BY <1>4 DEF OpInv

\* What a thread that goes on holds.
LEMMA ThreadCounts ==
    ASSUME Typed, CountInv, NEW t \in Threads, NEW w \in Record,
           thread' = [thread EXCEPT ![t] = w], NEW r \in Refs
    PROVE  /\ IsFiniteSet(Uses(Threads, Owned(thread'), r)) /\ IsFiniteSet(Samples(thread', r))
           /\ Cardinality(Uses(Threads, Owned(thread'), r))
                = Cardinality(Uses(Threads, Owned(thread), r))
                  - Same(Own(thread[t]), r) + Same(Own(w), r)
           /\ Cardinality(Samples(thread', r)) = Cardinality(Samples(thread, r))
                  - Times(r, thread[t].samples) + Times(r, w.samples)
           /\ Times(r, thread[t].samples) \in Nat /\ Times(r, w.samples) \in Nat
<1>1. \A u \in Threads : thread'[u] = IF u = t THEN w ELSE thread[u]
  BY DEF Typed
<1>2. /\ Replaced(Threads, Owned(thread), Owned(thread'), t, Own(w))
      /\ Owned(thread)[t] = Own(thread[t])
  BY <1>1 DEF Owned, Replaced
<1>3. Counted(r)
  BY DEF CountInv
<1>4. /\ IsFiniteSet(Uses(Threads, Owned(thread'), r))
      /\ Cardinality(Uses(Threads, Owned(thread'), r))
           = Cardinality(Uses(Threads, Owned(thread), r))
             - Same(Own(thread[t]), r) + Same(Own(w), r)
  <2>1. IsFiniteSet(Uses(Threads, Owned(thread), r))
    BY <1>3 DEF Counted
  <2> QED
    BY ONLY <1>2, <2>1, UsesSet, t \in Threads
<1>5. /\ thread[t].samples \in Seq(Refs \cup {NoRef})
      /\ w.samples \in Seq(Refs \cup {NoRef})
  BY DEF Typed, Record
<1>6. /\ IsFiniteSet(Samples(thread', r))
      /\ Cardinality(Samples(thread', r)) = Cardinality(Samples(thread, r))
             - Times(r, thread[t].samples) + Times(r, w.samples)
  <2>1. IsFiniteSet(Samples(thread, r))
    BY <1>3 DEF Counted
  <2>2. thread'[t] = w /\ \A u \in Threads \ {t} : thread'[u] = thread[u]
    BY <1>1
  <2>3. thread'[t].samples \in Seq(Refs \cup {NoRef})
    BY <1>5, <2>2
  <2>4. /\ IsFiniteSet(Samples(thread', r))
        /\ Cardinality(Samples(thread', r)) = Cardinality(Samples(thread, r))
             - Times(r, thread[t].samples) + Times(r, thread'[t].samples)
    BY ONLY <1>5, <2>1, <2>2, <2>3, SamplesSet, t \in Threads
  <2> QED
    BY <2>2, <2>4
<1> QED
  BY <1>4, <1>5, <1>6, TimesFinite

\* The count changes by what the thread, the objects and the operations take
\* and give back.
LEMMA Balance ==
    ASSUME Typed, CountInv, NEW t \in Threads, NEW w \in Record,
           thread' = [thread EXCEPT ![t] = w], NEW r \in Refs,
           NEW a \in Int, NEW b \in Int, NEW c \in Int,
           IsFiniteSet(Uses(Objects, dagRef', r)),
           Cardinality(Uses(Objects, dagRef', r)) = Cardinality(Uses(Objects, dagRef, r)) + a,
           IsFiniteSet(Uses(Objects, oldDagRef', r)),
           Cardinality(Uses(Objects, oldDagRef', r)) = Cardinality(Uses(Objects, oldDagRef, r)) + b,
           IsFiniteSet(Uses(Ops, opRef', r)),
           Cardinality(Uses(Ops, opRef', r)) = Cardinality(Uses(Ops, opRef, r)) + c,
           refCount'[r] = refCount[r] + a + b + c
                          - Same(Own(thread[t]), r) + Same(Own(w), r)
                          - Times(r, thread[t].samples) + Times(r, w.samples)
    PROVE  Counted(r)'
<1>1. Counted(r)
  BY DEF CountInv
<1>2. /\ Cardinality(Uses(Objects, dagRef, r)) \in Nat
      /\ Cardinality(Uses(Objects, oldDagRef, r)) \in Nat
      /\ Cardinality(Uses(Ops, opRef, r)) \in Nat
      /\ Cardinality(Uses(Threads, Owned(thread), r)) \in Nat
      /\ Cardinality(Samples(thread, r)) \in Nat
  BY <1>1, FS_CardinalityType DEF Counted
<1>3. Same(Own(thread[t]), r) \in Nat /\ Same(Own(w), r) \in Nat
  BY DEF Same
<1>4. /\ IsFiniteSet(Uses(Threads, Owned(thread'), r)) /\ IsFiniteSet(Samples(thread', r))
      /\ Cardinality(Uses(Threads, Owned(thread'), r))
           = Cardinality(Uses(Threads, Owned(thread), r))
             - Same(Own(thread[t]), r) + Same(Own(w), r)
      /\ Cardinality(Samples(thread', r)) = Cardinality(Samples(thread, r))
             - Times(r, thread[t].samples) + Times(r, w.samples)
      /\ Times(r, thread[t].samples) \in Nat /\ Times(r, w.samples) \in Nat
  BY ThreadCounts
<1>5. refCount[r] = Cardinality(Uses(Objects, dagRef, r)) + Cardinality(Uses(Objects, oldDagRef, r))
           + Cardinality(Uses(Ops, opRef, r)) + Cardinality(Uses(Threads, Owned(thread), r))
           + Cardinality(Samples(thread, r))
  BY <1>1 DEF Counted
<1>6. refCount'[r] =
             Cardinality(Uses(Objects, dagRef', r)) + Cardinality(Uses(Objects, oldDagRef', r))
           + Cardinality(Uses(Ops, opRef', r)) + Cardinality(Uses(Threads, Owned(thread'), r))
           + Cardinality(Samples(thread', r))
  BY <1>2, <1>3, <1>4, <1>5, SMTT(30)
<1> QED
  BY <1>4, <1>6 DEF Counted

\* A reference somebody holds has a count.
LEMMA UsesPositive ==
    ASSUME NEW S, NEW f, NEW r, NEW x \in S, f[x] = r, IsFiniteSet(Uses(S, f, r))
    PROVE  Cardinality(Uses(S, f, r)) \in Nat \ {0}
<1>1. Uses(S, f, r) # {}
  BY DEF Uses
<1> QED
  BY <1>1, FS_EmptySet, FS_CardinalityType

LEMMA SamplesPositive ==
    ASSUME NEW th, NEW r, NEW t \in Threads, NEW i \in DOMAIN th[t].samples,
           th[t].samples[i] = r, IsFiniteSet(Samples(th, r))
    PROVE  Cardinality(Samples(th, r)) \in Nat \ {0}
<1>1. <<"sample", t, i>> \in Samples(th, r)
  BY DEF Samples
<1> QED
  BY <1>1, FS_EmptySet, FS_CardinalityType

LEMMA CountPositive ==
    ASSUME NEW a \in Nat, NEW b \in Nat, NEW c \in Nat, NEW d \in Nat, NEW e \in Nat,
           a # 0 \/ b # 0 \/ c # 0 \/ d # 0 \/ e # 0
    PROVE  a + b + c + d + e # 0
  OBVIOUS

\* (after a step)
LEMMA HeldAfter ==
    ASSUME CountInv', NEW r \in Refs, r # NoRef,
           \/ \E x \in Objects : dagRef'[x] = r \/ oldDagRef'[x] = r
           \/ \E o \in Ops : opRef'[o] = r
           \/ \E t \in Threads : Own(thread'[t]) = r
           \/ \E t \in Threads : \E i \in DOMAIN thread'[t].samples : thread'[t].samples[i] = r
    PROVE  refCount'[r] # 0
<1>1. Counted(r)'
  BY DEF CountInv
<1>2. /\ Cardinality(Uses(Objects, dagRef', r)) \in Nat
      /\ Cardinality(Uses(Objects, oldDagRef', r)) \in Nat
      /\ Cardinality(Uses(Ops, opRef', r)) \in Nat
      /\ Cardinality(Uses(Threads, Owned(thread'), r)) \in Nat
      /\ Cardinality(Samples(thread', r)) \in Nat
  BY <1>1, FS_CardinalityType DEF Counted
<1>3. \/ Cardinality(Uses(Objects, dagRef', r)) # 0
      \/ Cardinality(Uses(Objects, oldDagRef', r)) # 0
      \/ Cardinality(Uses(Ops, opRef', r)) # 0
      \/ Cardinality(Uses(Threads, Owned(thread'), r)) # 0
      \/ Cardinality(Samples(thread', r)) # 0
  <2>0. /\ IsFiniteSet(Uses(Objects, dagRef', r)) /\ IsFiniteSet(Uses(Objects, oldDagRef', r))
        /\ IsFiniteSet(Uses(Ops, opRef', r)) /\ IsFiniteSet(Uses(Threads, Owned(thread'), r))
        /\ IsFiniteSet(Samples(thread', r))
    BY <1>1 DEF Counted
  <2>1. ASSUME NEW x \in Objects, dagRef'[x] = r \/ oldDagRef'[x] = r
        PROVE  \/ Cardinality(Uses(Objects, dagRef', r)) # 0
               \/ Cardinality(Uses(Objects, oldDagRef', r)) # 0
    BY ONLY <2>0, <2>1, UsesPositive
  <2>2. ASSUME NEW o \in Ops, opRef'[o] = r
        PROVE  Cardinality(Uses(Ops, opRef', r)) # 0
    BY ONLY <2>0, <2>2, UsesPositive
  <2>3. ASSUME NEW t \in Threads, Own(thread'[t]) = r
        PROVE  Cardinality(Uses(Threads, Owned(thread'), r)) # 0
    <3>1. Owned(thread')[t] = r
      BY <2>3 DEF Owned
    <3> QED
      BY ONLY <2>0, <3>1, UsesPositive, t \in Threads
  <2>4. ASSUME NEW t \in Threads, NEW i \in DOMAIN thread'[t].samples, thread'[t].samples[i] = r
        PROVE  Cardinality(Samples(thread', r)) # 0
    BY ONLY <2>0, <2>4, SamplesPositive
  <2> QED
    BY <2>1, <2>2, <2>3, <2>4
<1> QED
  BY <1>1, <1>2, <1>3, CountPositive DEF Counted

\* Same thread goes on: the mutexes the others have still belong to DAGs their
\* references lead to.
LEMMA LeakKept ==
    ASSUME Typed, CallInv, KnownInv, LeakInv, OwnLocks, CountInv',
           NEW t \in Threads, NEW w \in Record, thread' = [thread EXCEPT ![t] = w],
           \A x \in Objects \ Locks[t] : oldDagRef'[x] = oldDagRef[x],
           \A r \in Refs, d \in Dags :
              r <= dags /\ refCount'[r] # 0 /\ dagMutex'[d] # Nobody /\ dagOf[r] = d
              => dagOf'[r] = d,
           \A d \in Dags : dagMutex'[d] # Nobody
              => (dagMutex'[d] = t /\ Claims(t, d)') \/ (dagMutex'[d] # t /\ dagMutex'[d] = dagMutex[d])
    PROVE  LeakInv'
<1> SUFFICES ASSUME NEW d \in Dags, dagMutex'[d] # Nobody
             PROVE  Claims(dagMutex[d], d)'
  BY DEF LeakInv
<1>1. CASE dagMutex'[d] = t
  BY <1>1 DEF Claims, At, FirstRef, LowerFirst
<1>2. CASE dagMutex'[d] # t
  <2>1. PICK u \in Threads \ {t} : u = dagMutex[d] /\ u = dagMutex'[d]
    BY <1>2 DEF Typed
  <2>2. thread'[u] = thread[u] /\ thread[u] \in Record
    BY <2>1 DEF Typed
  <2>3. Claims(u, d) /\ CallOK(u, thread[u])
    BY <2>1 DEF LeakInv, CallInv
  <2>4. /\ \A r \in Refs : r # NoRef /\ r \in Nat
        /\ d # NoDag
    BY LockAssumption DEF Refs, NoRef, Dags, NoDag
  <2>5. CASE (At(u, "insert") \/ At(u, "inside")) /\ dagOf[thread[u].ref] = d
    <3>1. thread[u].ref \in Refs /\ Own(thread'[u]) = thread[u].ref /\ thread[u].ref <= dags
      BY <2>2, <2>3, <2>5 DEF CallOK, Record, Own, At, KnownInv, Before
    <3>2. refCount'[thread[u].ref] # 0
      BY <2>1, <2>4, <3>1, HeldAfter
    <3> QED
      BY <2>1, <2>2, <2>5, <3>1, <3>2 DEF Claims, At
  <2>6. CASE At(u, "second") /\ dagOf[FirstRef(u)] = d
    <3>1. /\ thread[u].ref \in Refs /\ Own(thread'[u]) = thread[u].ref
          /\ thread[u].ref <= dags
          /\ thread[u].i \in DOMAIN thread[u].samples
          /\ thread[u].samples[thread[u].i] \in Refs
          /\ thread[u].samples[thread[u].i] <= dags
      BY <2>2, <2>3, <2>6 DEF CallOK, Record, Own, At, KnownInv, Before
    <3>2. PICK r \in Refs : r = FirstRef(u) /\ r <= dags
      BY <3>1 DEF FirstRef
    <3>3. refCount'[r] # 0
      <4>1. r = thread[u].ref \/ r = thread[u].samples[thread[u].i]
        BY <3>2 DEF FirstRef
      <4> QED
        BY <2>1, <2>2, <2>4, <3>1, <4>1, HeldAfter
    <3>4. FirstRef(u)' = r
      BY <2>2, <3>2 DEF FirstRef, LowerFirst
    <3>5. dagOf'[r] = d
      BY <2>6, <3>2, <3>3
    <3>6. At(u, "second")'
      BY <2>2, <2>6 DEF At
    <3> QED
      BY <2>1, <3>4, <3>5, <3>6 DEF Claims, At, FirstRef, LowerFirst
  <2>7. CASE At(u, "hold") /\ oldDagRef[thread[u].obj] # NoRef /\ dagOf[oldDagRef[thread[u].obj]] = d
    <3>1. thread[u].obj \in Objects \ Locks[t]
      BY <2>1, <2>3, <2>7, LockAssumption DEF CallOK, At, Locking, OwnLocks
    <3>2. /\ oldDagRef'[thread[u].obj] = oldDagRef[thread[u].obj]
          /\ oldDagRef[thread[u].obj] \in Refs /\ oldDagRef[thread[u].obj] <= dags
      BY <2>7, <3>1 DEF Typed, KnownInv
    <3>3. refCount'[oldDagRef[thread[u].obj]] # 0
      BY <2>4, <3>1, <3>2, HeldAfter
    <3>4. dagOf'[oldDagRef[thread[u].obj]] = d
      BY <2>7, <3>2, <3>3
    <3> QED
      BY <2>1, <2>2, <2>7, <3>2, <3>4 DEF Claims, At
  <2> QED
    BY <2>3, <2>5, <2>6, <2>7 DEF Claims
<1> QED
  BY <1>1, <1>2

----------------------------------------------------------------------------
\* A thread that holds no lock of a DAG has none.
LEMMA ClaimsNothing ==
    ASSUME LeakInv, NEW t \in Threads,
           thread[t].at \notin {"insert", "inside", "second", "hold"}
    PROVE  \A d \in Dags : dagMutex[d] # t
  BY LockAssumption DEF LeakInv, Claims, At

\* What is kept for unlock() belongs to an object that is locked.
LEMMA LockedKept ==
    ASSUME Typed, LockedInv, NEW t \in Threads, NEW w \in Record,
           thread' = [thread EXCEPT ![t] = w],
           \A x \in Objects : oldDagRef'[x] # NoRef =>
              \/ oldDagRef[x] # NoRef /\ ~(thread[t].at = "hold" /\ thread[t].obj = x)
              \/ w.at = "hold" /\ w.obj = x
    PROVE  LockedInv'
<1>1. \A u \in Threads : thread'[u] = IF u = t THEN w ELSE thread[u]
  BY DEF Typed
<1>2. ASSUME NEW x \in Objects, oldDagRef'[x] # NoRef
      PROVE  \E u \in Threads : thread'[u].at = "hold" /\ thread'[u].obj = x
  <2>1. CASE w.at = "hold" /\ w.obj = x
    BY <1>1, <2>1
  <2>2. CASE oldDagRef[x] # NoRef /\ ~(thread[t].at = "hold" /\ thread[t].obj = x)
    <3>1. PICK u \in Threads : thread[u].at = "hold" /\ thread[u].obj = x
      BY <2>2 DEF LockedInv, At
    <3> QED
      BY <1>1, <2>2, <3>1
  <2> QED
    BY <1>2, <2>1, <2>2
<1> QED
  BY <1>2 DEF LockedInv, At

\* A step that changes no reference
LEMMA QuietStep ==
    ASSUME CountingInv, OwnLocks, NEW t \in Threads, NEW w \in Record,
           thread' = [thread EXCEPT ![t] = w],
           UNCHANGED <<refVars, dagRef, oldDagRef, opVars, inserted>>,
           Own(w) = Own(thread[t]), w.samples = thread[t].samples, w.ref <= dags,
           CallOK(t, w), thread[t].at # "hold",
           w.at \in Before => thread[t].at \in Before /\ w.op = thread[t].op,
           dagMutex' \in [Dags -> Threads \cup {Nobody}],
           \A d \in Dags : dagMutex'[d] # Nobody
              => (dagMutex'[d] = t /\ Claims(t, d)') \/ (dagMutex'[d] # t /\ dagMutex'[d] = dagMutex[d])
    PROVE  CountingInv'
<1> USE DEF CountingInv
<1>0. UNCHANGED <<dags, dagOf, refCount, dagRef, oldDagRef, opRef, opObjects, inserted>>
  BY DEF refVars, opVars
<1>1. Typed'
  BY <1>0 DEF Typed
<1>2. CallInv'
  <2>1. CallOK(t, w)'
    BY <1>0 DEF CallOK
  <2>2. /\ inserted' \in Nat /\ inserted <= inserted'
        /\ \A u \in Threads \ {t} : thread[u].at \in Before =>
              /\ opObjects'[thread[u].op] = opObjects[thread[u].op]
              /\ opRef'[thread[u].op] = opRef[thread[u].op]
    BY <1>0 DEF Typed
  <2> QED
    BY <2>1, <2>2, CallKept
<1>3. OpInv'
  <2>1. \A o \in Ops : o > inserted' => opRef'[o] = NoRef
    BY <1>0 DEF OpInv
  <2> QED
    BY <2>1, OpKept
<1>4. LockedInv'
  BY <1>0, LockedKept
<1>5. KnownInv'
  BY <1>0 DEF KnownInv, Typed
<1>6. CountInv'
  <2> SUFFICES ASSUME NEW r \in Refs PROVE Counted(r)'
    BY DEF CountInv
  <2>1. Counted(r)
    BY DEF CountInv
  <2>2. /\ Cardinality(Uses(Objects, dagRef, r)) \in Nat
        /\ Cardinality(Uses(Objects, oldDagRef, r)) \in Nat
        /\ Cardinality(Uses(Ops, opRef, r)) \in Nat
    BY <2>1, FS_CardinalityType DEF Counted
  <2>3. /\ Times(r, w.samples) = Times(r, thread[t].samples)
        /\ Times(r, w.samples) \in Nat
    BY ThreadCounts
  <2>4. refCount'[r] = refCount[r] + 0 + 0 + 0 - Same(Own(thread[t]), r) + Same(Own(w), r)
                          - Times(r, thread[t].samples) + Times(r, w.samples)
    BY <1>0, <2>3 DEF Same, Typed
  <2>5. /\ IsFiniteSet(Uses(Objects, dagRef', r)) /\ IsFiniteSet(Uses(Objects, oldDagRef', r))
        /\ IsFiniteSet(Uses(Ops, opRef', r))
        /\ Cardinality(Uses(Objects, dagRef', r)) = Cardinality(Uses(Objects, dagRef, r)) + 0
        /\ Cardinality(Uses(Objects, oldDagRef', r)) = Cardinality(Uses(Objects, oldDagRef, r)) + 0
        /\ Cardinality(Uses(Ops, opRef', r)) = Cardinality(Uses(Ops, opRef, r)) + 0
    BY <1>0, <2>1, <2>2 DEF Counted
  <2>6. Typed /\ CountInv /\ 0 \in Int
    OBVIOUS
  <2> QED
    BY ONLY <2>4, <2>5, <2>6, Balance, t \in Threads, w \in Record, r \in Refs,
       thread' = [thread EXCEPT ![t] = w]
<1>7. LeakInv'
  BY <1>0, <1>6, LeakKept
<1> QED
  BY <1>1, <1>2, <1>3, <1>4, <1>5, <1>6, <1>7

LEMMA IdleRecord == Idle \in Record
<1>1. <<>> \in Seq(Refs \cup {NoRef})
  OBVIOUS
<1> QED
  BY <1>1 DEF Idle, Record, NoRef, NoDag

\* Walking the objects, and waiting, change no reference.
LEMMA BeginMergeCounts ==
    ASSUME CountingInv, OwnLocks, NEW t \in Threads, BeginMerge(t)
    PROVE  CountingInv'
<1>1. /\ thread[t] \in Record /\ CallOK(t, thread[t]) /\ thread[t].at = "iterate"
      /\ thread[t].ref <= dags
  BY DEF CountingInv, Typed, CallInv, BeginMerge, At, KnownInv
<1>2. UNCHANGED <<refVars, dagRef, oldDagRef, opVars, inserted, dagMutex>>
  BY DEF BeginMerge, objVars
<1>3. \A d \in Dags : dagMutex[d] # t
  BY <1>1, ClaimsNothing DEF CountingInv
<1>4. dagMutex \in [Dags -> Threads \cup {Nobody}]
  BY DEF CountingInv, Typed
<1>5. thread[t].i <= Len(thread[t].samples) /\ thread[t].samples[thread[t].i] # NoRef
  BY DEF BeginMerge
<1>6. thread[t].i \in DOMAIN thread[t].samples /\ thread[t].samples[thread[t].i] \in Refs
      /\ thread[t].ref \in Refs
  BY <1>1, <1>5 DEF Record, CallOK, Before
<1>7. CASE thread' = [thread EXCEPT ![t].i = thread[t].i + 1]
  <2>1. PICK w : w = [thread[t] EXCEPT !.i = thread[t].i + 1]
    OBVIOUS
  <2>2. /\ w \in Record /\ thread' = [thread EXCEPT ![t] = w]
        /\ w.at = "iterate" /\ w.op = thread[t].op /\ w.ref = thread[t].ref
        /\ w.samples = thread[t].samples
    BY <1>1, <1>7, <2>1 DEF Record
  <2>3. CallOK(t, w) /\ Own(w) = Own(thread[t])
    BY <1>1, <2>2 DEF CallOK, Own, Before, Locking
  <2> QED
    BY <1>1, <1>2, <1>3, <1>4, <2>2, <2>3, QuietStep DEF Before
<1>8. CASE thread' = [thread EXCEPT ![t].at = "first", ![t].dag1 = dagOf[thread[t].ref],
                                    ![t].dag2 = dagOf[thread[t].samples[thread[t].i]]]
  <2>1. PICK w : w = [thread[t] EXCEPT !.at = "first", !.dag1 = dagOf[thread[t].ref],
                                       !.dag2 = dagOf[thread[t].samples[thread[t].i]]]
    OBVIOUS
  <2>0. /\ dagOf[thread[t].ref] \in Dags \cup {NoDag}
        /\ dagOf[thread[t].samples[thread[t].i]] \in Dags \cup {NoDag}
    BY <1>6 DEF CountingInv, Typed
  <2>2. /\ w \in Record /\ thread' = [thread EXCEPT ![t] = w]
        /\ w.at = "first" /\ w.op = thread[t].op /\ w.ref = thread[t].ref
        /\ w.samples = thread[t].samples /\ w.i = thread[t].i
    BY <1>1, <1>8, <2>0, <2>1 DEF Record, Before
  <2>3. CallOK(t, w) /\ Own(w) = Own(thread[t])
    BY <1>1, <1>5, <1>6, <2>2 DEF CallOK, Own, Before, Locking
  <2> QED
    BY <1>1, <1>2, <1>3, <1>4, <2>2, <2>3, QuietStep DEF Before
<1> QED
  BY <1>7, <1>8 DEF BeginMerge

LEMMA EndIterateCounts ==
    ASSUME CountingInv, OwnLocks, NEW t \in Threads, EndIterate(t)
    PROVE  CountingInv'
<1>1. /\ thread[t] \in Record /\ CallOK(t, thread[t]) /\ thread[t].at = "iterate"
      /\ thread[t].ref <= dags
  BY DEF CountingInv, Typed, CallInv, EndIterate, At, KnownInv
<1>2. UNCHANGED <<refVars, dagRef, oldDagRef, opVars, inserted, dagMutex>>
  BY DEF EndIterate, objVars
<1>3. \A d \in Dags : dagMutex[d] # t
  BY <1>1, ClaimsNothing DEF CountingInv
<1>4. dagMutex \in [Dags -> Threads \cup {Nobody}]
  BY DEF CountingInv, Typed
<1>5. PICK w : w = [thread[t] EXCEPT !.at = "lock"]
  OBVIOUS
<1>6. /\ w \in Record /\ thread' = [thread EXCEPT ![t] = w]
      /\ w.at = "lock" /\ w.op = thread[t].op /\ w.ref = thread[t].ref
      /\ w.samples = thread[t].samples
  BY <1>1, <1>5 DEF Record, Before, EndIterate, Goto
<1>7. CallOK(t, w) /\ Own(w) = Own(thread[t])
  BY <1>1, <1>6 DEF CallOK, Own, Before, Locking
<1> QED
  BY <1>1, <1>2, <1>3, <1>4, <1>6, <1>7, QuietStep DEF Before

LEMMA LockFirstCounts ==
    ASSUME CountingInv, OwnLocks, NEW t \in Threads, LockFirst(t)
    PROVE  CountingInv'
<1>1. /\ thread[t] \in Record /\ CallOK(t, thread[t]) /\ thread[t].at = "first"
      /\ thread[t].ref <= dags
  BY DEF CountingInv, Typed, CallInv, LockFirst, At, KnownInv
<1>2. UNCHANGED <<refVars, dagRef, oldDagRef, opVars, inserted>>
  BY DEF LockFirst, objVars
<1>3. \A d \in Dags : dagMutex[d] # t
  BY <1>1, ClaimsNothing DEF CountingInv
<1>4. dagMutex \in [Dags -> Threads \cup {Nobody}]
  BY DEF CountingInv, Typed
<1>5. CASE /\ dagMutex' = [dagMutex EXCEPT ![dagOf[FirstRef(t)]] = t]
           /\ thread' = [thread EXCEPT ![t].at = "second"]
  <2>1. PICK w : w = [thread[t] EXCEPT !.at = "second"]
    OBVIOUS
  <2>2. /\ w \in Record /\ thread' = [thread EXCEPT ![t] = w]
        /\ w.at = "second" /\ w.op = thread[t].op /\ w.ref = thread[t].ref
        /\ w.samples = thread[t].samples /\ w.i = thread[t].i
        /\ w.dag1 = thread[t].dag1 /\ w.dag2 = thread[t].dag2
    BY <1>1, <1>5, <2>1 DEF Record, Before
  <2>3. CallOK(t, w) /\ Own(w) = Own(thread[t])
    BY <1>1, <2>2 DEF CallOK, Own, Before, Locking
  <2>4. thread'[t] = w
    BY <2>2 DEF CountingInv, Typed
  <2>5. FirstRef(t)' = FirstRef(t) /\ At(t, "second")'
    BY <2>2, <2>4 DEF FirstRef, LowerFirst, At
  <2>6. dagMutex' \in [Dags -> Threads \cup {Nobody}]
    BY <1>4, <1>5
  <2>7. dagOf' = dagOf
    BY <1>2 DEF refVars
  <2>8. ASSUME NEW d \in Dags, dagMutex'[d] # Nobody
        PROVE  (dagMutex'[d] = t /\ Claims(t, d)') \/ (dagMutex'[d] # t /\ dagMutex'[d] = dagMutex[d])
    <3>1. CASE d = dagOf[FirstRef(t)]
      <4>1. Claims(t, d)'
        BY <2>5, <2>7, <3>1 DEF Claims
      <4>2. dagMutex'[d] = t
        BY <1>4, <1>5, <3>1
      <4> QED
        BY <4>1, <4>2
    <3>2. CASE d # dagOf[FirstRef(t)]
      BY <1>3, <1>4, <1>5, <3>2
    <3> QED
      BY <3>1, <3>2
  <2> QED
    BY <1>1, <1>2, <2>2, <2>3, <2>6, <2>8, QuietStep DEF Before
<1>6. CASE UNCHANGED dagMutex /\ thread' = [thread EXCEPT ![t].at = "iterate", ![t].i = 1]
  <2>1. PICK w : w = [thread[t] EXCEPT !.at = "iterate", !.i = 1]
    OBVIOUS
  <2>0. thread' = [thread EXCEPT ![t] = w]
    BY <1>6, <2>1 DEF CountingInv, Typed
  <2>2. /\ w \in Record /\ thread' = [thread EXCEPT ![t] = w]
        /\ w.at = "iterate" /\ w.op = thread[t].op /\ w.ref = thread[t].ref
        /\ w.samples = thread[t].samples
    <3>1. 1 \in Nat \ {0} /\ "iterate" \in Before
      BY DEF Before
    <3> QED
      BY <1>1, <2>0, <2>1, <3>1 DEF Record
  <2>3. CallOK(t, w) /\ Own(w) = Own(thread[t])
    BY <1>1, <2>2 DEF CallOK, Own, Before, Locking
  <2> QED
    BY <1>1, <1>2, <1>3, <1>4, <1>6, <2>2, <2>3, QuietStep DEF Before
<1> QED
  BY <1>5, <1>6 DEF LockFirst, Goto

LEMMA SleepCounts ==
    ASSUME CountingInv, NEW t \in Threads, Sleep(t)
    PROVE  CountingInv'
<1>1. UNCHANGED <<dags, dagOf, refCount, dagMutex, dagRef, oldDagRef, opRef, opObjects,
                  inserted, thread>>
  BY DEF Sleep, Wait, refVars, objVars, opVars
<1> QED
  BY <1>1 DEF CountingInv, Typed, CallInv, CallOK, OpInv, LockedInv, KnownInv, CountInv, Counted,
     LeakInv, Claims, At, FirstRef, LowerFirst

\* The object's own mutex
LEMMA LockMutexCounts ==
    ASSUME CountingInv, OwnLocks, NEW t \in Threads, LockMutex(t)
    PROVE  CountingInv'
<1>1. /\ thread[t] \in Record /\ CallOK(t, thread[t]) /\ thread[t].at = "mutex"
      /\ thread[t].ref <= dags
  BY DEF CountingInv, Typed, CallInv, LockMutex, At, KnownInv
<1>2. UNCHANGED <<refVars, dagRef, oldDagRef, opVars, inserted, dagMutex>>
  BY DEF LockMutex, objVars
<1>3. \A d \in Dags : dagMutex[d] # t
  BY <1>1, ClaimsNothing DEF CountingInv
<1>4. dagMutex \in [Dags -> Threads \cup {Nobody}]
  BY DEF CountingInv, Typed
<1>5. PICK w : w = [thread[t] EXCEPT !.at = "hold"]
  OBVIOUS
<1>6. /\ w \in Record /\ thread' = [thread EXCEPT ![t] = w]
      /\ w.at = "hold" /\ w.op = thread[t].op /\ w.ref = thread[t].ref
      /\ w.samples = thread[t].samples /\ w.obj = thread[t].obj
  BY <1>1, <1>5 DEF Record, Locking, LockMutex, Goto
<1>7. CallOK(t, w) /\ Own(w) = Own(thread[t])
  BY <1>1, <1>6 DEF CallOK, Own, Before, Locking
<1> QED
  BY <1>1, <1>2, <1>3, <1>4, <1>6, <1>7, QuietStep DEF Before

LEMMA UnlockMutexCounts ==
    ASSUME CountingInv, OwnLocks, NEW t \in Threads, UnlockMutex(t)
    PROVE  CountingInv'
<1>1. /\ thread[t] \in Record /\ CallOK(t, thread[t]) /\ thread[t].at = "unlock"
      /\ dags \in Nat
  BY DEF CountingInv, Typed, CallInv, UnlockMutex, At
<1>2. UNCHANGED <<refVars, dagRef, oldDagRef, opVars, inserted, dagMutex>>
  BY DEF UnlockMutex, objVars
<1>3. \A d \in Dags : dagMutex[d] # t
  BY <1>1, ClaimsNothing DEF CountingInv
<1>4. dagMutex \in [Dags -> Threads \cup {Nobody}]
  BY DEF CountingInv, Typed
<1>5. PICK w : w = Idle
  OBVIOUS
<1>6. /\ w \in Record /\ thread' = [thread EXCEPT ![t] = w]
      /\ w.at = "idle" /\ w.ref = NoRef /\ w.samples = <<>>
  BY <1>5, IdleRecord DEF Idle, UnlockMutex
<1>7. CallOK(t, w) /\ Own(w) = Own(thread[t]) /\ w.samples = thread[t].samples /\ w.ref <= dags
  BY <1>1, <1>6 DEF CallOK, Own, Before, Locking, NoRef
<1> QED
  BY <1>1, <1>2, <1>3, <1>4, <1>6, <1>7, QuietStep DEF Before

----------------------------------------------------------------------------
\* Counting up or down: a reference that is still used leads where it led.
LEMMA CountKeeps ==
    ASSUME Typed, NEW change, Count(change), \A r \in Refs : change[r] \in Int
    PROVE  /\ refCount' \in [Refs -> Int]
           /\ dagOf' \in [Refs -> Dags \cup {NoDag}]
           /\ \A r \in Refs : /\ refCount'[r] = refCount[r] + change[r]
                              /\ refCount'[r] # 0 => dagOf'[r] = dagOf[r]
  BY DEF Typed, Count

\* What a thread, an object or an operation takes or gives back.
LEMMA Changes ==
    ASSUME NEW r \in Refs
    PROVE  /\ \A a : Aquired(<<a>>)[r] = Same(a, r) /\ Released(<<a>>)[r] = -Same(a, r)
           /\ Aquired(<<>>)[r] = 0 /\ Released(<<>>)[r] = 0
           /\ \A a : Same(a, r) \in {0, 1}
<1>1. ASSUME NEW a PROVE Aquired(<<a>>)[r] = Same(a, r) /\ Released(<<a>>)[r] = -Same(a, r)
  BY TimesOne DEF Aquired, Released
<1>2. Aquired(<<>>)[r] = 0 /\ Released(<<>>)[r] = 0
  <2>1. Times(r, <<>>) = 0
    BY TimesNone
  <2>2. Aquired(<<>>)[r] = Times(r, <<>>) /\ Released(<<>>)[r] = -Times(r, <<>>)
    BY DEF Aquired, Released
  <2> QED
    BY ONLY <2>1, <2>2
<1> QED
  BY <1>1, <1>2 DEF Same

\* Same thread, the references of objects and the mutexes change.
LEMMA MoveStep ==
    ASSUME CountingInv, OwnLocks, NEW t \in Threads, NEW w \in Record,
           thread' = [thread EXCEPT ![t] = w],
           UNCHANGED <<dags, opVars, inserted>>,
           dagRef' \in [Objects -> Refs \cup {NoRef}],
           oldDagRef' \in [Objects -> Refs \cup {NoRef}],
           dagOf' \in [Refs -> Dags \cup {NoDag}],
           dagMutex' \in [Dags -> Threads \cup {Nobody}],
           refCount' \in [Refs -> Int],
           \A x \in Objects : dagRef'[x] <= dags /\ oldDagRef'[x] <= dags,
           w.ref <= dags, w.samples = thread[t].samples, CallOK(t, w),
           w.at \in Before => thread[t].at \in Before /\ w.op = thread[t].op,
           CountInv',
           \A x \in Objects : oldDagRef'[x] # NoRef =>
              \/ oldDagRef[x] # NoRef /\ ~(thread[t].at = "hold" /\ thread[t].obj = x)
              \/ w.at = "hold" /\ w.obj = x,
           \A x \in Objects \ Locks[t] : oldDagRef'[x] = oldDagRef[x],
           \A r \in Refs, d \in Dags :
              r <= dags /\ refCount'[r] # 0 /\ dagMutex'[d] # Nobody /\ dagOf[r] = d
              => dagOf'[r] = d,
           \A d \in Dags : dagMutex'[d] # Nobody
              => (dagMutex'[d] = t /\ Claims(t, d)') \/ (dagMutex'[d] # t /\ dagMutex'[d] = dagMutex[d])
    PROVE  CountingInv'
<1> USE DEF CountingInv
<1>0. UNCHANGED <<dags, opRef, opObjects, inserted>>
  BY DEF opVars
<1>1. Typed'
  BY <1>0 DEF Typed
<1>2. CallInv'
  <2>1. CallOK(t, w)'
    BY <1>0 DEF CallOK
  <2>2. /\ inserted' \in Nat /\ inserted <= inserted'
        /\ \A u \in Threads \ {t} : thread[u].at \in Before =>
              /\ opObjects'[thread[u].op] = opObjects[thread[u].op]
              /\ opRef'[thread[u].op] = opRef[thread[u].op]
    BY <1>0 DEF Typed
  <2> QED
    BY <2>1, <2>2, CallKept
<1>3. OpInv'
  <2>1. \A o \in Ops : o > inserted' => opRef'[o] = NoRef
    BY <1>0 DEF OpInv
  <2> QED
    BY <2>1, OpKept
<1>4. LockedInv'
  <2>1. Typed /\ LockedInv
    OBVIOUS
  <2>2. \A x \in Objects : oldDagRef'[x] # NoRef =>
              \/ oldDagRef[x] # NoRef /\ ~(thread[t].at = "hold" /\ thread[t].obj = x)
              \/ w.at = "hold" /\ w.obj = x
    OBVIOUS
  <2> QED
    BY ONLY <2>1, <2>2, LockedKept, t \in Threads, w \in Record,
       thread' = [thread EXCEPT ![t] = w]
<1>5. KnownInv'
  BY <1>0 DEF KnownInv, Typed
<1>7. LeakInv'
  BY LeakKept
<1> QED
  BY <1>1, <1>2, <1>3, <1>4, <1>5, <1>7

\* The parts of a count
LEMMA Parts ==
    ASSUME CountInv, NEW r \in Refs
    PROVE  /\ IsFiniteSet(Uses(Objects, dagRef, r)) /\ IsFiniteSet(Uses(Objects, oldDagRef, r))
           /\ IsFiniteSet(Uses(Ops, opRef, r))
           /\ Cardinality(Uses(Objects, dagRef, r)) \in Nat
           /\ Cardinality(Uses(Objects, oldDagRef, r)) \in Nat
           /\ Cardinality(Uses(Ops, opRef, r)) \in Nat
           /\ Cardinality(Uses(Objects, dagRef, r)) + 0 = Cardinality(Uses(Objects, dagRef, r))
           /\ Cardinality(Uses(Objects, oldDagRef, r)) + 0 = Cardinality(Uses(Objects, oldDagRef, r))
           /\ Cardinality(Uses(Ops, opRef, r)) + 0 = Cardinality(Uses(Ops, opRef, r))
<1>1. Counted(r)
  BY DEF CountInv
<1>2. /\ IsFiniteSet(Uses(Objects, dagRef, r)) /\ IsFiniteSet(Uses(Objects, oldDagRef, r))
      /\ IsFiniteSet(Uses(Ops, opRef, r))
  BY <1>1 DEF Counted
<1> QED
  BY <1>2, FS_CardinalityType

\* Only a thread takes and gives back references.
LEMMA BalanceThread ==
    ASSUME Typed, CountInv, NEW t \in Threads, NEW w \in Record,
           thread' = [thread EXCEPT ![t] = w], w.samples = thread[t].samples,
           UNCHANGED <<dagRef, oldDagRef, opRef>>,
           \A r \in Refs : refCount'[r] = refCount[r] - Same(Own(thread[t]), r) + Same(Own(w), r)
    PROVE  CountInv'
<1> SUFFICES ASSUME NEW r \in Refs PROVE Counted(r)'
  BY DEF CountInv
<1>1. PICK n \in Nat : n = Times(r, thread[t].samples) /\ n = Times(r, w.samples)
  BY ThreadCounts
<1>2. refCount'[r] = refCount[r] + 0 + 0 + 0 - Same(Own(thread[t]), r) + Same(Own(w), r)
                          - Times(r, thread[t].samples) + Times(r, w.samples)
  <2>1. refCount'[r] = refCount[r] - Same(Own(thread[t]), r) + Same(Own(w), r)
    OBVIOUS
  <2>2. refCount[r] \in Int /\ Same(Own(thread[t]), r) \in Int /\ Same(Own(w), r) \in Int
    BY DEF Same, Typed
  <2> QED
    BY ONLY <1>1, <2>1, <2>2
<1> QED
  BY ONLY <1>2, Parts, Balance, Typed, CountInv, t \in Threads, w \in Record, r \in Refs,
     UNCHANGED <<dagRef, oldDagRef, opRef>>, thread' = [thread EXCEPT ![t] = w], 0 \in Int

----------------------------------------------------------------------------
\* The insertion is over: the thread gives its reference back and unlocks its DAG.
LEMMA EndInsertCounts ==
    ASSUME CountingInv, OwnLocks, NEW t \in Threads, EndInsert(t)
    PROVE  CountingInv'
<1>1. /\ Typed /\ CountInv /\ LeakInv /\ dags \in Nat
      /\ thread[t] \in Record /\ CallOK(t, thread[t]) /\ thread[t].at = "insert"
      /\ dagMutex \in [Dags -> Threads \cup {Nobody}]
      /\ \A x \in Objects : dagRef[x] <= dags /\ oldDagRef[x] <= dags
  BY DEF CountingInv, Typed, CallInv, EndInsert, At, KnownInv
<1>2. /\ UNCHANGED <<dags, opVars, inserted>> /\ UNCHANGED <<dagRef, oldDagRef, opRef>>
      /\ dagMutex' = [dagMutex EXCEPT ![dagOf[thread[t].ref]] = Nobody]
      /\ Count(Released(<<thread[t].ref>>))
  BY DEF EndInsert, objVars, opVars
<1>3. PICK w : w = Idle
  OBVIOUS
<1>4. /\ w \in Record /\ thread' = [thread EXCEPT ![t] = w]
      /\ w.at = "idle" /\ w.ref = NoRef /\ w.samples = <<>>
  BY <1>3, IdleRecord DEF Idle, EndInsert
<1>5. CallOK(t, w) /\ w.samples = thread[t].samples /\ w.ref <= dags
  BY <1>1, <1>4 DEF CallOK, Before, Locking, NoRef
<1>6. \A r \in Refs : Released(<<thread[t].ref>>)[r] = -Same(thread[t].ref, r)
                      /\ Same(thread[t].ref, r) \in Int
  BY Changes DEF Same
<1>7. /\ refCount' \in [Refs -> Int] /\ dagOf' \in [Refs -> Dags \cup {NoDag}]
      /\ \A r \in Refs : /\ refCount'[r] = refCount[r] - Same(thread[t].ref, r)
                         /\ refCount'[r] # 0 => dagOf'[r] = dagOf[r]
  <2>1. \A r \in Refs : Released(<<thread[t].ref>>)[r] \in Int
    BY <1>6
  <2>2. \A r \in Refs : refCount[r] \in Int
    BY <1>1 DEF Typed
  <2> QED
    BY <1>1, <1>2, <1>6, <2>1, <2>2, CountKeeps
<1>8. CountInv'
  <2>1. \A r \in Refs : refCount'[r] = refCount[r] - Same(Own(thread[t]), r) + Same(Own(w), r)
    <3>1. Own(thread[t]) = thread[t].ref /\ Own(w) = NoRef
      BY <1>1, <1>4 DEF Own
    <3>2. \A r \in Refs : Same(NoRef, r) = 0 /\ refCount'[r] \in Int
      BY <1>7, LockAssumption DEF Same, Refs, NoRef
    <3> QED
      BY <1>7, <3>1, <3>2
  <2> QED
    BY <1>1, <1>2, <1>4, <1>5, <2>1, BalanceThread
<1>9. ASSUME NEW d \in Dags, dagMutex'[d] # Nobody
      PROVE  dagMutex'[d] # t /\ dagMutex'[d] = dagMutex[d]
  <2>1. dagMutex[d] = t => d = dagOf[thread[t].ref]
    BY <1>1, LockAssumption DEF LeakInv, Claims, At
  <2> QED
    BY <1>1, <1>2, <1>9, <2>1
<1>10. dagMutex' \in [Dags -> Threads \cup {Nobody}]
  BY <1>1, <1>2
<1> QED
  BY <1>1, <1>2, <1>4, <1>5, <1>7, <1>8, <1>9, <1>10, MoveStep DEF Before, Typed

\* lock() takes the reference of the object, if it has one.
LEMMA LockObjectCounts ==
    ASSUME CountingInv, OwnLocks, NEW t \in Threads, NEW x \in Locks[t], LockObject(t, x)
    PROVE  CountingInv'
<1>1. /\ Typed /\ CountInv /\ LeakInv /\ dags \in Nat
      /\ thread[t] \in Record /\ CallOK(t, thread[t]) /\ thread[t].at = "idle"
      /\ dagMutex \in [Dags -> Threads \cup {Nobody}]
      /\ \A y \in Objects : dagRef[y] <= dags /\ oldDagRef[y] <= dags
  BY DEF CountingInv, Typed, CallInv, LockObject, At, KnownInv
<1>2. UNCHANGED <<dags, opVars, inserted>> /\ UNCHANGED <<dagRef, oldDagRef, opRef, dagMutex>>
  BY DEF LockObject, objVars, opVars
<1>3. x \in Objects
  BY LockAssumption
<1>4. \A d \in Dags : dagMutex[d] # t
  BY <1>1, ClaimsNothing
<1>5. CASE dagRef[x] = NoRef
  <2>1. PICK w : w = [Idle EXCEPT !.at = "mutex", !.obj = x]
    OBVIOUS
  <2>2. /\ w \in Record /\ thread' = [thread EXCEPT ![t] = w]
        /\ w.at = "mutex" /\ w.ref = NoRef /\ w.samples = <<>> /\ w.obj = x
    <3>1. "mutex" \in Locking
      BY DEF Locking
    <3> QED
      BY <1>3, <1>5, <2>1, <3>1, IdleRecord DEF Idle, LockObject, Record
  <2>3. CallOK(t, w) /\ w.samples = thread[t].samples /\ w.ref <= dags
        /\ Own(w) = Own(thread[t])
    BY <1>1, <2>2 DEF CallOK, Before, Locking, NoRef, Own
  <2>4. UNCHANGED refVars
    BY <1>2, <1>5 DEF LockObject, refVars
  <2> QED
    BY <1>1, <1>2, <1>4, <2>2, <2>3, <2>4, QuietStep DEF Before
<1>6. CASE dagRef[x] # NoRef
  <2>1. PICK w : w = [Idle EXCEPT !.at = "dag", !.obj = x, !.ref = dagRef[x]]
    OBVIOUS
  <2>0. dagRef[x] \in Refs
    BY <1>1, <1>3, <1>6 DEF Typed
  <2>2. /\ w \in Record /\ thread' = [thread EXCEPT ![t] = w]
        /\ w.at = "dag" /\ w.ref = dagRef[x] /\ w.samples = <<>> /\ w.obj = x
    <3>1. "dag" \in Locking
      BY DEF Locking
    <3> QED
      BY <1>3, <1>6, <2>0, <2>1, <3>1, IdleRecord DEF Idle, LockObject, Record
  <2>3. CallOK(t, w) /\ w.samples = thread[t].samples /\ w.ref <= dags
    BY <1>1, <1>3, <1>6, <2>2 DEF CallOK, Before, Locking
  <2>4. \A r \in Refs : Aquired(<<dagRef[x]>>)[r] = Same(dagRef[x], r)
                        /\ Same(dagRef[x], r) \in Int
    BY Changes DEF Same
  <2>5. /\ refCount' \in [Refs -> Int] /\ dagOf' \in [Refs -> Dags \cup {NoDag}]
        /\ \A r \in Refs : /\ refCount'[r] = refCount[r] + Same(dagRef[x], r)
                           /\ refCount'[r] # 0 => dagOf'[r] = dagOf[r]
    <3>1. Count(Aquired(<<dagRef[x]>>))
      BY <1>6 DEF LockObject
    <3> QED
      BY <1>1, <2>4, <3>1, CountKeeps
  <2>6. CountInv'
    <3>1. \A r \in Refs : refCount'[r] = refCount[r] - Same(Own(thread[t]), r) + Same(Own(w), r)
      <4>1. Own(thread[t]) = NoRef /\ Own(w) = dagRef[x]
        BY <1>1, <2>2 DEF Own, CallOK
      <4>2. \A r \in Refs : Same(NoRef, r) = 0 /\ refCount[r] \in Int
        BY <1>1, LockAssumption DEF Same, Refs, NoRef, Typed
      <4> QED
        BY <2>4, <2>5, <4>1, <4>2
    <3> QED
      BY <1>1, <1>2, <2>2, <2>3, <3>1, BalanceThread
  <2> QED
    BY <1>1, <1>2, <1>4, <2>2, <2>3, <2>5, <2>6, MoveStep DEF Before, Typed
<1> QED
  BY <1>5, <1>6

\* lock() has got the object's own mutex and gives up the DAG that the object left.
LEMMA LockMutexInsideCounts ==
    ASSUME CountingInv, OwnLocks, NEW t \in Threads, LockMutexInside(t)
    PROVE  CountingInv'
<1>1. /\ Typed /\ CountInv /\ LeakInv /\ dags \in Nat
      /\ thread[t] \in Record /\ CallOK(t, thread[t]) /\ thread[t].at = "inside"
      /\ dagMutex \in [Dags -> Threads \cup {Nobody}] /\ thread[t].ref <= dags
      /\ \A x \in Objects : dagRef[x] <= dags /\ oldDagRef[x] <= dags
  BY DEF CountingInv, Typed, CallInv, LockMutexInside, At, KnownInv
<1>2. /\ UNCHANGED <<dags, opVars, inserted>> /\ UNCHANGED <<dagRef, oldDagRef, opRef>>
      /\ dagMutex' = [dagMutex EXCEPT ![dagOf[thread[t].ref]] = Nobody]
      /\ Count(Released(<<thread[t].ref>>))
  BY DEF LockMutexInside, objVars, opVars
<1>3. PICK w : w = [thread[t] EXCEPT !.at = "hold"]
  OBVIOUS
<1>4. /\ w \in Record /\ thread' = [thread EXCEPT ![t] = w]
      /\ w.at = "hold" /\ w.ref = thread[t].ref /\ w.samples = thread[t].samples
      /\ w.obj = thread[t].obj
  <2>1. "hold" \in Locking
    BY DEF Locking
  <2> QED
    BY <1>1, <1>3, <2>1 DEF LockMutexInside, Goto, Record
<1>5. CallOK(t, w)
  BY <1>1, <1>4 DEF CallOK, Before, Locking, NoRef
<1>6. \A r \in Refs : Released(<<thread[t].ref>>)[r] = -Same(thread[t].ref, r)
                      /\ Same(thread[t].ref, r) \in Int
  BY Changes DEF Same
<1>7. /\ refCount' \in [Refs -> Int] /\ dagOf' \in [Refs -> Dags \cup {NoDag}]
      /\ \A r \in Refs : /\ refCount'[r] = refCount[r] - Same(thread[t].ref, r)
                         /\ refCount'[r] # 0 => dagOf'[r] = dagOf[r]
  <2>1. \A r \in Refs : Released(<<thread[t].ref>>)[r] \in Int
    BY <1>6
  <2>2. \A r \in Refs : refCount[r] \in Int
    BY <1>1 DEF Typed
  <2> QED
    BY <1>1, <1>2, <1>6, <2>1, <2>2, CountKeeps
<1>8. CountInv'
  <2>1. \A r \in Refs : refCount'[r] = refCount[r] - Same(Own(thread[t]), r) + Same(Own(w), r)
    <3>1. Own(thread[t]) = thread[t].ref /\ Own(w) = NoRef
      BY <1>1, <1>4 DEF Own
    <3>2. \A r \in Refs : Same(NoRef, r) = 0 /\ refCount'[r] \in Int
      BY <1>7, LockAssumption DEF Same, Refs, NoRef
    <3> QED
      BY <1>7, <3>1, <3>2
  <2> QED
    BY <1>1, <1>2, <1>4, <1>5, <2>1, BalanceThread
<1>9. ASSUME NEW d \in Dags, dagMutex'[d] # Nobody
      PROVE  dagMutex'[d] # t /\ dagMutex'[d] = dagMutex[d]
  <2>1. dagMutex[d] = t => d = dagOf[thread[t].ref]
    BY <1>1, LockAssumption DEF LeakInv, Claims, At
  <2> QED
    BY <1>1, <1>2, <1>9, <2>1
<1>10. dagMutex' \in [Dags -> Threads \cup {Nobody}]
  BY <1>1, <1>2
<1> QED
  BY <1>1, <1>2, <1>4, <1>5, <1>7, <1>8, <1>9, <1>10, MoveStep DEF Before, Typed

\* Two DAGs are merged: the references of the second lead to the first, and both
\* are unlocked.
LEMMA LockSecondCounts ==
    ASSUME CountingInv, OwnLocks, NEW t \in Threads, LockSecond(t)
    PROVE  CountingInv'
<1>1. /\ Typed /\ CountInv /\ LeakInv /\ dags \in Nat
      /\ thread[t] \in Record /\ CallOK(t, thread[t]) /\ thread[t].at = "second"
      /\ dagMutex \in [Dags -> Threads \cup {Nobody}] /\ thread[t].ref <= dags
      /\ \A x \in Objects : dagRef[x] <= dags /\ oldDagRef[x] <= dags
  BY DEF CountingInv, Typed, CallInv, LockSecond, At, KnownInv
<1>2. /\ UNCHANGED <<dags, opVars, inserted>> /\ UNCHANGED <<dagRef, oldDagRef, opRef, refCount>>
      /\ dagMutex' = BothUnlocked(t)
  BY DEF LockSecond, objVars, opVars
<1>3. PICK w : w = [thread[t] EXCEPT !.at = "iterate", !.i = 1]
  OBVIOUS
<1>4. /\ w \in Record /\ thread' = [thread EXCEPT ![t] = w]
      /\ w.at = "iterate" /\ w.op = thread[t].op /\ w.ref = thread[t].ref
      /\ w.samples = thread[t].samples
  <2>1. 1 \in Nat \ {0} /\ "iterate" \in Before
    BY DEF Before
  <2>2. thread' = [thread EXCEPT ![t] = w]
    BY <1>1, <1>3 DEF LockSecond, Typed
  <2> QED
    BY <1>1, <1>3, <2>1, <2>2 DEF Record
<1>5. CallOK(t, w)
  BY <1>1, <1>4 DEF CallOK, Before, Locking
<1>6. CountInv'
  <2>1. Own(w) = Own(thread[t])
    BY <1>1, <1>4 DEF Own
  <2>2. \A r \in Refs : refCount'[r] = refCount[r] - Same(Own(thread[t]), r) + Same(Own(w), r)
    BY <1>1, <1>2, <2>1 DEF Same, Typed
  <2> QED
    BY <1>1, <1>2, <1>4, <2>2, BalanceThread
<1>7. /\ refCount' \in [Refs -> Int] /\ dagOf' \in [Refs -> Dags \cup {NoDag}]
      /\ dagRef' \in [Objects -> Refs \cup {NoRef}]
      /\ oldDagRef' \in [Objects -> Refs \cup {NoRef}]
  <2>1. thread[t].dag1 \in Dags \cup {NoDag}
    BY <1>1 DEF Record
  <2> QED
    BY <1>1, <1>2, <2>1 DEF Typed, LockSecond
<1>8. /\ dagMutex' \in [Dags -> Threads \cup {Nobody}]
      /\ \A d \in Dags : dagMutex'[d] = IF d \in {dagOf[FirstRef(t)], dagOf[SecondRef(t)]}
                                        THEN Nobody ELSE dagMutex[d]
  BY <1>1, <1>2 DEF BothUnlocked
<1>9. ASSUME NEW r \in Refs, NEW d \in Dags, dagMutex'[d] # Nobody, dagOf[r] = d
      PROVE  dagOf'[r] = d
  <2>1. CASE Unmerged(t)
    <3>1. thread[t].dag2 \in {dagOf[FirstRef(t)], dagOf[SecondRef(t)]}
      BY <2>1 DEF Unmerged, FirstRef, SecondRef
    <3>2. d # thread[t].dag2
      BY <1>8, <1>9, <3>1
    <3> QED
      BY <1>1, <1>9, <2>1, <3>2 DEF LockSecond
  <2>2. CASE ~Unmerged(t)
    BY <1>9, <2>2 DEF LockSecond
  <2> QED
    BY <2>1, <2>2
<1>10. ASSUME NEW d \in Dags, dagMutex'[d] # Nobody
       PROVE  dagMutex'[d] # t /\ dagMutex'[d] = dagMutex[d]
  <2>1. dagMutex[d] = t => d = dagOf[FirstRef(t)]
    BY <1>1, LockAssumption DEF LeakInv, Claims, At
  <2> QED
    BY <1>8, <1>10, <2>1
<1>11. /\ \A x \in Objects : dagRef'[x] <= dags /\ oldDagRef'[x] <= dags
       /\ w.ref <= dags /\ thread[t].at # "hold" /\ thread[t].at \in Before
       /\ \A x \in Objects : oldDagRef'[x] = oldDagRef[x]
  BY <1>1, <1>2, <1>4 DEF Before
<1>12. \A x \in Objects : oldDagRef'[x] # NoRef =>
              \/ oldDagRef[x] # NoRef /\ ~(thread[t].at = "hold" /\ thread[t].obj = x)
              \/ w.at = "hold" /\ w.obj = x
  BY <1>11
<1>13. \A x \in Objects \ Locks[t] : oldDagRef'[x] = oldDagRef[x]
  BY <1>11
<1>14. \A r \in Refs, d \in Dags :
              r <= dags /\ refCount'[r] # 0 /\ dagMutex'[d] # Nobody /\ dagOf[r] = d
              => dagOf'[r] = d
  BY <1>9
<1>15. \A d \in Dags : dagMutex'[d] # Nobody
              => (dagMutex'[d] = t /\ Claims(t, d)') \/ (dagMutex'[d] # t /\ dagMutex'[d] = dagMutex[d])
  BY <1>10
<1>16. dagMutex' \in [Dags -> Threads \cup {Nobody}]
  BY <1>8
<1> QED
  BY <1>2, <1>4, <1>5, <1>6, <1>7, <1>11, <1>12, <1>13, <1>14, <1>15, <1>16, MoveStep

\* An object gets the chosen reference in place of the one it may have.
LEMMA SetObjectRefCounts ==
    ASSUME CountingInv, OwnLocks, NEW t \in Threads, SetObjectRef(t)
    PROVE  CountingInv'
<1>0. At(t, "iterate")
  BY DEF SetObjectRef
<1>1. /\ Typed /\ CountInv /\ LeakInv /\ dags \in Nat
      /\ thread[t] \in Record /\ CallOK(t, thread[t]) /\ thread[t].at = "iterate"
      /\ dagMutex \in [Dags -> Threads \cup {Nobody}] /\ thread[t].ref <= dags
      /\ \A x \in Objects : dagRef[x] <= dags /\ oldDagRef[x] <= dags
  BY <1>0 DEF CountingInv, Typed, CallInv, At, KnownInv
<1>2. /\ UNCHANGED <<dags, opVars, inserted>> /\ UNCHANGED <<oldDagRef, opRef, opObjects, dagMutex>>
      /\ thread[t].i <= Len(thread[t].samples)
  BY DEF SetObjectRef, opVars
<1>3. PICK x \in Objects : x = opObjects[thread[t].op][thread[t].i]
  <2>1. thread[t].op \in Ops
    BY <1>1, LockAssumption DEF CallOK, Before, Ops, Typed
  <2>2. opObjects[thread[t].op] \in Seq(Objects)
        /\ Len(opObjects[thread[t].op]) = Len(thread[t].samples)
    BY <1>1, <2>1 DEF Typed, CallOK, Before
  <2>3. thread[t].i \in Nat \ {0}
    BY <1>1 DEF Record
  <2>4. thread[t].i \in 1..Len(opObjects[thread[t].op])
    BY <1>2, <2>2, <2>3
  <2> QED
    BY <2>2, <2>4
<1>4. PICK w : w = [thread[t] EXCEPT !.i = thread[t].i + 1]
  OBVIOUS
<1>5. /\ w \in Record /\ thread' = [thread EXCEPT ![t] = w]
      /\ w.at = "iterate" /\ w.op = thread[t].op /\ w.ref = thread[t].ref
      /\ w.samples = thread[t].samples
  <2>1. thread' = [thread EXCEPT ![t].i = thread[t].i + 1]
    BY DEF SetObjectRef
  <2> QED
    BY <1>1, <1>4, <2>1 DEF Record
<1>6. CallOK(t, w) /\ Own(w) = Own(thread[t]) /\ thread[t].ref \in Refs
  BY <1>1, <1>5 DEF CallOK, Before, Locking, Own, Record
<1>7. PICK old : /\ old = IF dagRef[x] = NoRef THEN <<>> ELSE <<dagRef[x]>>
                 /\ Count([r \in Refs |-> Aquired(<<thread[t].ref>>)[r] + Released(old)[r]])
                 /\ dagRef' = [dagRef EXCEPT ![x] = thread[t].ref]
  BY <1>3 DEF SetObjectRef
<1>8. \A r \in Refs : /\ Aquired(<<thread[t].ref>>)[r] = Same(thread[t].ref, r)
                      /\ Released(old)[r] = -Same(dagRef[x], r)
                      /\ Same(thread[t].ref, r) \in Int /\ Same(dagRef[x], r) \in Int
  <2>1. \A r \in Refs : r # NoRef /\ Same(NoRef, r) = 0
    BY LockAssumption DEF Refs, NoRef, Same
  <2>2. CASE dagRef[x] = NoRef
    BY <1>7, <2>1, <2>2, Changes DEF Same
  <2>3. CASE dagRef[x] # NoRef
    BY <1>7, <2>3, Changes DEF Same
  <2> QED
    BY <2>2, <2>3
<1>9. /\ refCount' \in [Refs -> Int] /\ dagOf' \in [Refs -> Dags \cup {NoDag}]
      /\ \A r \in Refs : /\ refCount'[r] = refCount[r] + (Same(thread[t].ref, r) - Same(dagRef[x], r))
                         /\ refCount'[r] # 0 => dagOf'[r] = dagOf[r]
  <2>1. PICK ch : ch = [r \in Refs |-> Aquired(<<thread[t].ref>>)[r] + Released(old)[r]]
    OBVIOUS
  <2>2. \A r \in Refs : ch[r] = Same(thread[t].ref, r) - Same(dagRef[x], r) /\ ch[r] \in Int
    BY <1>8, <2>1
  <2>3. Count(ch)
    BY <1>7, <2>1
  <2> QED
    BY <1>1, <2>2, <2>3, CountKeeps
<1>10. /\ dagRef' \in [Objects -> Refs \cup {NoRef}]
       /\ \A y \in Objects : dagRef'[y] = IF y = x THEN thread[t].ref ELSE dagRef[y]
  BY <1>1, <1>6, <1>7 DEF Typed
<1>11. CountInv'
  <2> SUFFICES ASSUME NEW r \in Refs PROVE Counted(r)'
    BY DEF CountInv
  <2>1. PICK a \in Int : a = Same(thread[t].ref, r) - Same(dagRef[x], r)
    BY <1>8
  <2>2. /\ IsFiniteSet(Uses(Objects, dagRef', r))
        /\ Cardinality(Uses(Objects, dagRef', r)) = Cardinality(Uses(Objects, dagRef, r)) + a
    <3>1. IsFiniteSet(Uses(Objects, dagRef, r)) /\ Cardinality(Uses(Objects, dagRef, r)) \in Nat
      BY <1>1, Parts
    <3>2. /\ IsFiniteSet(Uses(Objects, dagRef', r))
          /\ Cardinality(Uses(Objects, dagRef', r)) = Cardinality(Uses(Objects, dagRef, r))
                - Same(dagRef[x], r) + Same(thread[t].ref, r)
      <4>1. PICK v, f, g : v = thread[t].ref /\ f = dagRef /\ g = dagRef'
        OBVIOUS
      <4>2. Replaced(Objects, f, g, x, v) /\ IsFiniteSet(Uses(Objects, f, r))
        BY <1>10, <3>1, <4>1 DEF Replaced
      <4>3. /\ IsFiniteSet(Uses(Objects, g, r))
            /\ Cardinality(Uses(Objects, g, r)) = Cardinality(Uses(Objects, f, r))
                  - Same(f[x], r) + Same(v, r)
        BY ONLY <4>2, UsesSet, x \in Objects
      <4> QED
        BY <4>1, <4>3
    <3> QED
      BY <1>8, <2>1, <3>1, <3>2
  <2>3. refCount'[r] = refCount[r] + a + 0 + 0 - Same(Own(thread[t]), r) + Same(Own(w), r)
                          - Times(r, thread[t].samples) + Times(r, w.samples)
    <3>1. PICK n \in Nat : n = Times(r, thread[t].samples) /\ n = Times(r, w.samples)
      BY <1>1, <1>5, ThreadCounts
    <3>2. PICK k \in Int : k = Same(Own(thread[t]), r) /\ k = Same(Own(w), r)
      BY <1>6 DEF Same
    <3>3. refCount[r] \in Int /\ refCount'[r] = refCount[r] + a
      BY <1>1, <1>9, <2>1 DEF Typed
    <3> QED
      BY ONLY <3>1, <3>2, <3>3, a \in Int
  <2> QED
    BY ONLY <1>1, <1>2, <1>5, <2>2, <2>3, Parts, Balance, t \in Threads, r \in Refs,
       a \in Int, 0 \in Int
<1>12. \A y \in Objects : dagRef'[y] <= dags
  BY <1>1, <1>10
<1>13. \A d \in Dags : dagMutex[d] # t
  BY <1>1, ClaimsNothing
<1> QED
  BY <1>1, <1>2, <1>5, <1>6, <1>9, <1>10, <1>11, <1>12, <1>13, MoveStep DEF Before, Typed

\* An object keeps a reference for unlock(), or gives back the one it has kept.
LEMMA BalanceKept ==
    ASSUME Typed, CountInv, NEW t \in Threads, NEW w \in Record,
           thread' = [thread EXCEPT ![t] = w], w.samples = thread[t].samples,
           UNCHANGED <<dagRef, opRef>>, NEW x \in Objects, NEW v,
           Replaced(Objects, oldDagRef, oldDagRef', x, v),
           \A r \in Refs : refCount'[r] = refCount[r] - Same(oldDagRef[x], r) + Same(v, r)
                              - Same(Own(thread[t]), r) + Same(Own(w), r)
    PROVE  CountInv'
<1> SUFFICES ASSUME NEW r \in Refs PROVE Counted(r)'
  BY DEF CountInv
<1>1. PICK n \in Nat : n = Times(r, thread[t].samples) /\ n = Times(r, w.samples)
  BY ThreadCounts
<1>2. PICK b \in Int : b = Same(v, r) - Same(oldDagRef[x], r)
  BY DEF Same
<1>3. refCount'[r] = refCount[r] + 0 + b + 0 - Same(Own(thread[t]), r) + Same(Own(w), r)
                          - Times(r, thread[t].samples) + Times(r, w.samples)
  <2>1. refCount'[r] = refCount[r] - Same(oldDagRef[x], r) + Same(v, r)
                              - Same(Own(thread[t]), r) + Same(Own(w), r)
    OBVIOUS
  <2>2. /\ refCount[r] \in Int /\ Same(Own(thread[t]), r) \in Int /\ Same(Own(w), r) \in Int
        /\ Same(oldDagRef[x], r) \in Int /\ Same(v, r) \in Int
    BY DEF Same, Typed
  <2> QED
    BY ONLY <1>1, <1>2, <2>1, <2>2
<1>4. /\ IsFiniteSet(Uses(Objects, oldDagRef', r))
      /\ Cardinality(Uses(Objects, oldDagRef', r)) = Cardinality(Uses(Objects, oldDagRef, r)) + b
  <2>1. IsFiniteSet(Uses(Objects, oldDagRef, r))
        /\ Cardinality(Uses(Objects, oldDagRef, r)) \in Nat
    BY Parts
  <2>2. /\ IsFiniteSet(Uses(Objects, oldDagRef', r))
        /\ Cardinality(Uses(Objects, oldDagRef', r)) = Cardinality(Uses(Objects, oldDagRef, r))
              - Same(oldDagRef[x], r) + Same(v, r)
    BY ONLY <2>1, UsesSet, x \in Objects, Replaced(Objects, oldDagRef, oldDagRef', x, v)
  <2>3. Same(oldDagRef[x], r) \in Int /\ Same(v, r) \in Int
    BY DEF Same
  <2> QED
    BY ONLY <1>2, <2>1, <2>2, <2>3
<1> QED
  BY ONLY <1>3, <1>4, Parts, Balance, Typed, CountInv, t \in Threads, w \in Record, r \in Refs,
     UNCHANGED <<dagRef, opRef>>, thread' = [thread EXCEPT ![t] = w], 0 \in Int, b \in Int

\* lock() has got the DAG's mutex: the object may have left it, be in another one,
\* or keeps the reference.
LEMMA LockObjectDagCounts ==
    ASSUME CountingInv, OwnLocks, NEW t \in Threads, LockObjectDag(t)
    PROVE  CountingInv'
<1>0. At(t, "dag")
  BY DEF LockObjectDag
<1>1. /\ Typed /\ CountInv /\ LeakInv /\ LockedInv /\ CallInv /\ dags \in Nat
      /\ thread[t] \in Record /\ CallOK(t, thread[t]) /\ thread[t].at = "dag"
      /\ dagMutex \in [Dags -> Threads \cup {Nobody}] /\ thread[t].ref <= dags
      /\ \A x \in Objects : dagRef[x] <= dags /\ oldDagRef[x] <= dags
  BY <1>0 DEF CountingInv, Typed, CallInv, At, KnownInv
<1>2. UNCHANGED <<dags, opVars, inserted>> /\ UNCHANGED <<dagRef, opRef>>
  BY DEF LockObjectDag, opVars
<1>3. PICK x \in Objects : x = thread[t].obj /\ x \in Locks[t]
  BY <1>1, LockAssumption DEF CallOK, Locking
<1>4. PICK r0 \in Refs : r0 = thread[t].ref
  BY <1>1 DEF CallOK, Record
<1>5. \A d \in Dags : dagMutex[d] # t
  BY <1>1, ClaimsNothing
<1>6. \/ /\ dagMutex' = [dagMutex EXCEPT ![dagOf[r0]] = t]
         /\ thread' = [thread EXCEPT ![t].at = "inside"]
         /\ UNCHANGED <<dagOf, refCount, oldDagRef>>
      \/ /\ dagRef[x] # NoRef
         /\ Count([s \in Refs |-> Aquired(<<dagRef[x]>>)[s] + Released(<<r0>>)[s]])
         /\ thread' = [thread EXCEPT ![t].ref = dagRef[x]]
         /\ UNCHANGED <<dagMutex, oldDagRef>>
      \/ /\ dagMutex' = [dagMutex EXCEPT ![dagOf[r0]] = t]
         /\ oldDagRef' = [oldDagRef EXCEPT ![x] = r0]
         /\ thread' = [thread EXCEPT ![t].at = "hold"]
         /\ UNCHANGED <<dagOf, refCount>>
  BY <1>3, <1>4 DEF LockObjectDag, Goto
<1>7. CASE /\ dagMutex' = [dagMutex EXCEPT ![dagOf[r0]] = t]
           /\ thread' = [thread EXCEPT ![t].at = "inside"]
           /\ UNCHANGED <<dagOf, refCount, oldDagRef>>
  <2>1. PICK w : w = [thread[t] EXCEPT !.at = "inside"]
    OBVIOUS
  <2>2. /\ w \in Record /\ thread' = [thread EXCEPT ![t] = w]
        /\ w.at = "inside" /\ w.ref = r0 /\ w.samples = thread[t].samples
        /\ w.obj = x
    <3>1. "inside" \in Locking
      BY DEF Locking
    <3> QED
      BY <1>1, <1>3, <1>4, <1>7, <2>1, <3>1 DEF Record
  <2>3. CallOK(t, w) /\ Own(w) = Own(thread[t])
    BY <1>1, <1>3, <1>4, <2>2 DEF CallOK, Before, Locking, Own
  <2>4. At(t, "inside")' /\ thread'[t].ref = r0
    BY <1>1, <2>2 DEF At, Typed
  <2>5. ASSUME NEW d \in Dags, dagMutex'[d] # Nobody
        PROVE  (dagMutex'[d] = t /\ Claims(t, d)') \/ (dagMutex'[d] # t /\ dagMutex'[d] = dagMutex[d])
    <3>1. CASE d = dagOf[r0]
      <4>1. dagMutex'[d] = t
        BY <1>1, <1>7, <3>1
      <4>2. Claims(t, d)'
        BY <1>7, <2>4, <3>1 DEF Claims
      <4> QED
        BY <4>1, <4>2
    <3>2. CASE d # dagOf[r0]
      BY <1>1, <1>5, <1>7, <3>2
    <3> QED
      BY <3>1, <3>2
  <2>6. dagMutex' \in [Dags -> Threads \cup {Nobody}]
    BY <1>1, <1>7
  <2>7. UNCHANGED <<refVars, dagRef, oldDagRef, opVars, inserted>>
    BY <1>2, <1>7 DEF refVars
  <2> QED
    BY <1>1, <1>4, <2>2, <2>3, <2>5, <2>6, <2>7, QuietStep DEF Before
<1>8. CASE /\ dagRef[x] # NoRef
           /\ Count([s \in Refs |-> Aquired(<<dagRef[x]>>)[s] + Released(<<r0>>)[s]])
           /\ thread' = [thread EXCEPT ![t].ref = dagRef[x]]
           /\ UNCHANGED <<dagMutex, oldDagRef>>
  <2>1. PICK w : w = [thread[t] EXCEPT !.ref = dagRef[x]]
    OBVIOUS
  <2>2. /\ w \in Record /\ thread' = [thread EXCEPT ![t] = w]
        /\ w.at = "dag" /\ w.ref = dagRef[x] /\ w.samples = thread[t].samples
        /\ w.obj = x
    <3>1. dagRef[x] \in Refs \cup {NoRef}
      BY <1>1 DEF Typed
    <3> QED
      BY <1>1, <1>3, <1>8, <2>1, <3>1 DEF Record
  <2>3. CallOK(t, w) /\ w.ref <= dags
    BY <1>1, <1>3, <1>8, <2>2 DEF CallOK, Before, Locking
  <2>4. /\ refCount' \in [Refs -> Int] /\ dagOf' \in [Refs -> Dags \cup {NoDag}]
        /\ \A r \in Refs : /\ refCount'[r] = refCount[r] + (Same(dagRef[x], r) - Same(r0, r))
                           /\ refCount'[r] # 0 => dagOf'[r] = dagOf[r]
    <3>1. PICK ch : ch = [s \in Refs |-> Aquired(<<dagRef[x]>>)[s] + Released(<<r0>>)[s]]
      OBVIOUS
    <3>2. \A r \in Refs : ch[r] = Same(dagRef[x], r) - Same(r0, r) /\ ch[r] \in Int
      <4>1. \A r \in Refs : /\ Aquired(<<dagRef[x]>>)[r] = Same(dagRef[x], r)
                            /\ Released(<<r0>>)[r] = -Same(r0, r)
                            /\ Same(dagRef[x], r) \in Int /\ Same(r0, r) \in Int
        BY Changes DEF Same
      <4> QED
        BY <3>1, <4>1
    <3>3. Count(ch)
      BY <1>8, <3>1
    <3> QED
      BY <1>1, <3>2, <3>3, CountKeeps
  <2>5. CountInv'
    <3>1. \A r \in Refs : refCount'[r] = refCount[r] - Same(Own(thread[t]), r) + Same(Own(w), r)
      <4>1. Own(thread[t]) = r0 /\ Own(w) = dagRef[x]
        BY <1>1, <1>4, <2>2 DEF Own
      <4>2. \A r \in Refs : /\ refCount[r] \in Int
                            /\ Same(dagRef[x], r) \in Int /\ Same(r0, r) \in Int
        BY <1>1 DEF Same, Typed
      <4> QED
        BY <2>4, <4>1, <4>2
    <3>2. UNCHANGED <<dagRef, oldDagRef, opRef>>
      BY <1>2, <1>8
    <3> QED
      BY <1>1, <2>2, <3>1, <3>2, BalanceThread
  <2> QED
    BY <1>1, <1>2, <1>5, <1>8, <2>2, <2>3, <2>4, <2>5, MoveStep DEF Before, Typed
<1>9. CASE /\ dagMutex' = [dagMutex EXCEPT ![dagOf[r0]] = t]
           /\ oldDagRef' = [oldDagRef EXCEPT ![x] = r0]
           /\ thread' = [thread EXCEPT ![t].at = "hold"]
           /\ UNCHANGED <<dagOf, refCount>>
  <2>1. PICK w : w = [thread[t] EXCEPT !.at = "hold"]
    OBVIOUS
  <2>2. /\ w \in Record /\ thread' = [thread EXCEPT ![t] = w]
        /\ w.at = "hold" /\ w.ref = r0 /\ w.samples = thread[t].samples
        /\ w.obj = x
    <3>1. "hold" \in Locking
      BY DEF Locking
    <3> QED
      BY <1>1, <1>3, <1>4, <1>9, <2>1, <3>1 DEF Record
  <2>3. CallOK(t, w)
    BY <1>1, <1>3, <1>4, <2>2 DEF CallOK, Before, Locking
  <2>4. oldDagRef[x] = NoRef
    <3>1. ASSUME oldDagRef[x] # NoRef
          PROVE  FALSE
      <4>1. PICK u \in Threads : thread[u].at = "hold" /\ thread[u].obj = x
        BY <1>1, <3>1 DEF LockedInv, At
      <4>2. x \in Locks[u] /\ u # t
        BY <1>1, <4>1 DEF CallInv, CallOK, Locking
      <4> QED
        BY <1>3, <4>2 DEF OwnLocks
    <3> QED
      BY <3>1
  <2>5. /\ oldDagRef' \in [Objects -> Refs \cup {NoRef}]
        /\ oldDagRef'[x] = r0 /\ \A y \in Objects \ {x} : oldDagRef'[y] = oldDagRef[y]
    BY <1>1, <1>9 DEF Typed
  <2>6. CountInv'
    <3>1. Replaced(Objects, oldDagRef, oldDagRef', x, r0)
      BY <2>5 DEF Replaced
    <3>2. \A r \in Refs : refCount'[r] = refCount[r] - Same(oldDagRef[x], r) + Same(r0, r)
                              - Same(Own(thread[t]), r) + Same(Own(w), r)
      <4>1. Own(thread[t]) = r0 /\ Own(w) = NoRef
        BY <1>1, <1>4, <2>2 DEF Own
      <4>2. \A r \in Refs : /\ refCount[r] \in Int /\ Same(r0, r) \in Int
                            /\ Same(NoRef, r) = 0
        BY <1>1, LockAssumption DEF Same, Typed, Refs, NoRef
      <4> QED
        BY <1>9, <2>4, <4>1, <4>2
    <3>3. /\ Typed /\ CountInv /\ UNCHANGED <<dagRef, opRef>>
          /\ w \in Record /\ thread' = [thread EXCEPT ![t] = w] /\ w.samples = thread[t].samples
      BY <1>1, <1>2, <2>2
    <3> QED
      BY ONLY <3>1, <3>2, <3>3, BalanceKept, x \in Objects, t \in Threads
  <2>7. At(t, "hold")' /\ thread'[t].obj = x
    BY <1>1, <2>2 DEF At, Typed
  <2>8. ASSUME NEW d \in Dags, dagMutex'[d] # Nobody
        PROVE  (dagMutex'[d] = t /\ Claims(t, d)') \/ (dagMutex'[d] # t /\ dagMutex'[d] = dagMutex[d])
    <3>1. CASE d = dagOf[r0]
      <4>1. dagMutex'[d] = t
        BY <1>1, <1>9, <3>1
      <4>2. r0 # NoRef
        BY LockAssumption DEF Refs, NoRef
      <4>3. Claims(t, d)'
        BY <1>9, <2>5, <2>7, <3>1, <4>2 DEF Claims
      <4> QED
        BY <4>1, <4>3
    <3>2. CASE d # dagOf[r0]
      BY <1>1, <1>5, <1>9, <3>2
    <3> QED
      BY <3>1, <3>2
  <2>9. dagMutex' \in [Dags -> Threads \cup {Nobody}]
    BY <1>1, <1>9
  <2>10. /\ refCount' \in [Refs -> Int] /\ dagOf' \in [Refs -> Dags \cup {NoDag}]
         /\ dagRef' \in [Objects -> Refs \cup {NoRef}]
         /\ \A y \in Objects : dagRef'[y] <= dags /\ oldDagRef'[y] <= dags
         /\ w.ref <= dags
    BY <1>1, <1>2, <1>4, <1>9, <2>2, <2>5 DEF Typed
  <2>11. \A y \in Objects : oldDagRef'[y] # NoRef =>
              \/ oldDagRef[y] # NoRef /\ ~(thread[t].at = "hold" /\ thread[t].obj = y)
              \/ w.at = "hold" /\ w.obj = y
    BY <1>1, <2>2, <2>5
  <2>12. \A y \in Objects \ Locks[t] : oldDagRef'[y] = oldDagRef[y]
    BY <1>3, <2>5
  <2>13. w.at \notin Before
    BY <2>2 DEF Before
  <2> QED
    BY <1>2, <1>9, <2>2, <2>3, <2>5, <2>6, <2>8, <2>9, <2>10, <2>11, <2>12, <2>13, MoveStep
<1> QED
  BY <1>6, <1>7, <1>8, <1>9

\* unlock() gives back what lock() kept, and unlocks the DAG of the object and the
\* one it was in.
LEMMA UnlockDagCounts ==
    ASSUME CountingInv, OwnLocks, NEW t \in Threads, UnlockDag(t)
    PROVE  CountingInv'
<1>0. At(t, "hold")
  BY DEF UnlockDag
<1>1. /\ Typed /\ CountInv /\ LeakInv /\ dags \in Nat
      /\ thread[t] \in Record /\ CallOK(t, thread[t]) /\ thread[t].at = "hold"
      /\ dagMutex \in [Dags -> Threads \cup {Nobody}] /\ thread[t].ref <= dags
      /\ \A x \in Objects : dagRef[x] <= dags /\ oldDagRef[x] <= dags
  BY <1>0 DEF CountingInv, Typed, CallInv, At, KnownInv
<1>2. UNCHANGED <<dags, opVars, inserted>> /\ UNCHANGED <<dagRef, opRef>>
  BY DEF UnlockDag, opVars
<1>3. PICK x \in Objects : x = thread[t].obj /\ x \in Locks[t]
  BY <1>1, LockAssumption DEF CallOK, Locking
<1>4. PICK old : /\ old = IF oldDagRef[x] = NoRef THEN <<>> ELSE <<oldDagRef[x]>>
                 /\ Count(Released(old))
                 /\ oldDagRef' = [oldDagRef EXCEPT ![x] = NoRef]
                 /\ dagMutex' = [d \in Dags |-> IF \E r \in {dagRef[x], oldDagRef[x]} \ {NoRef} : dagOf[r] = d
                                                THEN Nobody ELSE dagMutex[d]]
  BY <1>3 DEF UnlockDag
<1>5. PICK w : w = [thread[t] EXCEPT !.at = "unlock"]
  OBVIOUS
<1>6. /\ w \in Record /\ thread' = [thread EXCEPT ![t] = w]
      /\ w.at = "unlock" /\ w.ref = thread[t].ref /\ w.samples = thread[t].samples
      /\ w.obj = x
  <2>1. "unlock" \in Locking
    BY DEF Locking
  <2>2. thread' = [thread EXCEPT ![t].at = "unlock"]
    BY DEF UnlockDag, Goto
  <2> QED
    BY <1>1, <1>3, <1>5, <2>1, <2>2 DEF Record
<1>7. CallOK(t, w) /\ Own(w) = Own(thread[t])
  BY <1>1, <1>3, <1>6 DEF CallOK, Before, Locking, Own
<1>8. \A r \in Refs : Released(old)[r] = -Same(oldDagRef[x], r) /\ Same(oldDagRef[x], r) \in Int
  <2>1. \A r \in Refs : r # NoRef /\ Same(NoRef, r) = 0
    BY LockAssumption DEF Refs, NoRef, Same
  <2>2. CASE oldDagRef[x] = NoRef
    BY <1>4, <2>1, <2>2, Changes DEF Same
  <2>3. CASE oldDagRef[x] # NoRef
    BY <1>4, <2>3, Changes DEF Same
  <2> QED
    BY <2>2, <2>3
<1>9. /\ refCount' \in [Refs -> Int] /\ dagOf' \in [Refs -> Dags \cup {NoDag}]
      /\ \A r \in Refs : /\ refCount'[r] = refCount[r] - Same(oldDagRef[x], r)
                         /\ refCount'[r] # 0 => dagOf'[r] = dagOf[r]
  <2>1. \A r \in Refs : Released(old)[r] \in Int
    BY <1>8
  <2>2. \A r \in Refs : refCount[r] \in Int
    BY <1>1 DEF Typed
  <2> QED
    BY <1>1, <1>4, <1>8, <2>1, <2>2, CountKeeps
<1>10. /\ oldDagRef' \in [Objects -> Refs \cup {NoRef}]
       /\ oldDagRef'[x] = NoRef /\ \A y \in Objects \ {x} : oldDagRef'[y] = oldDagRef[y]
  BY <1>1, <1>4 DEF Typed
<1>11. CountInv'
  <2>1. Replaced(Objects, oldDagRef, oldDagRef', x, NoRef)
    BY <1>10 DEF Replaced
  <2>2. \A r \in Refs : refCount'[r] = refCount[r] - Same(oldDagRef[x], r) + Same(NoRef, r)
                              - Same(Own(thread[t]), r) + Same(Own(w), r)
    <3>1. \A r \in Refs : /\ refCount'[r] \in Int /\ Same(Own(w), r) \in Int
                          /\ Same(NoRef, r) = 0
      BY <1>9, LockAssumption DEF Same, Refs, NoRef
    <3> QED
      BY <1>7, <1>9, <3>1
  <2> QED
    BY <1>1, <1>2, <1>3, <1>6, <2>1, <2>2, BalanceKept
<1>12. ASSUME NEW d \in Dags, dagMutex'[d] # Nobody
       PROVE  dagMutex'[d] # t /\ dagMutex'[d] = dagMutex[d]
  <2>1. /\ dagMutex'[d] = dagMutex[d]
        /\ ~(oldDagRef[x] # NoRef /\ dagOf[oldDagRef[x]] = d)
    BY <1>4, <1>12
  <2>2. dagMutex[d] # t
    BY <1>1, <1>3, <2>1, LockAssumption DEF LeakInv, Claims, At
  <2> QED
    BY <2>1, <2>2
<1>13. dagMutex' \in [Dags -> Threads \cup {Nobody}]
  BY <1>1, <1>4
<1>14. /\ dagRef' \in [Objects -> Refs \cup {NoRef}]
       /\ \A y \in Objects : dagRef'[y] <= dags /\ oldDagRef'[y] <= dags
       /\ w.ref <= dags
  <2>1. NoRef <= dags
    BY <1>1 DEF NoRef
  <2>2. dagRef \in [Objects -> Refs \cup {NoRef}]
    BY <1>1 DEF Typed
  <2> QED
    BY <1>1, <1>2, <1>6, <1>10, <2>1, <2>2
<1>15. \A y \in Objects : oldDagRef'[y] # NoRef =>
              \/ oldDagRef[y] # NoRef /\ ~(thread[t].at = "hold" /\ thread[t].obj = y)
              \/ w.at = "hold" /\ w.obj = y
  BY <1>3, <1>10
<1>16. \A y \in Objects \ Locks[t] : oldDagRef'[y] = oldDagRef[y]
  BY <1>3, <1>10
<1>17. w.at \notin Before
  BY <1>6 DEF Before
<1> QED
  BY <1>2, <1>6, <1>7, <1>9, <1>10, <1>11, <1>12, <1>13, <1>14, <1>15, <1>16, <1>17, MoveStep

\* The samples are released, and the operation and the thread hold the reference.
LEMMA LockDagCounts ==
    ASSUME CountingInv, OwnLocks, NEW t \in Threads, LockDag(t)
    PROVE  CountingInv'
<1>0. At(t, "lock")
  BY DEF LockDag
<1>1. /\ Typed /\ CountInv /\ LeakInv /\ CallInv /\ KnownInv /\ OpInv /\ LockedInv
      /\ dags \in Nat
      /\ thread[t] \in Record /\ CallOK(t, thread[t]) /\ thread[t].at = "lock"
      /\ dagMutex \in [Dags -> Threads \cup {Nobody}] /\ thread[t].ref <= dags
  BY <1>0 DEF CountingInv, Typed, CallInv, At, KnownInv
<1>2. UNCHANGED <<dags, dagRef, oldDagRef, opObjects, inserted>>
  BY DEF LockDag, objVars
<1>3. PICK r0 \in Refs : r0 = thread[t].ref
  BY <1>1 DEF CallOK, Record, Before
<1>4. PICK o \in Ops : o = thread[t].op /\ o <= inserted /\ opRef[o] = NoRef
  BY <1>1, LockAssumption DEF CallOK, Ops, Before, Typed
<1>5. PICK w : w = [thread[t] EXCEPT !.at = "insert", !.samples = <<>>]
  OBVIOUS
<1>6. /\ w \in Record /\ thread' = [thread EXCEPT ![t] = w]
      /\ w.at = "insert" /\ w.ref = r0 /\ w.samples = <<>> /\ w.op = o
  <2>1. <<>> \in Seq(Refs \cup {NoRef})
    OBVIOUS
  <2>2. thread' = [thread EXCEPT ![t].at = "insert", ![t].samples = <<>>]
    BY DEF LockDag
  <2>3. thread' = [thread EXCEPT ![t] = w]
    BY <1>1, <1>5, <2>2 DEF Typed
  <2> QED
    BY <1>1, <1>3, <1>4, <1>5, <2>1, <2>3 DEF Record
<1>7. PICK ch : /\ ch = [s \in Refs |-> Aquired(<<r0>>)[s] + Released(thread[t].samples)[s]]
                /\ Count(ch)
                /\ dagMutex' = [dagMutex EXCEPT ![dagOf[r0]] = t]
                /\ opRef' = [opRef EXCEPT ![o] = r0]
  BY <1>3, <1>4 DEF LockDag
<1>8. \A r \in Refs : /\ ch[r] = Same(r0, r) - Times(r, thread[t].samples) /\ ch[r] \in Int
                      /\ Times(r, thread[t].samples) \in Nat /\ Same(r0, r) \in Int
  <2>1. thread[t].samples \in Seq(Refs \cup {NoRef})
    BY <1>1 DEF Record
  <2>2. \A r \in Refs : Times(r, thread[t].samples) \in Nat
    BY <2>1, TimesFinite
  <2>3. \A r \in Refs : Aquired(<<r0>>)[r] = Same(r0, r) /\ Same(r0, r) \in Int
    BY Changes DEF Same
  <2>4. \A r \in Refs : Released(thread[t].samples)[r] = -Times(r, thread[t].samples)
    BY DEF Released
  <2> QED
    BY <1>7, <2>2, <2>3, <2>4
<1>9. /\ refCount' \in [Refs -> Int] /\ dagOf' \in [Refs -> Dags \cup {NoDag}]
      /\ \A r \in Refs : /\ refCount'[r] = refCount[r] + (Same(r0, r) - Times(r, thread[t].samples))
                         /\ refCount'[r] # 0 => dagOf'[r] = dagOf[r]
  BY <1>1, <1>7, <1>8, CountKeeps
<1>10. /\ opRef' \in [Ops -> Refs \cup {NoRef}] /\ opRef'[o] = r0
       /\ \A p \in Ops \ {o} : opRef'[p] = opRef[p]
  BY <1>1, <1>7 DEF Typed
<1>11. dagMutex' \in [Dags -> Threads \cup {Nobody}]
  BY <1>1, <1>7
<1>12. Typed'
  BY <1>1, <1>2, <1>6, <1>9, <1>10, <1>11 DEF Typed
<1>13. CallInv'
  <2>1. CallOK(t, w)'
    <3>1. w.op \in 1..inserted' /\ w.ref # NoRef
      BY <1>2, <1>4, <1>6, LockAssumption DEF Ops, Refs, NoRef
    <3> QED
      BY <1>6, <3>1 DEF CallOK, Before, Locking
  <2>2. ASSUME NEW u \in Threads \ {t}, thread[u].at \in Before
        PROVE  /\ opObjects'[thread[u].op] = opObjects[thread[u].op]
               /\ opRef'[thread[u].op] = opRef[thread[u].op]
    <3>1. thread[u].op # o
      BY <1>1, <1>4, <2>2 DEF OpInv, Before
    <3>2. thread[u].op \in Ops
      BY <1>1, <2>2, LockAssumption DEF CallInv, CallOK, Ops, Typed
    <3> QED
      BY <1>2, <1>10, <3>1, <3>2
  <2>3. inserted' \in Nat /\ inserted <= inserted'
    BY <1>1, <1>2 DEF Typed
  <2> QED
    BY <1>1, <1>6, <2>1, <2>2, <2>3, CallKept
<1>14. OpInv'
  <2>1. \A p \in Ops : p > inserted' => opRef'[p] = NoRef
    <3>1. \A p \in Ops : p > inserted => p # o /\ opRef[p] = NoRef
      BY <1>1, <1>4, LockAssumption DEF OpInv, Typed, Ops
    <3> QED
      BY <1>2, <1>10, <3>1
  <2>2. w.at \notin Before
    BY <1>6 DEF Before
  <2> QED
    BY <1>1, <1>6, <2>1, <2>2, OpKept
<1>15. LockedInv'
  BY <1>1, <1>2, <1>6, LockedKept
<1>16. KnownInv'
  <2>1. \A p \in Ops : opRef'[p] <= dags
    BY <1>1, <1>3, <1>10 DEF KnownInv
  <2>2. \A u \in Threads : thread'[u] = IF u = t THEN w ELSE thread[u]
    BY <1>1, <1>6 DEF Typed
  <2>3. \A u \in Threads : /\ thread'[u].ref <= dags
                           /\ \A k \in DOMAIN thread'[u].samples : thread'[u].samples[k] <= dags
    BY <1>1, <1>3, <1>6, <2>2 DEF KnownInv
  <2> QED
    BY <1>1, <1>2, <2>1, <2>3 DEF KnownInv
<1>17. CountInv'
  <2> SUFFICES ASSUME NEW r \in Refs PROVE Counted(r)'
    BY DEF CountInv
  <2>1. PICK c \in Int : c = Same(r0, r)
    BY <1>8
  <2>2. /\ IsFiniteSet(Uses(Ops, opRef', r))
        /\ Cardinality(Uses(Ops, opRef', r)) = Cardinality(Uses(Ops, opRef, r)) + c
    <3>1. IsFiniteSet(Uses(Ops, opRef, r)) /\ Cardinality(Uses(Ops, opRef, r)) \in Nat
      BY <1>1, Parts
    <3>2. Replaced(Ops, opRef, opRef', o, r0)
      BY <1>10 DEF Replaced
    <3>3. /\ IsFiniteSet(Uses(Ops, opRef', r))
          /\ Cardinality(Uses(Ops, opRef', r)) = Cardinality(Uses(Ops, opRef, r))
                - Same(opRef[o], r) + Same(r0, r)
      BY ONLY <3>1, <3>2, UsesSet, o \in Ops
    <3>4. Same(opRef[o], r) = 0
      BY <1>4, LockAssumption DEF Same, Refs, NoRef
    <3> QED
      BY ONLY <2>1, <3>1, <3>3, <3>4
  <2>3. refCount'[r] = refCount[r] + 0 + 0 + c - Same(Own(thread[t]), r) + Same(Own(w), r)
                          - Times(r, thread[t].samples) + Times(r, w.samples)
    <3>1. Own(thread[t]) = Own(w)
      BY <1>1, <1>3, <1>6 DEF Own
    <3>2. PICK k \in Int : k = Same(Own(thread[t]), r) /\ k = Same(Own(w), r)
      BY <3>1 DEF Same
    <3>3. Times(r, w.samples) = 0
      BY <1>6, TimesNone
    <3>4. refCount[r] \in Int /\ refCount'[r] = refCount[r] + (c - Times(r, thread[t].samples))
          /\ Times(r, thread[t].samples) \in Nat
      BY <1>1, <1>8, <1>9, <2>1 DEF Typed
    <3> QED
      BY ONLY <3>2, <3>3, <3>4, c \in Int
  <2>4. Typed /\ CountInv /\ UNCHANGED <<dagRef, oldDagRef>>
        /\ w \in Record /\ thread' = [thread EXCEPT ![t] = w]
    BY <1>1, <1>2, <1>6
  <2> QED
    BY ONLY <2>2, <2>3, <2>4, Parts, Balance, t \in Threads, r \in Refs, c \in Int, 0 \in Int
<1>18. LeakInv'
  <2>1. At(t, "insert")' /\ thread'[t].ref = r0
    BY <1>1, <1>6 DEF At, Typed
  <2>2. \A d \in Dags : dagMutex[d] # t
    BY <1>1, ClaimsNothing
  <2>3. dagOf'[r0] = dagOf[r0]
    <3>1. r0 # NoRef /\ opRef'[o] = r0
      BY <1>10, LockAssumption DEF Refs, NoRef
    <3>2. refCount'[r0] # 0
      BY <1>17, <3>1, HeldAfter
    <3> QED
      BY <1>9, <3>2
  <2>4. ASSUME NEW d \in Dags, dagMutex'[d] # Nobody
        PROVE  (dagMutex'[d] = t /\ Claims(t, d)') \/ (dagMutex'[d] # t /\ dagMutex'[d] = dagMutex[d])
    <3>1. CASE d = dagOf[r0]
      <4>1. dagMutex'[d] = t
        BY <1>1, <1>7, <3>1
      <4>2. Claims(t, d)'
        BY <2>1, <2>3, <3>1 DEF Claims
      <4> QED
        BY <4>1, <4>2
    <3>2. CASE d # dagOf[r0]
      BY <1>1, <1>7, <2>2, <3>2
    <3> QED
      BY <3>1, <3>2
  <2>5. \A x \in Objects \ Locks[t] : oldDagRef'[x] = oldDagRef[x]
    BY <1>2
  <2> QED
    BY <1>1, <1>6, <1>9, <1>17, <2>4, <2>5, LeakKept
<1> QED
  BY <1>12, <1>13, <1>14, <1>15, <1>16, <1>17, <1>18 DEF CountingInv

\* A set of numbers has a least one.
LEMMA Least ==
    ASSUME NEW S \in SUBSET Nat, S # {}
    PROVE  \E i \in S : \A j \in S : i <= j
<1>1. PICK R : R = {ss \in Nat \X Nat : ss[1] < ss[2]}
  OBVIOUS
<1>2. IsWellFoundedOn(R, Nat)
  BY <1>1, NatLessThanWellFounded DEF OpToRel
<1>3. PICK i \in S : \A j \in S : ~ (<<j, i>> \in R)
  BY <1>2, WFMin
<1>4. ASSUME NEW j \in S PROVE i <= j
  <2>1. i \in Nat /\ j \in Nat /\ <<j, i>> \in Nat \X Nat
    OBVIOUS
  <2>2. ~ (j < i)
    BY <1>1, <1>3, <2>1
  <2> QED
    BY ONLY <2>1, <2>2
<1> QED
  BY <1>4

\* The references of the objects are sampled: the thread holds them and the one it
\* has chosen, or a new one.
LEMMA SampleRefsCounts ==
    ASSUME CountingInv, OwnLocks, NEW t \in Threads, NEW call \in Calls[t], SampleRefs(t, call)
    PROVE  CountingInv'
<1>0. At(t, "idle") /\ inserted < MaxOps
  BY DEF SampleRefs
<1>1. /\ Typed /\ CountInv /\ LeakInv /\ CallInv /\ KnownInv /\ OpInv /\ LockedInv
      /\ dags \in Nat /\ inserted \in Nat /\ MaxOps \in Nat /\ dags <= inserted
      /\ thread[t] \in Record /\ CallOK(t, thread[t]) /\ thread[t].at = "idle"
      /\ dagMutex \in [Dags -> Threads \cup {Nobody}]
      /\ dagRef \in [Objects -> Refs \cup {NoRef}]
  BY <1>0, LockAssumption DEF CountingInv, Typed, CallInv, At
<1>2. UNCHANGED <<dagMutex, dagRef, oldDagRef, opRef>>
  BY DEF SampleRefs
<1>3. PICK samples : samples = [i \in DOMAIN call |-> dagRef[call[i]]]
  OBVIOUS
<1>4. PICK known : known = {i \in DOMAIN call : samples[i] # NoRef}
  OBVIOUS
<1>5. PICK o, new : o = inserted + 1 /\ new = dags + 1
  OBVIOUS
<1>5a. PICK first : first = CHOOSE i \in known : \A j \in known : i <= j
  OBVIOUS
<1>5b. PICK ref : ref = IF known = {} THEN new ELSE samples[first]
  OBVIOUS
<1>6. /\ inserted' = o
      /\ dags' = IF known = {} THEN new ELSE dags
      /\ refCount' = [r \in Refs |-> refCount[r] + Sampled(samples, ref)[r]]
      /\ dagOf' = IF known = {} THEN [dagOf EXCEPT ![new] = new] ELSE dagOf
      /\ opObjects' = [opObjects EXCEPT ![o] = call]
      /\ thread' = [thread EXCEPT ![t] = [Idle EXCEPT !.at = "iterate", !.op = o,
                                                      !.ref = ref, !.samples = samples]]
  BY <1>3, <1>4, <1>5, <1>5a, <1>5b DEF SampleRefs
<1>7. call \in Seq(Objects)
  BY LockAssumption DEF Call
<1>8. /\ samples \in Seq(Refs \cup {NoRef}) /\ Len(samples) = Len(call)
      /\ \A i \in DOMAIN samples : samples[i] <= dags
  <2>1. DOMAIN call = 1..Len(call) /\ Len(call) \in Nat
        /\ \A i \in 1..Len(call) : call[i] \in Objects
    BY <1>7
  <2>2. \A x \in Objects : dagRef[x] \in Refs \cup {NoRef} /\ dagRef[x] <= dags
    BY <1>1 DEF KnownInv
  <2> QED
    BY <1>3, <2>1, <2>2
<1>9. o \in Ops /\ o \in 1..o /\ new \in Refs /\ o \in 0..MaxOps /\ new \in Dags
      /\ new \in 0..MaxOps /\ new <= o
  BY <1>0, <1>1, <1>5 DEF Ops, Refs, Dags
<1>10. ref \in Refs /\ ref <= dags' /\ dags <= dags' /\ dags' \in 0..MaxOps /\ dags' <= o
  <2>1. CASE known = {}
    BY <1>1, <1>5, <1>6, <1>9, <1>5b, <2>1
  <2>2. CASE known # {}
    <3>1. known \in SUBSET Nat
      BY <1>4, <1>7
    <3>2. PICK i \in known : ref = samples[i]
      BY <1>5a, <1>5b, <2>2, <3>1, Least
    <3>3. i \in DOMAIN samples /\ samples[i] # NoRef
      BY <1>3, <1>4, <3>2
    <3>4. ref \in Refs /\ ref <= dags
      BY <1>8, <3>2, <3>3
    <3> QED
      BY <1>0, <1>1, <1>5, <1>6, <2>2, <3>4
  <2> QED
    BY <2>1, <2>2
<1>11. PICK w : w = [Idle EXCEPT !.at = "iterate", !.op = o, !.ref = ref, !.samples = samples]
  OBVIOUS
<1>12. /\ w \in Record /\ thread' = [thread EXCEPT ![t] = w]
       /\ w.at = "iterate" /\ w.op = o /\ w.ref = ref /\ w.samples = samples
  <2>1. "iterate" \in Before
    BY DEF Before
  <2> QED
    BY <1>6, <1>8, <1>9, <1>10, <1>11, <2>1, IdleRecord DEF Idle, Record
<1>13. \A r \in Refs : /\ Sampled(samples, ref)[r] = Times(r, samples) + Same(ref, r)
                       /\ Times(r, samples) \in Nat /\ Same(ref, r) \in Int
  <2>1. \A r \in Refs : Sampled(samples, ref)[r] = Times(r, Append(samples, ref))
    BY DEF Sampled, Aquired
  <2>2. ref \in Refs \cup {NoRef}
    BY <1>10
  <2>3. \A r \in Refs : /\ Times(r, Append(samples, ref)) = Times(r, samples) + Same(ref, r)
                        /\ Times(r, samples) \in Nat
    BY ONLY <1>8, <2>2, TimesAppend, TimesFinite
  <2> QED
    BY <2>1, <2>3 DEF Same
<1>14. /\ refCount' \in [Refs -> Int]
       /\ \A r \in Refs : refCount'[r] = refCount[r] + (Times(r, samples) + Same(ref, r))
  <2>1. \A r \in Refs : refCount[r] \in Int
    BY <1>1 DEF Typed
  <2> QED
    BY <1>6, <1>13, <2>1
<1>15. /\ dagOf' \in [Refs -> Dags \cup {NoDag}]
       /\ \A r \in Refs : r <= dags => dagOf'[r] = dagOf[r]
  <2>1. \A r \in Refs : r <= dags => r # new
    BY <1>1, <1>5 DEF Refs
  <2>2. dagOf \in [Refs -> Dags \cup {NoDag}]
    BY <1>1 DEF Typed
  <2> QED
    BY <1>6, <1>9, <2>1, <2>2
<1>16. /\ opObjects' \in [Ops -> Seq(Objects)] /\ opObjects'[o] = call
       /\ \A p \in Ops \ {o} : opObjects'[p] = opObjects[p]
  BY <1>1, <1>6, <1>7, <1>9 DEF Typed
<1>17. Typed'
  BY <1>1, <1>2, <1>6, <1>9, <1>10, <1>12, <1>14, <1>15, <1>16 DEF Typed
<1>18. CallInv'
  <2>1. CallOK(t, w)'
    <3>1. w.ref # NoRef /\ opRef'[o] = NoRef
      BY <1>1, <1>2, <1>5, <1>9, <1>10, <1>12, LockAssumption DEF OpInv, Refs, NoRef
    <3> QED
      BY <1>6, <1>8, <1>9, <1>12, <1>16, <3>1 DEF CallOK, Before, Locking
  <2>2. ASSUME NEW u \in Threads \ {t}, thread[u].at \in Before
        PROVE  /\ opObjects'[thread[u].op] = opObjects[thread[u].op]
               /\ opRef'[thread[u].op] = opRef[thread[u].op]
    <3>1. thread[u].op \in 1..inserted
      BY <1>1, <2>2 DEF CallInv, CallOK
    <3>2. thread[u].op \in Ops \ {o}
      BY <1>1, <1>0, <1>5, <3>1 DEF Ops
    <3> QED
      BY <1>2, <1>16, <3>2
  <2>3. inserted' \in Nat /\ inserted <= inserted'
    BY <1>1, <1>5, <1>6
  <2> QED
    BY <1>1, <1>12, <2>1, <2>2, <2>3, CallKept
<1>19. OpInv'
  <2>1. \A p \in Ops : p > inserted' => opRef'[p] = NoRef
    BY <1>1, <1>2, <1>5, <1>6 DEF OpInv, Ops
  <2>2. w.op > inserted
    BY <1>1, <1>5, <1>12
  <2> QED
    BY <1>1, <1>12, <2>1, <2>2, OpKept
<1>20. LockedInv'
  BY <1>1, <1>2, <1>12, LockedKept
<1>21. KnownInv'
  <2>1. \A n \in Refs \cup {NoRef} : n <= dags => n <= dags'
    BY <1>1, <1>10 DEF Refs, NoRef
  <2>2. \A u \in Threads : thread'[u] = IF u = t THEN w ELSE thread[u]
    BY <1>1, <1>12 DEF Typed
  <2>3. ASSUME NEW u \in Threads
        PROVE  /\ thread'[u].ref <= dags'
               /\ \A k \in DOMAIN thread'[u].samples : thread'[u].samples[k] <= dags'
    <3>1. CASE u = t
      <4>1. \A i \in DOMAIN samples : samples[i] \in Refs \cup {NoRef}
        BY <1>8
      <4> QED
        BY <1>8, <1>10, <1>12, <2>1, <2>2, <3>1, <4>1
    <3>2. CASE u # t
      <4>1. thread[u] \in Record
        BY <1>1 DEF Typed
      <4>2. /\ thread[u].ref \in Refs \cup {NoRef}
            /\ \A k \in DOMAIN thread[u].samples : thread[u].samples[k] \in Refs \cup {NoRef}
        BY <4>1 DEF Record
      <4>3. /\ thread[u].ref <= dags
            /\ \A k \in DOMAIN thread[u].samples : thread[u].samples[k] <= dags
        BY <1>1 DEF KnownInv
      <4> QED
        BY <2>1, <2>2, <3>2, <4>2, <4>3
    <3> QED
      BY <3>1, <3>2
  <2>4. /\ \A x \in Objects : dagRef[x] \in Refs \cup {NoRef} /\ oldDagRef[x] \in Refs \cup {NoRef}
        /\ \A p \in Ops : opRef[p] \in Refs \cup {NoRef}
    BY <1>1 DEF Typed
  <2>5. /\ \A x \in Objects : dagRef[x] <= dags' /\ oldDagRef[x] <= dags'
        /\ \A p \in Ops : opRef[p] <= dags'
    BY <1>1, <2>1, <2>4 DEF KnownInv
  <2> QED
    BY <1>2, <2>3, <2>5 DEF KnownInv
<1>22. CountInv'
  <2> SUFFICES ASSUME NEW r \in Refs PROVE Counted(r)'
    BY DEF CountInv
  <2>1. refCount'[r] = refCount[r] + 0 + 0 + 0 - Same(Own(thread[t]), r) + Same(Own(w), r)
                          - Times(r, thread[t].samples) + Times(r, w.samples)
    <3>1. Own(thread[t]) = NoRef /\ Own(w) = ref /\ thread[t].samples = <<>>
      BY <1>1, <1>12 DEF Own, CallOK, Before
    <3>2. Same(NoRef, r) = 0
      BY LockAssumption DEF Same, Refs, NoRef
    <3>3. Times(r, thread[t].samples) = 0
      BY <3>1, TimesNone
    <3>4. refCount[r] \in Int /\ refCount'[r] = refCount[r] + (Times(r, samples) + Same(ref, r))
          /\ Times(r, samples) \in Nat /\ Same(ref, r) \in Int
      BY <1>1, <1>13, <1>14 DEF Typed
    <3>5. Times(r, w.samples) = Times(r, samples)
      BY <1>12
    <3> QED
      BY ONLY <3>1, <3>2, <3>3, <3>4, <3>5
  <2>2. Typed /\ CountInv /\ UNCHANGED <<dagRef, oldDagRef, opRef>>
        /\ w \in Record /\ thread' = [thread EXCEPT ![t] = w]
    BY <1>1, <1>2, <1>12
  <2> QED
    BY ONLY <2>1, <2>2, Parts, Balance, t \in Threads, r \in Refs, 0 \in Int
<1>23. LeakInv'
  <2>1. \A d \in Dags : dagMutex[d] # t
    BY <1>1, ClaimsNothing
  <2>2. \A x \in Objects \ Locks[t] : oldDagRef'[x] = oldDagRef[x]
    BY <1>2
  <2> QED
    BY <1>1, <1>2, <1>12, <1>15, <1>22, <2>1, <2>2, LeakKept
<1> QED
  BY <1>17, <1>18, <1>19, <1>20, <1>21, <1>22, <1>23 DEF CountingInv

\* An operation is destroyed: its reference is given back, and those of the objects
\* that no other operation connects.
LEMMA DestroyOpCounts ==
    ASSUME CountingInv, OwnLocks, NEW t \in Threads, DestroyOp(t)
    PROVE  CountingInv'
<1>1. /\ Typed /\ CountInv /\ LeakInv /\ CallInv /\ KnownInv /\ OpInv /\ LockedInv
      /\ dags \in Nat /\ inserted \in Nat /\ MaxOps \in Nat /\ dags <= inserted
      /\ dagMutex \in [Dags -> Threads \cup {Nobody}]
      /\ dagRef \in [Objects -> Refs \cup {NoRef}]
      /\ thread \in [Threads -> Record] /\ thread[t] \in Record
  BY LockAssumption DEF CountingInv, Typed
<1>2. UNCHANGED <<dags, dagMutex, oldDagRef, inserted, thread>>
  BY DEF DestroyOp, GiveUp
<1>3. PICK o \in Ops, gone \in SUBSET Objects :
         /\ opRef[o] # NoRef
         /\ dagRef' = [x \in Objects |-> IF x \in gone THEN NoRef ELSE dagRef[x]]
         /\ Count([r \in Refs |-> -Cardinality({x \in gone : dagRef[x] = r})
                                  + Released(<<opRef[o]>>)[r]])
         /\ opRef' = [opRef EXCEPT ![o] = NoRef]
         /\ opObjects' = [opObjects EXCEPT ![o] = <<>>]
  BY DEF DestroyOp, GiveUp, LastUse
<1>4. thread' = [thread EXCEPT ![t] = thread[t]]
  BY <1>1, <1>2
<1>5. Forgotten(Objects, dagRef, dagRef', gone)
  BY <1>3 DEF Forgotten
<1>6. ASSUME NEW r \in Refs
      PROVE  /\ IsFiniteSet(Uses(Objects, dagRef', r))
             /\ Cardinality(Uses(Objects, dagRef', r))
                  = Cardinality(Uses(Objects, dagRef, r)) - Cardinality({x \in gone : dagRef[x] = r})
             /\ Cardinality({x \in gone : dagRef[x] = r}) \in Nat
  <2>1. r # NoRef /\ IsFiniteSet(Uses(Objects, dagRef, r))
    BY <1>1, Parts, LockAssumption DEF Refs, NoRef
  <2> QED
    BY ONLY <1>5, <2>1, UsesForget, gone \in SUBSET Objects
<1>7. \A r \in Refs : Released(<<opRef[o]>>)[r] = -Same(opRef[o], r) /\ Same(opRef[o], r) \in Int
  BY Changes DEF Same
<1>8. /\ refCount' \in [Refs -> Int] /\ dagOf' \in [Refs -> Dags \cup {NoDag}]
      /\ \A r \in Refs : /\ refCount'[r] = refCount[r] + (-Cardinality({x \in gone : dagRef[x] = r})
                                                          - Same(opRef[o], r))
                         /\ refCount'[r] # 0 => dagOf'[r] = dagOf[r]
  <2>1. PICK ch : ch = [r \in Refs |-> -Cardinality({x \in gone : dagRef[x] = r})
                                       + Released(<<opRef[o]>>)[r]]
    OBVIOUS
  <2>2. \A r \in Refs : /\ ch[r] = -Cardinality({x \in gone : dagRef[x] = r}) - Same(opRef[o], r)
                        /\ ch[r] \in Int
    <3>1. \A r \in Refs : Cardinality({x \in gone : dagRef[x] = r}) \in Nat
      BY <1>6
    <3> QED
      BY <1>7, <2>1, <3>1
  <2>3. Count(ch)
    BY <1>3, <2>1
  <2> QED
    BY <1>1, <2>2, <2>3, CountKeeps
<1>9. /\ opRef' \in [Ops -> Refs \cup {NoRef}] /\ opRef'[o] = NoRef
      /\ \A p \in Ops \ {o} : opRef'[p] = opRef[p]
      /\ opObjects' \in [Ops -> Seq(Objects)]
      /\ \A p \in Ops \ {o} : opObjects'[p] = opObjects[p]
  <2>1. <<>> \in Seq(Objects)
    OBVIOUS
  <2>2. opRef \in [Ops -> Refs \cup {NoRef}] /\ opObjects \in [Ops -> Seq(Objects)]
    BY <1>1 DEF Typed
  <2> QED
    BY <1>3, <2>1, <2>2
<1>10. dagRef' \in [Objects -> Refs \cup {NoRef}]
  BY <1>1, <1>3
<1>11. Typed'
  BY <1>1, <1>2, <1>8, <1>9, <1>10 DEF Typed
<1>12. ASSUME NEW u \in Threads, thread[u].at \in Before
       PROVE  /\ opObjects'[thread[u].op] = opObjects[thread[u].op]
              /\ opRef'[thread[u].op] = opRef[thread[u].op]
  <2>1. thread[u].op \in 1..inserted /\ opRef[thread[u].op] = NoRef
    BY <1>1, <1>12 DEF CallInv, CallOK
  <2>2. thread[u].op \in Ops
    BY <1>1, <2>1 DEF Ops, Typed
  <2>3. thread[u].op # o
    BY <1>3, <2>1
  <2> QED
    BY <1>9, <2>2, <2>3
<1>13. CallInv'
  <2>1. CallOK(t, thread[t])
    BY <1>1 DEF CallInv
  <2>2. thread[t].at \in Before =>
              /\ opObjects'[thread[t].op] = opObjects[thread[t].op]
              /\ opRef'[thread[t].op] = opRef[thread[t].op]
    BY <1>12
  <2> QED
    BY <1>1, <1>2, <1>12 DEF CallInv, CallOK
<1>14. OpInv'
  <2>1. \A p \in Ops : opRef'[p] = NoRef \/ opRef'[p] = opRef[p]
    BY <1>9
  <2> QED
    BY <1>1, <1>2, <2>1 DEF OpInv
<1>15. LockedInv'
  BY <1>1, <1>2 DEF LockedInv, At
<1>16. KnownInv'
  <2>1. \A x \in Objects : dagRef'[x] <= dags
    BY <1>1, <1>3 DEF KnownInv, NoRef
  <2>2. \A p \in Ops : opRef'[p] <= dags
    <3>1. NoRef <= dags
      BY <1>1 DEF NoRef
    <3> QED
      BY <1>1, <1>9, <3>1 DEF KnownInv
  <2> QED
    BY <1>1, <1>2, <2>1, <2>2 DEF KnownInv
<1>17. CountInv'
  <2> SUFFICES ASSUME NEW r \in Refs PROVE Counted(r)'
    BY DEF CountInv
  <2>1. PICK n \in Nat : n = Cardinality({x \in gone : dagRef[x] = r})
    BY <1>6
  <2>2. PICK c \in Int : c = Same(opRef[o], r)
    BY <1>7
  <2>3. PICK a \in Int, d \in Int : a = -n /\ d = -c
    OBVIOUS
  <2>4. /\ IsFiniteSet(Uses(Objects, dagRef', r))
        /\ Cardinality(Uses(Objects, dagRef', r)) = Cardinality(Uses(Objects, dagRef, r)) + a
    <3>1. Cardinality(Uses(Objects, dagRef, r)) \in Nat
      BY <1>1, Parts
    <3> QED
      BY <1>6, <2>1, <2>3, <3>1
  <2>5. /\ IsFiniteSet(Uses(Ops, opRef', r))
        /\ Cardinality(Uses(Ops, opRef', r)) = Cardinality(Uses(Ops, opRef, r)) + d
    <3>1. IsFiniteSet(Uses(Ops, opRef, r)) /\ Cardinality(Uses(Ops, opRef, r)) \in Nat
      BY <1>1, Parts
    <3>2. Replaced(Ops, opRef, opRef', o, NoRef)
      BY <1>9 DEF Replaced
    <3>3. /\ IsFiniteSet(Uses(Ops, opRef', r))
          /\ Cardinality(Uses(Ops, opRef', r)) = Cardinality(Uses(Ops, opRef, r))
                - Same(opRef[o], r) + Same(NoRef, r)
      BY ONLY <3>1, <3>2, UsesSet, o \in Ops
    <3>4. Same(NoRef, r) = 0
      BY LockAssumption DEF Same, Refs, NoRef
    <3> QED
      BY ONLY <2>2, <2>3, <3>1, <3>3, <3>4
  <2>6. refCount'[r] = refCount[r] + a + 0 + d - Same(Own(thread[t]), r) + Same(Own(thread[t]), r)
                          - Times(r, thread[t].samples) + Times(r, thread[t].samples)
    <3>1. PICK k \in Nat : k = Times(r, thread[t].samples)
      <4>1. thread[t].samples \in Seq(Refs \cup {NoRef})
        BY <1>1 DEF Record
      <4> QED
        BY <4>1, TimesFinite
    <3>2. PICK s \in Int : s = Same(Own(thread[t]), r)
      BY DEF Same
    <3>3. refCount[r] \in Int /\ refCount'[r] = refCount[r] + (-n - c)
      BY <1>1, <1>8, <2>1, <2>2 DEF Typed
    <3> QED
      BY ONLY <2>3, <3>1, <3>2, <3>3, n \in Nat, c \in Int
  <2>7. Typed /\ CountInv /\ UNCHANGED oldDagRef
    BY <1>1, <1>2
  <2>8. thread[t] \in Record
    BY <1>1
  <2> QED
    BY ONLY <1>4, <2>4, <2>5, <2>6, <2>7, <2>8, Parts, Balance, t \in Threads, r \in Refs,
       a \in Int, d \in Int, 0 \in Int
<1>18. LeakInv'
  <2>1. \A x \in Objects \ Locks[t] : oldDagRef'[x] = oldDagRef[x]
    BY <1>2
  <2>2. ASSUME NEW d \in Dags, dagMutex'[d] # Nobody, dagMutex'[d] = t
        PROVE  Claims(t, d)'
    <3>1. Claims(t, d) /\ CallOK(t, thread[t])
      BY <1>1, <1>2, <2>2 DEF LeakInv, CallInv
    <3>2. At(t, "insert") \/ At(t, "hold")
      BY DEF DestroyOp
    <3>3. CASE At(t, "insert") /\ dagOf[thread[t].ref] = d
      <4>1. thread[t].ref \in Refs /\ Own(thread'[t]) = thread[t].ref /\ thread[t].ref # NoRef
        BY <1>1, <1>2, <3>1, <3>3 DEF CallOK, Record, Own, At
      <4>2. refCount'[thread[t].ref] # 0
        BY <1>17, <4>1, HeldAfter
      <4>3. dagOf'[thread[t].ref] = d
        BY <1>8, <3>3, <4>1, <4>2
      <4> QED
        BY <1>2, <3>3, <4>3 DEF Claims, At
    <3>4. CASE At(t, "hold") /\ oldDagRef[thread[t].obj] # NoRef /\ dagOf[oldDagRef[thread[t].obj]] = d
      <4>1. thread[t].obj \in Objects
        BY <3>1, <3>4, LockAssumption DEF CallOK, At, Locking
      <4>2. /\ oldDagRef'[thread[t].obj] = oldDagRef[thread[t].obj]
            /\ oldDagRef[thread[t].obj] \in Refs
        BY <1>1, <1>2, <3>4, <4>1 DEF Typed
      <4>3. refCount'[oldDagRef[thread[t].obj]] # 0
        BY <1>17, <3>4, <4>1, <4>2, HeldAfter
      <4>4. dagOf'[oldDagRef[thread[t].obj]] = d
        BY <1>8, <3>4, <4>2, <4>3
      <4> QED
        BY <1>2, <3>4, <4>4 DEF Claims, At
    <3> QED
      BY <3>1, <3>2, <3>3, <3>4 DEF Claims, At
  <2>3. \A d \in Dags : dagMutex'[d] # Nobody
              => (dagMutex'[d] = t /\ Claims(t, d)') \/ (dagMutex'[d] # t /\ dagMutex'[d] = dagMutex[d])
    BY <1>2, <2>2
  <2> QED
    BY <1>1, <1>4, <1>8, <1>17, <2>1, <2>3, OwnLocks, LeakKept
<1> QED
  BY <1>11, <1>13, <1>14, <1>15, <1>16, <1>17, <1>18 DEF CountingInv
----------------------------------------------------------------------------
LEMMA CountingInit == Init => CountingInv
<1> SUFFICES ASSUME Init PROVE CountingInv
  OBVIOUS
<1>1. /\ thread = [t \in Threads |-> Idle] /\ dagRef = [x \in Objects |-> NoRef]
      /\ oldDagRef = [x \in Objects |-> NoRef] /\ opRef = [o \in Ops |-> NoRef]
      /\ opObjects = [o \in Ops |-> <<>>] /\ dagOf = [r \in Refs |-> NoDag]
      /\ refCount = [r \in Refs |-> 0] /\ dagMutex = [d \in Dags |-> Nobody]
      /\ dags = 0 /\ inserted = 0 /\ MaxOps \in Nat
  BY LockAssumption DEF Init
<1>2. /\ Idle \in Record
      /\ Idle.at = "idle" /\ Idle.ref = NoRef /\ Idle.samples = <<>>
  BY IdleRecord DEF Idle
<1>3. Typed
  <2>1. <<>> \in Seq(Objects)
    OBVIOUS
  <2> QED
    BY <1>1, <1>2, <2>1 DEF Typed
<1>4. CallInv
  BY <1>1, <1>2 DEF CallInv, CallOK, Before, Locking
<1>5. OpInv /\ LockedInv
  BY <1>1, <1>2 DEF OpInv, LockedInv, Before
<1>6. KnownInv
  BY <1>1, <1>2 DEF KnownInv, NoRef
<1>7. CountInv
  <2> SUFFICES ASSUME NEW r \in Refs PROVE Counted(r)
    BY DEF CountInv
  <2>1. r # NoRef
    BY LockAssumption DEF Refs, NoRef
  <2>2. /\ Uses(Objects, dagRef, r) = {} /\ Uses(Objects, oldDagRef, r) = {}
        /\ Uses(Ops, opRef, r) = {}
    BY <1>1, <2>1 DEF Uses
  <2>3. Uses(Threads, Owned(thread), r) = {}
    BY <1>1, <1>2, <2>1 DEF Uses, Owned, Own
  <2>4. Samples(thread, r) = {}
    BY <1>1, <1>2 DEF Samples
  <2>5. refCount[r] = 0
    BY <1>1
  <2> QED
    BY ONLY <2>2, <2>3, <2>4, <2>5, FS_EmptySet DEF Counted
<1>8. LeakInv
  BY <1>1 DEF LeakInv
<1> QED
  BY <1>3, <1>4, <1>5, <1>6, <1>7, <1>8 DEF CountingInv

LEMMA CountingNext ==
    ASSUME OwnLocks
    PROVE  CountingInv /\ [Next]_vars => CountingInv'
<1> SUFFICES ASSUME CountingInv, [Next]_vars PROVE CountingInv'
  OBVIOUS
<1>1. CASE UNCHANGED vars
  BY <1>1 DEF vars, refVars, objVars, opVars, CountingInv, Typed, CallInv, CallOK, OpInv, LockedInv,
     KnownInv, CountInv, Counted, LeakInv, Claims, At, FirstRef, LowerFirst
<1>2. ASSUME NEW t \in Threads, Step(t) PROVE CountingInv'
  BY <1>2, SetObjectRefCounts, BeginMergeCounts, EndIterateCounts, SleepCounts, LockFirstCounts,
     LockSecondCounts, LockDagCounts, EndInsertCounts, LockObjectDagCounts,
     LockMutexInsideCounts, LockMutexCounts, UnlockDagCounts, UnlockMutexCounts DEF Step
<1>3. ASSUME NEW t \in Threads, DestroyOp(t) PROVE CountingInv'
  BY <1>3, DestroyOpCounts
<1>4. ASSUME NEW t \in Threads, NEW call \in Calls[t], SampleRefs(t, call) PROVE CountingInv'
  BY <1>4, SampleRefsCounts
<1>5. ASSUME NEW t \in Threads, NEW x \in Locks[t], LockObject(t, x) PROVE CountingInv'
  BY <1>5, LockObjectCounts
<1> QED
  BY <1>1, <1>2, <1>3, <1>4, <1>5 DEF Next

LEMMA CountingAlways ==
    ASSUME OwnLocks
    PROVE  Spec => []CountingInv
  BY CountingInit, CountingNext, PTL DEF Spec

\* The mutexes of the manager and of the objects: who holds one is on the way to
\* unlock it, whatever two threads lock.  No references are needed here, only where
\* a thread is.
Managing == {"iterate", "first", "second", "lock", "dag", "inside"}
Owning == {"hold", "unlock"}

HeldInv == /\ objectMutex \in [Objects -> Threads \cup {Nobody}]
           /\ ManagerWillBeFree
           /\ ObjectsWillBeFree

\* One thread goes on as w.
LEMMA HeldReplaced ==
    ASSUME Inv, HeldInv, NEW t \in Threads, NEW w,
           thread' = [thread EXCEPT ![t] = w],
           manager' = manager \/ manager' \in {t, Nobody},
           manager' = t => w.at \in Managing,
           objectMutex' \in [Objects -> Threads \cup {Nobody}],
           \A x \in Objects : objectMutex'[x] \in {objectMutex[x], t, Nobody},
           \A x \in Objects : objectMutex'[x] = t => w.obj = x /\ w.at \in Owning
    PROVE  HeldInv'
<1>1. thread' = [u \in Threads |-> IF u = t THEN w ELSE thread[u]]
  BY DEF Inv
<1>2. ManagerWillBeFree'
  <2> SUFFICES ASSUME NEW u \in Threads, manager' = u
               PROVE  thread'[u].at \in Managing
    BY DEF ManagerWillBeFree, Managing
  <2>1. CASE u = t
    BY <1>1, <2>1
  <2>2. CASE u # t
    <3>1. manager = u /\ thread'[u] = thread[u]
      BY <1>1, <2>2, LockAssumption
    <3> QED
      BY <3>1 DEF HeldInv, ManagerWillBeFree, Managing
  <2> QED
    BY <2>1, <2>2
<1>3. ObjectsWillBeFree'
  <2> SUFFICES ASSUME NEW x \in Objects, objectMutex'[x] # Nobody
               PROVE  /\ thread'[objectMutex'[x]].obj = x
                      /\ thread'[objectMutex'[x]].at \in Owning
    BY DEF ObjectsWillBeFree, At, Owning
  <2>1. CASE objectMutex'[x] = t
    BY <1>1, <2>1
  <2>2. CASE objectMutex'[x] # t
    <3>1. PICK u \in Threads : u = objectMutex'[x]
      OBVIOUS
    <3>2. objectMutex[x] = u /\ u # Nobody /\ thread'[u] = thread[u]
      BY <1>1, <2>2, <3>1
    <3> QED
      BY <3>1, <3>2 DEF HeldInv, ObjectsWillBeFree, At, Owning
  <2> QED
    BY <2>1, <2>2
<1> QED
  BY <1>2, <1>3 DEF HeldInv

\* One that holds no object's mutex goes on.
LEMMA HeldByOthers ==
    ASSUME Inv, HeldInv, NEW t \in Threads, NEW w,
           thread' = [thread EXCEPT ![t] = w], UNCHANGED objectMutex,
           thread[t].at \notin Owning,
           manager' = manager \/ manager' \in {t, Nobody},
           manager' = t => w.at \in Managing
    PROVE  HeldInv'
<1>1. \A x \in Objects : objectMutex'[x] = objectMutex[x] /\ objectMutex[x] # t
  BY LockAssumption DEF HeldInv, ObjectsWillBeFree, At, Owning
<1>2. objectMutex' \in [Objects -> Threads \cup {Nobody}]
  BY DEF HeldInv
<1> QED
  BY <1>1, <1>2, HeldReplaced

\* Where a thread is after a step, and what it locks.
LEMMA Goes ==
    ASSUME Inv, NEW t \in Threads, NEW l, thread' = [thread EXCEPT ![t].at = l]
    PROVE  \E w : thread' = [thread EXCEPT ![t] = w] /\ w.at = l /\ w.obj = thread[t].obj
<1>1. PICK a, o, r, s, i, x, d1, d2 :
          thread[t] = [at |-> a, op |-> o, ref |-> r, samples |-> s, i |-> i,
                       obj |-> x, dag1 |-> d1, dag2 |-> d2]
  BY Fields DEF Inv
<1>2. PICK w : w = [thread[t] EXCEPT !.at = l]
  OBVIOUS
<1>3. w.at = l /\ w.obj = thread[t].obj
  BY <1>1, <1>2
<1> QED
  BY <1>2, <1>3

\* A thread that locks another DAG stays where it is.
LEMMA Remains ==
    ASSUME Inv, NEW t \in Threads, NEW v, thread' = [thread EXCEPT ![t].ref = v]
    PROVE  \E w : thread' = [thread EXCEPT ![t] = w] /\ w.at = thread[t].at
<1>1. PICK w : w = [thread[t] EXCEPT !.ref = v]
  OBVIOUS
<1>2. w.at = thread[t].at
  BY <1>1, SetRef DEF Inv
<1> QED
  BY <1>1, <1>2

\* Starting a call
LEMMA HeldBegin ==
    ASSUME Inv, HeldInv, NEW t \in Threads, NEW c, SampleRefs(t, c) \/ LockObject(t, c)
    PROVE  HeldInv'
<1>1. /\ manager = Nobody /\ thread[t].at = "idle" /\ UNCHANGED objectMutex
      /\ Nobody # t
  BY LockAssumption DEF SampleRefs, LockObject, At
<1>2. CASE SampleRefs(t, c)
  <2>1. PICK o, r, s : thread' = [thread EXCEPT ![t] =
                        [Idle EXCEPT !.at = "iterate", !.op = o, !.ref = r, !.samples = s]]
    BY <1>2 DEF SampleRefs
  <2>2. PICK w : w = [Idle EXCEPT !.at = "iterate", !.op = o, !.ref = r, !.samples = s]
    OBVIOUS
  <2>3. thread' = [thread EXCEPT ![t] = w] /\ w.at = "iterate" /\ manager' = t
    BY <1>2, <2>1, <2>2 DEF SampleRefs, Idle
  <2> QED
    BY <1>1, <2>3, HeldByOthers DEF Owning, Managing
<1>3. CASE LockObject(t, c) /\ dagRef[c] = NoRef
  <2>1. PICK w : w = [Idle EXCEPT !.at = "mutex", !.obj = c]
    OBVIOUS
  <2>2. thread' = [thread EXCEPT ![t] = w] /\ manager' = manager
    BY <1>3, <2>1 DEF LockObject
  <2> QED
    BY <1>1, <2>2, HeldByOthers DEF Owning
<1>4. CASE LockObject(t, c) /\ dagRef[c] # NoRef
  <2>1. PICK w : w = [Idle EXCEPT !.at = "dag", !.obj = c, !.ref = dagRef[c]]
    OBVIOUS
  <2>2. thread' = [thread EXCEPT ![t] = w] /\ w.at = "dag" /\ manager' = t
    BY <1>4, <2>1 DEF LockObject, Idle
  <2> QED
    BY <1>1, <2>2, HeldByOthers DEF Owning, Managing
<1> QED
  BY <1>2, <1>3, <1>4

\* insert(): no object's mutex is touched.
LEMMA HeldInsert ==
    ASSUME Inv, HeldInv, NEW t \in Threads,
           \/ SetObjectRef(t) \/ BeginMerge(t) \/ EndIterate(t)
           \/ LockFirst(t) \/ LockSecond(t) \/ LockDag(t) \/ EndInsert(t)
    PROVE  HeldInv'
<1>0. UNCHANGED objectMutex /\ thread[t].at \notin Owning /\ Nobody # t
  BY LockAssumption DEF SetObjectRef, BeginMerge, EndIterate, LockFirst, LockSecond, LockDag,
     EndInsert, At, Owning
<1>1. ASSUME NEW w, thread' = [thread EXCEPT ![t] = w],
             manager' = Nobody \/ (manager' = t /\ w.at \in Managing)
      PROVE  HeldInv'
  BY <1>0, <1>1, HeldByOthers
<1>2. CASE LockDag(t) \/ EndInsert(t)
  <2>1. manager' = Nobody /\ \E w : thread' = [thread EXCEPT ![t] = w]
    BY <1>2 DEF LockDag, EndInsert
  <2> QED
    BY <1>1, <2>1
<1>3. CASE SetObjectRef(t) \/ BeginMerge(t) \/ EndIterate(t) \/ LockFirst(t) \/ LockSecond(t)
  <2>1. manager' = t
    BY <1>3 DEF SetObjectRef, BeginMerge, EndIterate, LockFirst, LockSecond, Has
  <2>2. PICK a, o, r, s, i, x, d1, d2 :
            thread[t] = [at |-> a, op |-> o, ref |-> r, samples |-> s, i |-> i,
                         obj |-> x, dag1 |-> d1, dag2 |-> d2]
    BY Fields DEF Inv
  <2>4. CASE thread[t].at = "iterate" /\ thread' = [thread EXCEPT ![t] = [thread[t] EXCEPT !.i = thread[t].i + 1]]
    <3>1. PICK w : w = [thread[t] EXCEPT !.i = thread[t].i + 1]
      OBVIOUS
    <3>2. w.at = "iterate"
      BY <3>1, <2>2, <2>4
    <3>3. thread' = [thread EXCEPT ![t] = w]
      BY <2>4, <3>1
    <3> QED
      BY <1>1, <2>1, <3>2, <3>3 DEF Managing
  <2>5. CASE thread' = [thread EXCEPT ![t] = [thread[t] EXCEPT !.at = "first", !.dag1 = dagOf[thread[t].ref],
            !.dag2 = dagOf[thread[t].samples[thread[t].i]]]]
    <3>1. PICK w : w = [thread[t] EXCEPT !.at = "first", !.dag1 = dagOf[thread[t].ref],
            !.dag2 = dagOf[thread[t].samples[thread[t].i]]]
      OBVIOUS
    <3>2. w.at = "first"
      BY <3>1, <2>2
    <3>3. thread' = [thread EXCEPT ![t] = w]
      BY <2>5, <3>1
    <3> QED
      BY <1>1, <2>1, <3>2, <3>3 DEF Managing
  <2>6. CASE thread' = [thread EXCEPT ![t] = [thread[t] EXCEPT !.at = "lock"]]
    <3>1. PICK w : w = [thread[t] EXCEPT !.at = "lock"]
      OBVIOUS
    <3>2. w.at = "lock"
      BY <3>1, <2>2
    <3>3. thread' = [thread EXCEPT ![t] = w]
      BY <2>6, <3>1
    <3> QED
      BY <1>1, <2>1, <3>2, <3>3 DEF Managing
  <2>7. CASE thread' = [thread EXCEPT ![t] = [thread[t] EXCEPT !.at = "second"]]
    <3>1. PICK w : w = [thread[t] EXCEPT !.at = "second"]
      OBVIOUS
    <3>2. w.at = "second"
      BY <3>1, <2>2
    <3>3. thread' = [thread EXCEPT ![t] = w]
      BY <2>7, <3>1
    <3> QED
      BY <1>1, <2>1, <3>2, <3>3 DEF Managing
  <2>8. CASE thread' = [thread EXCEPT ![t] = [thread[t] EXCEPT !.at = "iterate", !.i = 1]]
    <3>1. PICK w : w = [thread[t] EXCEPT !.at = "iterate", !.i = 1]
      OBVIOUS
    <3>2. w.at = "iterate"
      BY <3>1, <2>2
    <3>3. thread' = [thread EXCEPT ![t] = w]
      BY <2>8, <3>1
    <3> QED
      BY <1>1, <2>1, <3>2, <3>3 DEF Managing
  <2> QED
    BY <1>3, <2>4, <2>5, <2>6, <2>7, <2>8
    DEF SetObjectRef, BeginMerge, EndIterate, LockFirst, LockSecond, Goto, At
<1> QED
  BY <1>2, <1>3

\* lock() and unlock(): the DAG first,
LEMMA HeldLockDag ==
    ASSUME Inv, HeldInv, NEW t \in Threads, LockObjectDag(t)
    PROVE  HeldInv'
<1>1. UNCHANGED objectMutex /\ thread[t].at = "dag" /\ Nobody # t
  BY LockAssumption DEF LockObjectDag, At
<1>2. \/ manager' = t /\ thread' = [thread EXCEPT ![t].at = "inside"]
      \/ manager' = t /\ thread' = [thread EXCEPT ![t].ref = dagRef[thread[t].obj]]
      \/ manager' = Nobody /\ thread' = [thread EXCEPT ![t].at = "hold"]
  BY DEF LockObjectDag, Goto
<1>3. PICK w : /\ thread' = [thread EXCEPT ![t] = w]
               /\ manager' = t => w.at \in Managing
  <2>1. CASE manager' = t /\ thread' = [thread EXCEPT ![t].at = "inside"]
    <3>1. PICK w : w = [thread[t] EXCEPT !.at = "inside"]
      OBVIOUS
    <3>2. thread' = [thread EXCEPT ![t] = w]
      BY <2>1, <3>1
    <3>3. IsThread(thread[t])
      BY DEF Inv
    <3>4. w.at = "inside"
      BY <3>1, <3>3, SetAt
    <3> QED
      BY <3>2, <3>4 DEF Managing
  <2>2. CASE manager' = t /\ thread' = [thread EXCEPT ![t].ref = dagRef[thread[t].obj]]
    <3>1. PICK v : thread' = [thread EXCEPT ![t].ref = v]
      BY ONLY <2>2
    <3>2. PICK w : thread' = [thread EXCEPT ![t] = w] /\ w.at = thread[t].at
      BY ONLY Inv, t \in Threads, <3>1, Remains
    <3> QED
      BY <1>1, <3>2 DEF Managing
  <2>3. CASE manager' = Nobody /\ thread' = [thread EXCEPT ![t].at = "hold"]
    BY <1>1, <2>3, Goes
  <2> QED
    BY <1>2, <2>1, <2>2, <2>3
<1>4. manager' \in {t, Nobody}
  BY <1>2
<1> QED
  BY <1>1, <1>3, <1>4, HeldByOthers DEF Owning

\* then the object's mutex.
LEMMA HeldLockMutex ==
    ASSUME Inv, HeldInv, NEW t \in Threads, LockMutexInside(t) \/ LockMutex(t)
    PROVE  HeldInv'
<1>1. /\ objectMutex' = [objectMutex EXCEPT ![thread[t].obj] = t]
      /\ thread' = [thread EXCEPT ![t].at = "hold"]
      /\ thread[t].at \notin Owning
      /\ objectMutex \in [Objects -> Threads \cup {Nobody}]
  BY DEF LockMutexInside, LockMutex, Goto, At, Owning, HeldInv
<1>2. PICK w : thread' = [thread EXCEPT ![t] = w] /\ w.at = "hold" /\ w.obj = thread[t].obj
  BY <1>1, Goes
<1>3. \A x \in Objects : objectMutex[x] # t
  BY <1>1, LockAssumption DEF HeldInv, ObjectsWillBeFree, At, Owning
<1>4. \A x \in Objects : objectMutex'[x] = IF x = thread[t].obj THEN t ELSE objectMutex[x]
  BY <1>1
<1>5. manager' # t /\ (manager' = manager \/ manager' = Nobody)
  <2>1. CASE LockMutexInside(t)
    BY <2>1, LockAssumption DEF LockMutexInside
  <2>2. CASE LockMutex(t)
    BY <2>2 DEF LockMutex, HeldInv, ManagerWillBeFree, At
  <2> QED
    BY <2>1, <2>2
<1>6. objectMutex' \in [Objects -> Threads \cup {Nobody}]
  BY <1>1
<1>7. /\ \A x \in Objects : objectMutex'[x] \in {objectMutex[x], t, Nobody}
      /\ \A x \in Objects : objectMutex'[x] = t => w.obj = x /\ w.at \in Owning
  BY <1>2, <1>3, <1>4 DEF Owning
<1> QED
  BY ONLY Inv, HeldInv, t \in Threads, <1>2, <1>5, <1>6, <1>7, HeldReplaced

\* unlock() unlocks the DAGs,
LEMMA HeldUnlockDag ==
    ASSUME Inv, HeldInv, NEW t \in Threads, UnlockDag(t)
    PROVE  HeldInv'
<1>1. /\ manager' = Nobody /\ UNCHANGED objectMutex /\ Nobody # t
      /\ thread' = [thread EXCEPT ![t].at = "unlock"]
      /\ objectMutex \in [Objects -> Threads \cup {Nobody}]
  BY LockAssumption DEF UnlockDag, Goto, HeldInv
<1>2. PICK w : thread' = [thread EXCEPT ![t] = w] /\ w.at = "unlock" /\ w.obj = thread[t].obj
  BY <1>1, Goes
<1>3. \A x \in Objects : objectMutex[x] = t => thread[t].obj = x
  BY LockAssumption DEF HeldInv, ObjectsWillBeFree
<1>4. /\ \A x \in Objects : objectMutex'[x] \in {objectMutex[x], t, Nobody}
      /\ \A x \in Objects : objectMutex'[x] = t => w.obj = x /\ w.at \in Owning
      /\ objectMutex' \in [Objects -> Threads \cup {Nobody}]
  BY <1>1, <1>2, <1>3 DEF Owning
<1> QED
  BY ONLY Inv, HeldInv, t \in Threads, <1>1, <1>2, <1>4, HeldReplaced

\* and the object's mutex, whoever holds it: its own is not left locked.
LEMMA HeldUnlockMutex ==
    ASSUME Inv, HeldInv, NEW t \in Threads, UnlockMutex(t)
    PROVE  HeldInv'
<1>1. /\ manager' = manager /\ thread[t].at = "unlock"
      /\ objectMutex' = [objectMutex EXCEPT ![thread[t].obj] = Nobody]
      /\ thread' = [thread EXCEPT ![t] = Idle]
      /\ objectMutex \in [Objects -> Threads \cup {Nobody}]
  BY DEF UnlockMutex, At, HeldInv
<1>2. manager # t
  BY <1>1 DEF HeldInv, ManagerWillBeFree
<1>3. \A x \in Objects : objectMutex[x] = t => thread[t].obj = x
  BY LockAssumption DEF HeldInv, ObjectsWillBeFree
<1>4. \A x \in Objects : objectMutex'[x] = IF x = thread[t].obj THEN Nobody ELSE objectMutex[x]
  BY <1>1
<1>5. /\ \A x \in Objects : objectMutex'[x] \in {objectMutex[x], t, Nobody}
      /\ \A x \in Objects : objectMutex'[x] # t
      /\ objectMutex' \in [Objects -> Threads \cup {Nobody}]
  BY <1>1, <1>3, <1>4, LockAssumption
<1>6. PICK w : w = Idle /\ thread' = [thread EXCEPT ![t] = w]
  BY <1>1
<1> QED
  BY ONLY Inv, HeldInv, t \in Threads, <1>1, <1>2, <1>5, <1>6, HeldReplaced

LEMMA HeldNext == Inv /\ HeldInv /\ [Next]_vars => HeldInv'
<1> SUFFICES ASSUME Inv, HeldInv, [Next]_vars PROVE HeldInv'
  OBVIOUS
<1>1. ASSUME UNCHANGED <<thread, objectMutex>>, manager' = manager \/ manager' = Nobody
      PROVE  HeldInv'
  BY <1>1, LockAssumption DEF HeldInv, ManagerWillBeFree, ObjectsWillBeFree, At
<1>2. CASE UNCHANGED vars
  BY <1>1, <1>2 DEF vars
<1>3. ASSUME NEW t \in Threads, Sleep(t) PROVE HeldInv'
  BY <1>1, <1>3 DEF Sleep, Wait
<1>4. ASSUME NEW t \in Threads, DestroyOp(t) PROVE HeldInv'
  BY <1>1, <1>4 DEF DestroyOp
<1>5. ASSUME NEW t \in Threads, Step(t) PROVE HeldInv'
  BY <1>3, <1>5, HeldInsert, HeldLockDag, HeldLockMutex, HeldUnlockDag, HeldUnlockMutex DEF Step
<1> QED
  BY <1>2, <1>4, <1>5, HeldBegin DEF Next

LEMMA HeldInit == Init => HeldInv
  BY LockAssumption DEF Init, HeldInv, ManagerWillBeFree, ObjectsWillBeFree

LEMMA HeldAlways == Spec => []HeldInv
  BY InitInv, NextInv, HeldInit, HeldNext, PTL DEF Spec

----------------------------------------------------------------------------
\* Every reference to a DAG counts exactly those that hold it - objects, operations,
\* samples and threads in the middle of insert(), lock() and merging - for any
\* number of them: none is deleted under its holder, none outlives the last.  No two
\* threads lock() the same object.
THEOREM RefCountsCorrect ==
    ASSUME OwnLocks
    PROVE  Spec => []RefCountsExact
<1>1. CountingInv => RefCountsExact
  <2> SUFFICES ASSUME CountingInv, NEW r \in Refs
               PROVE  refCount[r] = Cardinality(Holders(r))
    BY DEF RefCountsExact
  <2>1. Counted(r) /\ r # NoRef
    BY LockAssumption DEF CountingInv, CountInv, Refs, NoRef
  <2> QED
    BY <2>1, HoldersAdded DEF Counted
<1> QED
  BY <1>1, CountingAlways, PTL

\* Every mutex of the library that is held - the manager's, a DAG's, an object's - is
\* held by a thread that is on its way to unlock it: no merging, no object that left
\* its DAG or joined another one leaves one locked behind, for any number of
\* threads, if no two of them lock() the same object.  (Only the DAGs need that
\* hypothesis.)
THEOREM NoLockLeftLocked ==
    ASSUME OwnLocks
    PROVE  Spec => []NoLockLeaked
<1>1. CountingInv => DagsWillBeFree
  BY DEF CountingInv, LeakInv, Claims, DagsWillBeFree
<1>2. HeldInv => ManagerWillBeFree /\ ObjectsWillBeFree
  BY DEF HeldInv
<1> QED
  BY <1>1, <1>2, CountingAlways, HeldAlways, PTL DEF NoLockLeaked
==============================================================================
