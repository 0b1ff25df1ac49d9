----------------------------- MODULE MCOpQueue -----------------------------
(* Operations the application of the OpQueue runs inserts.                 *)
EXTENDS OpQueue

Operation(s, d, c, f) == [src |-> s, dst |-> d, covers |-> c, flush |-> f]

\* Operations without a source, from one object to another, and in place, that
\* cover what was written to their destination before (c) or leave part of it
Fill(c) == {Operation(<<>>, d, c, FALSE) : d \in Objects}
InPlace(c) == {Operation(<<x>>, x, c, FALSE) : x \in Objects}
Copy(c) == {Operation(<<x>>, d, c, FALSE) : x \in Objects, d \in Objects} \ InPlace(c)
AtOnce(calls) == {[call EXCEPT !.flush = TRUE] : call \in calls}

CoveringCalls == Fill(TRUE) \cup Copy(TRUE) \cup InPlace(TRUE) \cup AtOnce(Copy(TRUE))
PartialCalls == Fill(FALSE) \cup Copy(FALSE) \cup AtOnce(Fill(FALSE))

\* What cleanupDependents() leaves of a list: the others, in their order
ASSUME WithoutSelects ==
    \A s \in UNION {[1..n -> 1..3] : n \in 0..4} :
        Without(s, 1) = SelectSeq(s, LAMBDA d : d # 1)
============================================================================
