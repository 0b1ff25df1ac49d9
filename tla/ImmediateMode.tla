--------------------------- MODULE ImmediateMode ---------------------------
(***************************************************************************)
(* What deferred execution has to look like to the application: as if      *)
(* every operation were executed at once, in the order of the calls.  An   *)
(* operation may turn out to have no result (a compute routine fails), the *)
(* application may give up the contents of an object (xil_toss()), and it  *)
(* sees the contents of an object when it synchronizes it (xil_sync()).    *)
(***************************************************************************)
EXTENDS Integers

CONSTANTS Objects,  \* deferrable objects
          Ops       \* operations, in the order of the calls

Unknown == 0-1      \* nothing the application may rely on

VARIABLES last,     \* the operation inserted last
          value,    \* the operation that wrote the contents of every object
          lost,     \* operations without a result
          shown     \* what the last xil_sync() made visible

vars == <<last, value, lost, shown>>

Init ==
    /\ last = 0
    /\ value = [x \in Objects |-> 0]
    /\ lost = {}
    /\ shown.value = Unknown

Execute(x) ==
    /\ last' = last + 1 /\ last' \in Ops
    /\ value' = [value EXCEPT ![x] = last + 1]
    /\ UNCHANGED <<lost, shown>>

\* An operation is not executed, or reads the result of one that is not.
Fail(o) ==
    /\ o <= last
    /\ lost' = lost \cup {o}
    /\ UNCHANGED <<last, value, shown>>

Toss(x) ==
    /\ value' = [value EXCEPT ![x] = Unknown]
    /\ UNCHANGED <<last, lost, shown>>

Show(x) ==
    /\ shown' = [object |-> x, value |-> IF value[x] \in lost THEN Unknown ELSE value[x]]
    /\ UNCHANGED <<last, value, lost>>

Next == \/ \E x \in Objects : Execute(x) \/ Toss(x) \/ Show(x)
        \/ \E o \in Ops : Fail(o)

Spec == Init /\ [][Next]_vars
============================================================================
