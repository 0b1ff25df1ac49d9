--------------------------- MODULE FlushContract ---------------------------
(***************************************************************************)
(* What flush() promises to the threads that ask for tiles of a deferred   *)
(* destination, without locks, functions and reference counts: tiles are   *)
(* computed, then become evaluated for ever; a thread is told success when *)
(* all the tiles it needs are evaluated, or failure, which invalidates the *)
(* destination and evaluates tiles nobody has computed.                    *)
(***************************************************************************)
CONSTANTS Threads, Tiles, Needs

VARIABLES computed, evaluated, valid, answer

vars == <<computed, evaluated, valid, answer>>

Init == /\ computed \subseteq Tiles
        /\ evaluated = {}
        /\ valid = TRUE
        /\ answer = [t \in Threads |-> "none"]

Compute(S) == /\ S \subseteq Tiles
              /\ computed' = computed \cup S
              /\ UNCHANGED <<evaluated, valid, answer>>

\* S becomes evaluated; a thread may get its answer in the same step.
Evaluate(S) == /\ S \subseteq computed
               /\ evaluated' = evaluated \cup S
               /\ UNCHANGED <<computed, valid>>

Succeed(t, S) == /\ answer[t] = "none"
                 /\ Evaluate(S)
                 /\ Needs[t] \subseteq evaluated' \/ ~valid
                 /\ answer' = [answer EXCEPT ![t] = "success"]

Fail(t, S) == /\ answer[t] = "none"
              /\ S \subseteq Tiles
              /\ evaluated' = evaluated \cup S
              /\ valid' = FALSE
              /\ answer' = [answer EXCEPT ![t] = "failure"]
              /\ UNCHANGED computed

Next == \E S \in SUBSET Tiles :
            \/ Compute(S)
            \/ Evaluate(S) /\ UNCHANGED answer
            \/ \E t \in Threads : Succeed(t, S) \/ Fail(t, S)

Spec == Init /\ [][Next]_vars
============================================================================
