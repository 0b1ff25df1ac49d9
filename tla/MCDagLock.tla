----------------------------- MODULE MCDagLock -----------------------------
(* The calls of the threads in the DagLock runs.                           *)
EXTENDS DagLock, TLC

\* Two threads meet in B and C, only one of them knows A.
Meeting == "t" :> {<<"A", "B">>, <<"A", "C">>} @@ "u" :> {<<"C">>, <<"C", "B">>}
OwnEnd == "t" :> {"A"} @@ "u" :> {}

\* Both threads write both images, one of them also looks at them.
Shared == "t" :> {<<"A">>, <<"A", "B">>} @@ "u" :> {<<"B">>, <<"A", "B">>}
Reader == "t" :> {} @@ "u" :> {"A", "B"}

\* An operation that joins two DAGs and an object of none
Joining == "t" :> {<<"A">>, <<"A", "B", "C">>} @@ "u" :> {<<"B">>, <<"C">>}

\* Three DAGs are merged pairwise.
Pairs == "t" :> {<<"A">>, <<"B">>, <<"B", "C">>} @@ "u" :> {<<"C">>, <<"A", "C">>, <<"A", "B">>}
Nothing == "t" :> {} @@ "u" :> {}
============================================================================
