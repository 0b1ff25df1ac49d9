----------------------------- MODULE MCOpFlush -----------------------------
(* Tile lists and regions of interest for the runs of OpFlush.             *)
EXTENDS OpFlush, TLC

\* Tile lists that overlap, as the strips of a downstream operation need them
Overlap == "a" :> <<1, 2>> @@ "b" :> <<2, 3>> @@ "c" :> <<3>>
\* Three threads that need the same tiles
Same == "a" :> <<1, 2>> @@ "b" :> <<1, 2>> @@ "c" :> <<1, 2>>
Same2 == "a" :> <<1, 2>> @@ "b" :> <<1, 2>>
\* Two threads that wait for the tiles of a third
Hub == "a" :> <<1, 2>> @@ "b" :> <<2>> @@ "c" :> <<1>>
\* Tiles another thread may have begun, behind and before others
Nested == "a" :> <<1>> @@ "b" :> <<2, 1>>
Inner == "a" :> <<1>> @@ "b" :> <<1, 2>>
Apart == "a" :> <<1>> @@ "b" :> <<2>>

AllFull == [i \in Tiles |-> "all"]
\* The region of interest ends in the first tile.
OnePart == [i \in Tiles |-> IF i = 1 THEN "part" ELSE "all"]
OneEmpty == [i \in Tiles |-> IF i = 1 THEN "none" ELSE "all"]
NoArea == [i \in Tiles |-> "none"]

\* A plain operation that never fails
Plain == [area |-> AllFull, chains |-> {1}, molecules |-> {}, noSplit |-> {},
          mayFail |-> {}, hasAlternate |-> FALSE, isIO |-> FALSE]
Doomed == [Plain EXCEPT !.mayFail = {1}]
Molecule == [Plain EXCEPT !.chains = {1, 2}, !.molecules = {2}, !.mayFail = {2}]
\* Functions for three operations are found, one of them is no molecule.
Rejected == [Molecule EXCEPT !.chains = {1, 2, 3}, !.mayFail = {2, 3}]
DoomedMolecule == [Molecule EXCEPT !.mayFail = {1, 2}, !.area = OneEmpty]
PartlyOutside == [Molecule EXCEPT !.area = OnePart]
Outside == [Plain EXCEPT !.area = NoArea]
Whole == [Rejected EXCEPT !.molecules = {3}, !.noSplit = {1, 3},
                          !.mayFail = {1, 3}, !.hasAlternate = TRUE]
WholeMolecule == [Rejected EXCEPT !.molecules = {2, 3}, !.noSplit = {2}]
Device == [Molecule EXCEPT !.isIO = TRUE, !.mayFail = {}, !.area = OneEmpty]

ContractOps == {DoomedMolecule, Outside, WholeMolecule}
RetryOps == {Rejected, PartlyOutside}
FailureOps == {Whole, WholeMolecule, Device}
PartOps == {PartlyOutside}
WholeOps == {WholeMolecule}
PlainOps == {Plain}
DoomedOps == {Doomed}
============================================================================
