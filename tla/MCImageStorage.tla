--------------------------- MODULE MCImageStorage ---------------------------
(* ImageStorage on small instances: an image of two areas as one tile or   *)
(* as two, with a child image that shows the second.                       *)
EXTENDS ImageStorage, TLC

CONSTANTS mem, dev, app, h1, h2, v1, v2, none, nobuf, noval, b1, b2, b3, b4, b5

TwoAreas == {1, 2}
OneOrTwoTiles == {{{1, 2}}, {{1}, {2}}}
SecondArea == {2}
TwoThreads == {h1, h2}
TwoValues == {v1, v2}
FiveBuffers == {b1, b2, b3, b4, b5}
\* Buffers are as good as each other: New() takes any that is free.
Symmetries == Permutations(TwoThreads) \cup Permutations(TwoValues) \cup Permutations(FiveBuffers)
NoneUnreliable == {}
MemoryUnreliable == {mem}
DeviceUnreliable == {dev}
OneOtherDevice == {dev}
=============================================================================
