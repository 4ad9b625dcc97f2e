---------------------- MODULE MCAsyncResourceGatherer ----------------------
(* AsyncResourceGatherer for TLC *)
EXTENDS AsyncResourceGatherer

CONSTANTS r1, r2, r3

Three == {r1, r2, r3}
Two   == {r1, r2}
One   == {r1}
=============================================================================
