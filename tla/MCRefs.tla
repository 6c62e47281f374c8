------------------------------- MODULE MCRefs -------------------------------
(* Instances of Refs: lists of two hashes over trees of degree 2 and 3.      *)
EXTENDS Refs

CONSTANTS h1, h2

Hashes == {h1, h2}
TwoThree == {2, 3}
SomeFlags == {{}, {"table"}, {"lazy"}, {"table", "lazy"}}
Parts == {<<0, 3>>, <<2, 5>>}
Batch == {<<h1>>, <<h2, h1>>, <<h2, h1, h1, h2, h1>>}
=============================================================================
