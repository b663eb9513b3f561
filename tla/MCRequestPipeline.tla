------------------------- MODULE MCRequestPipeline -------------------------
\* A small instance of RequestPipeline for TLC.
EXTENDS RequestPipeline, TLC

\* Requests are interchangeable, and no temporal property is checked.
RequestSymmetry == Permutations(Request)
=============================================================================
