--------------------------- MODULE MCReplayStore ---------------------------
\* A small instance of ReplayStore for TLC.
EXTENDS ReplayStore, TLC

CONSTANTS t1, t2

MCToken == {t1, t2}
\* The two tokens fall into different shards.
MCShardOf == (t1 :> 0) @@ (t2 :> 1)
=============================================================================
