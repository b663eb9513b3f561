---------------------------- MODULE MCResolver ----------------------------
\* A small instance of Resolver for TLC.
EXTENDS Resolver, TLC

CONSTANTS t1, t2

MCToken == {t1, t2}
MCNotBefore == (t1 :> 0) @@ (t2 :> 2)
MCExpiresAt == (t1 :> 1) @@ (t2 :> 3)
\* Both tokens share a shard.
MCShardOf == (t1 :> 0) @@ (t2 :> 0)
MCFaultSets ==
  {{}, {"capability required"}, {"arguments"}, {"signature"}, {"target"}}
\* The requests are interchangeable, and no temporal property is checked.
RequestSymmetry == Permutations(Request)
=============================================================================
