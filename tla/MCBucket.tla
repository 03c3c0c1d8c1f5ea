------------------------------ MODULE MCBucket ------------------------------
EXTENDS Bucket
CONSTANTS a, b

\* the prefix of b begins with that of a
Overlap == {<<a, b>>}
RootSidecars == {a}
NoSidecars == {}
Configured == [p \in Sidecars |-> IF p = a THEN 1 ELSE 0]
=============================================================================
