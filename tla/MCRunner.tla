------------------------------- MODULE MCRunner -------------------------------
(* Runner with one quote for every bucket.                   *)
EXTENDS Runner

MCTheo == {4}
WholeBuckets == {2 * b : b \in Bucket}
OnePrice == {[bid |-> 1, ask |-> 2, bucket |-> b] : b \in Bucket}
===============================================================================
