----------------------------- MODULE MCHashmap -----------------------------
(* Five keys in two buckets, four of them in the bucket of genesis.        *)
EXTENDS Hashmap

CONSTANTS g, k1, k2, k3, k4

MCKeys == {g, k1, k2, k3, k4}

MCBucketOf == [k \in MCKeys |-> IF k = k4 THEN 0 ELSE 1]

=============================================================================
