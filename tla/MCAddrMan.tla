------------------------------ MODULE MCAddrMan ------------------------------
(* Few slots, so that addresses collide in both tables. *)
EXTENDS AddrMan, TLC

\* The second service is the first one's host with another port.
MCServices == 1..4
MCNet == <<"x", "x", "y", "z">>
MCBuckets == {0, 1}

\* Service and source decide the new bucket, in which only the last host has a
\* place of its own; in the tried bucket two hosts have the same place.
MCGetNewBucket == [k \in {1} \X MCServices \X MCBuckets |-> (k[2] + k[3]) % 2]
MCGetTriedBucket == [k \in {1} \X MCServices |-> 0]
MCGetBucketPosition ==
    [k \in {1} \X {"N", "K"} \X MCBuckets \X MCServices |->
        IF k[2] = "K" THEN k[4] % 2 ELSE IF k[4] = 4 THEN 1 ELSE 0]
=============================================================================
