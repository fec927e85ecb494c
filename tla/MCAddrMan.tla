----------------------------- MODULE MCAddrMan -----------------------------
(***************************************************************************)
(* Four peers at three addresses, three sources, three new buckets, two    *)
(* of them enough for an entry, and two tried buckets.  p1 and p2 share an *)
(* address; p1, p2 and p3 share a tried bucket, so that tried entries are  *)
(* evicted; a source decides the new bucket, so that an entry may be in    *)
(* several and all of them may be full.                                    *)
(***************************************************************************)
EXTENDS AddrMan, TLC

MCIpOf == ("p1" :> "a1") @@ ("p2" :> "a1") @@ ("p3" :> "a2") @@ ("p4" :> "a3")
MCNewBucketOf == [x \in Service \X Source |-> CASE x[2] = "s1" -> 1 [] x[2] = "s2" -> 2 [] OTHER -> 3]
MCTriedBucketOf == [s \in Service |-> IF s = "p4" THEN 2 ELSE 1]
=============================================================================
