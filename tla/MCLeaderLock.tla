---------------------------- MODULE MCLeaderLock ----------------------------
(* Instances of LeaderLock: two gateway processes; the first can hold two   *)
(* supervisor objects, one left behind by an unregister/register cycle.     *)
EXTENDS LeaderLock, TLC

CONSTANTS s1, s2, s3, o1, o2

MCSupervisors == {s1, s2, s3}

MCOwners == {o1, o2}

MCOwner == s1 :> o1 @@ s2 :> o1 @@ s3 :> o2

MCPair == {s1, s3}

MCPairOwner == s1 :> o1 @@ s3 :> o2

=============================================================================
