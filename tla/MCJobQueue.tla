----------------------------- MODULE MCJobQueue -----------------------------
(* Instances of JobQueue for TLC: three sessions on two slots, the first    *)
(* with two jobs; and two sessions for the runs with faults and removals.   *)
EXTENDS JobQueueProps, TLC

MCSessionOf == 1 :> 1 @@ 2 :> 2 @@ 3 :> 1 @@ 4 :> 3
MCCreatedAt == 1 :> 1 @@ 2 :> 2 @@ 3 :> 3 @@ 4 :> 4
MCSmallSessionOf == 1 :> 1 @@ 2 :> 2 @@ 3 :> 1
MCSmallCreatedAt == 1 :> 1 @@ 2 :> 2 @@ 3 :> 2
=============================================================================
