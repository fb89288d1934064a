----------------------------- MODULE MCServices -----------------------------
(* Values for TLC: issues 1 and 3 are as old as each other, 3 blocks 1.    *)
EXTENDS Services, TLC

Age == 1 :> 1 @@ 2 :> 2 @@ 3 :> 1
Needs == 1 :> {3} @@ 2 :> {} @@ 3 :> {}
Queued == {"ready", "afk", "mode"}
StartSets == {1 :> Queued @@ 2 :> Queued \cup {"P0"} @@ 3 :> Queued,
              1 :> Queued \ {"mode"} @@ 2 :> Queued \cup {"awaiting-answer", "hitl"} @@ 3 :> {}}
Priority == <<"P0">>
=============================================================================
