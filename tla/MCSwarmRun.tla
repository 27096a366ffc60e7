----------------------------- MODULE MCSwarmRun -----------------------------
(***************************************************************************)
(* SwarmRun on a few agents and hand-picked plans: a join, a ladder,       *)
(* a cycle, a dependency nobody registered, and no agent at all.           *)
(***************************************************************************)
EXTENDS SwarmRun, TLC

CONSTANTS a, b, c

Join == (a :> {}) @@ (b :> {}) @@ (c :> {a, b})
Ladder == (a :> {}) @@ (b :> {a}) @@ (c :> {a, b})
Cycle == (a :> {}) @@ (b :> {c}) @@ (c :> {b})
Dangling == (a :> {}) @@ (b :> {c})

AllPlans == {NoGraph, Join, Ladder, Cycle, Dangling}
JoinAndLadder == {Join, Ladder}
=============================================================================
