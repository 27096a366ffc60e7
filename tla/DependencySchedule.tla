------------------------- MODULE DependencySchedule -------------------------
(***************************************************************************)
(* What "execute the plan as a directed acyclic graph" promises, and       *)
(* nothing else: agents are settled in groups, an agent only once, and     *)
(* only when every agent it depends on was settled by an earlier group.    *)
(*                                                                         *)
(* SwarmDAG implements it with the layers topological_sort has emitted,    *)
(* SwarmRun with the results run_dag has recorded.                         *)
(***************************************************************************)
CONSTANT Agents       \* every agent id a plan may mention

VARIABLES deps,       \* the current plan: registered agent -> its dependencies
          settled     \* the agents of the plan settled so far

vars == <<deps, settled>>

IsPlan(plan) == /\ DOMAIN plan \subseteq Agents
                /\ plan \in [DOMAIN plan -> SUBSET Agents]

Init == /\ IsPlan(deps)
        /\ settled = {}

\* A plan is submitted or extended: what was settled of it stays as it is, or
\* everything starts again.
Submit == /\ IsPlan(deps')
          /\ settled' \in {settled, {}}
          /\ \A a \in settled' : a \in DOMAIN deps' /\ deps'[a] = deps[a]

\* A group of agents is settled together: none of them may rest on another
\* member of the group.
Settle(group) ==
    /\ group # {}
    /\ group \subseteq DOMAIN deps \ settled
    /\ \A a \in group : deps[a] \subseteq settled
    /\ settled' = settled \cup group
    /\ UNCHANGED deps

Next == Submit \/ \E group \in SUBSET Agents : Settle(group)

Spec == Init /\ [][Next]_vars

\* Whatever is settled has all of its dependencies settled.
SettledIsClosed == \A a \in settled : a \in DOMAIN deps /\ deps[a] \subseteq settled
=============================================================================
