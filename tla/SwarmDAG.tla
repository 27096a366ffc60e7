------------------------------ MODULE SwarmDAG ------------------------------
(***************************************************************************)
(* swarm/nvidia_swarm_core.py, class SwarmDAG: the plan of a swarm run.    *)
(*                                                                         *)
(* add_node registers an agent with its dependencies and keeps a reverse   *)
(* adjacency (`edges`); topological_sort peels the plan into layers by     *)
(* counting, per agent, the dependencies that have not been emitted yet.   *)
(* The counters start from the agents' own dependency sets but are         *)
(* decremented through `edges`, so the two must agree.                     *)
(*                                                                         *)
(* topological_sort is synchronous: each action below is one iteration of  *)
(* its `while remaining` loop, and add_node cannot run in between.         *)
(***************************************************************************)
EXTENDS Integers, Sequences, FiniteSets, Functions

CONSTANT Agents      \* agent ids, registered or only named as a dependency

ASSUME AgentsFinite == IsFiniteSet(Agents)

VARIABLES nodes,       \* self.nodes: registered agent -> node.dependencies
          edges,       \* self.edges: agent -> agents downstream of it ({} if no entry)
          phase,       \* where the caller is: building, inside or after topological_sort
          inDegree,    \* in_degree of topological_sort
          remaining,   \* remaining of topological_sort
          layers       \* layers of topological_sort; the order inside a layer is
                       \* the iteration order of a Python set, so a layer is a set

sortVars == <<inDegree, remaining, layers>>
vars == <<nodes, edges, phase, sortVars>>

Registered == DOMAIN nodes

Init == /\ nodes = <<>>
        /\ edges = [d \in Agents |-> {}]
        /\ phase = "building"
        /\ inDegree = <<>>
        /\ remaining = {}
        /\ layers = <<>>

\* (mutant) edges recorded the other way round.
LinkedBackwards(aid, dependencies) ==
    [d \in Agents |-> IF d = aid THEN edges[d] \cup dependencies ELSE edges[d]]

\* The edges are only ever added to, also when aid had other dependencies before.
Linked(aid, dependencies) ==
    [d \in Agents |-> IF d \in dependencies THEN edges[d] \cup {aid} ELSE edges[d]]

AddNode(aid, dependencies) ==
    /\ phase # "sorting"
    /\ nodes' = [a \in Registered \cup {aid} |->
                    IF a = aid THEN dependencies ELSE nodes[a]]
    /\ edges' = Linked(aid, dependencies)
    /\ phase' = "building"
    /\ inDegree' = <<>> /\ remaining' = {} /\ layers' = <<>>

\* (mutant) only the dependencies that are registered count.
DegreesOfRegistered == [a \in Registered |-> Cardinality(nodes[a] \cap Registered)]

InitialDegrees == [a \in Registered |-> Cardinality(nodes[a])]

\* topological_sort is called, on a plan already sorted before or not.
StartSort ==
    /\ phase # "sorting"
    /\ phase' = "sorting"
    /\ inDegree' = InitialDegrees
    /\ remaining' = Registered
    /\ layers' = <<>>
    /\ UNCHANGED <<nodes, edges>>

\* (mutants) an off-by-one in the test of the counter; every registered agent is
\* looked at, not the remaining ones; a layer is a single agent.
ReadyLayerOffByOne == {a \in remaining : inDegree[a] <= 1}
ReadyLayerOfAll == {a \in Registered : inDegree[a] = 0}
ReadyLayerSerial == LET ready == {a \in remaining : inDegree[a] = 0}
                    IN  IF ready = {} THEN {} ELSE {CHOOSE a \in ready : TRUE}

ReadyLayer == {a \in remaining : inDegree[a] = 0}

\* How often `in_degree[a] -= 1` runs while the given layer is removed.
Decrements(a, layer) == Cardinality({d \in layer : a \in edges[d]})

SortLayer ==
    /\ phase = "sorting"
    /\ ReadyLayer # {}
    /\ layers' = Append(layers, ReadyLayer)
    /\ remaining' = remaining \ ReadyLayer
    /\ inDegree' = [a \in Registered |-> inDegree[a] - Decrements(a, ReadyLayer)]
    /\ UNCHANGED <<nodes, edges, phase>>

\* (mutant) the loop without its `if not layer`.
SortRaisesNever ==
    /\ phase = "sorting"
    /\ remaining # {}
    /\ ReadyLayer = {}
    /\ UNCHANGED vars

\* raise ValueError("Cycle detected in SwarmDAG")
SortRaises ==
    /\ phase = "sorting"
    /\ remaining # {}
    /\ ReadyLayer = {}
    /\ phase' = "raised"
    /\ UNCHANGED <<nodes, edges, sortVars>>

SortReturns ==
    /\ phase = "sorting"
    /\ remaining = {}
    /\ phase' = "sorted"
    /\ UNCHANGED <<nodes, edges, sortVars>>

Sort == SortLayer \/ SortRaises \/ SortReturns

Next == \/ \E aid \in Agents, dependencies \in SUBSET Agents : AddNode(aid, dependencies)
        \/ StartSort
        \/ Sort

Spec == Init /\ [][Next]_vars

\* topological_sort is a plain loop: once called it runs to its end.
FairSpec == Spec /\ WF_vars(Sort)
-----------------------------------------------------------------------------
Phases == {"building", "sorting", "sorted", "raised"}

\* The shape of the state: every edge leads to a registered agent, so
\* `in_degree[downstream]` is never a KeyError.
TypeOK ==
    /\ Registered \subseteq Agents
    /\ nodes \in [Registered -> SUBSET Agents]
    /\ edges \in [Agents -> SUBSET Registered]
    /\ phase \in Phases
    /\ phase = "building" => inDegree = <<>> /\ remaining = {} /\ layers = <<>>
    /\ phase # "building" => inDegree \in [Registered -> Int]
    /\ remaining \subseteq Registered
    /\ layers \in Seq(SUBSET Registered)

\* The agents topological_sort has already placed in a layer.
Emitted == UNION Range(layers)

\* An agent that was registered again without some of its former dependencies:
\* their edges still lead to it, and the sort counts them down too.
Stale(a) == \E d \in Agents : a \in edges[d] /\ d \notin nodes[a]

\* The order run_dag executes: every dependency of an agent sits in a strictly
\* earlier layer (topological_sort, swarm/nvidia_swarm_core.py:50-63). Nothing
\* but its own forgotten dependencies can make an agent overtake the others.
DependencyOrder ==
    \A i \in DOMAIN layers : \A a \in layers[i] :
        nodes[a] \subseteq UNION {layers[j] : j \in 1 .. i - 1} \/ Stale(a)

\* Each registered agent is emitted exactly once, whatever was re-registered:
\* layers are disjoint, and a sort that returns has emitted everything.
EachAgentOnce ==
    /\ \A i, j \in DOMAIN layers : i # j => layers[i] \cap layers[j] = {}
    /\ phase \in {"sorting", "raised"} => Emitted = Registered \ remaining
    /\ phase = "sorted" => Emitted = Registered

\* No agent is held back: from the second layer on, each one depends on an
\* agent of the layer just before ("DAG over serial", README).
LayersAreTight ==
    \A i \in DOMAIN layers : i > 1 =>
        \A a \in layers[i] : nodes[a] \cap layers[i - 1] # {} \/ Stale(a)

\* What stops the sort: agents that each wait for one another or for an id
\* nobody registered.
Waits(a, S) == nodes[a] \cap (S \cup (Agents \ Registered)) # {}
Blocked(S) == \A a \in S : Waits(a, S) /\ ~ Stale(a)

\* topological_sort raises only for agents that each wait for one another or for an
\* id nobody registered, beside agents whose own counter was taken past zero by
\* dependencies they had before they were registered again; it never returns a plan
\* in which agents without such a past block one another.
SortOutcomeIsJustified ==
    /\ phase = "raised" =>
           \E S \in (SUBSET Registered) \ {{}} :
               \A a \in S : Waits(a, S) \/ (Stale(a) /\ inDegree[a] < 0)
    /\ phase = "sorted" => \A S \in (SUBSET Registered) \ {{}} : ~ Blocked(S)

\* topological_sort always ends, with layers or with its ValueError.
SortTerminates == phase = "sorting" ~> phase \in {"sorted", "raised"}

-----------------------------------------------------------------------------
(* Why the sort is right: no dependency lacks its edge, so the counters of *)
(* agents without forgotten dependencies count what they are taken to.     *)
EdgesComplete == \A a \in Registered : \A d \in nodes[a] : a \in edges[d]

CountersExact ==
    phase # "building" =>
        \A a \in Registered : Stale(a) \/ inDegree[a] = Cardinality(nodes[a] \ Emitted)

\* A forgotten dependency only ever makes a counter too small.
CountersNeverLag ==
    phase # "building" =>
        \A a \in Registered : inDegree[a] <= Cardinality(nodes[a] \ Emitted)

Bookkeeping ==
    /\ phase # "building" => Emitted = Registered \ remaining
    /\ phase = "sorted" => remaining = {}
    /\ phase = "raised" => remaining # {} /\ ReadyLayer = {}

\* An agent that has just become ready was released by the last layer.
ReleasedByLastLayer ==
    phase # "building" /\ layers # <<>> =>
        \A a \in remaining : nodes[a] \subseteq Emitted =>
                                 nodes[a] \cap layers[Len(layers)] # {} \/ Stale(a)

BlockedAgentsRemain ==
    phase # "building" =>
        \A S \in SUBSET Registered : Blocked(S) => S \subseteq remaining

\* The inductive invariant of add_node and topological_sort: what is emitted,
\* what remains and what is still counted tell the same story at every turn of
\* the loop.
SortInvariant ==
    /\ EdgesComplete
    /\ CountersExact
    /\ CountersNeverLag
    /\ Bookkeeping
    /\ ReleasedByLastLayer
    /\ BlockedAgentsRemain
-----------------------------------------------------------------------------
\* The layers implement the dependency schedule of the plan in which only the
\* agents with forgotten dependencies wait for nobody.
Plan == [a \in Registered |-> IF Stale(a) THEN {} ELSE nodes[a]]

Schedule == INSTANCE DependencySchedule WITH deps <- Plan, settled <- Emitted
ScheduleSpec == Schedule!Spec
=============================================================================
