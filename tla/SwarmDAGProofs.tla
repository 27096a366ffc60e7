--------------------------- MODULE SwarmDAGProofs ---------------------------
(***************************************************************************)
(* Proofs about SwarmDAG, for every set of agents.                         *)
(***************************************************************************)
EXTENDS SwarmDAG, FiniteSetTheorems, TLAPS

\* Registered and the counters keep their shape whatever is added, re-added or
\* sorted; in particular an edge only ever leads to a registered agent, so
\* topological_sort's `in_degree[downstream] -= 1` finds its key.
THEOREM TypeCorrect == Spec => []TypeOK
<1>1. Init => TypeOK
  BY DEF Init, TypeOK, Registered, Phases
<1>2. TypeOK /\ [Next]_vars => TypeOK'
  <2> SUFFICES ASSUME TypeOK, [Next]_vars PROVE TypeOK'
    OBVIOUS
  <2> USE DEF TypeOK, Registered, Phases
  <2>1. ASSUME NEW aid \in Agents, NEW dependencies \in SUBSET Agents,
               AddNode(aid, dependencies)
        PROVE  TypeOK'
    BY <2>1 DEF AddNode, Linked
  <2>2. CASE StartSort
    <3>1. ASSUME NEW a \in DOMAIN nodes PROVE Cardinality(nodes[a]) \in Int
      <4>1. IsFiniteSet(nodes[a])
        BY AgentsFinite, FS_Subset
      <4> QED BY <4>1, FS_CardinalityType
    <3> QED BY <2>2, <3>1 DEF StartSort, InitialDegrees
  <2>3. CASE SortLayer
    <3>1. ReadyLayer \subseteq remaining
      BY DEF ReadyLayer
    <3>2. ASSUME NEW a \in DOMAIN nodes PROVE Decrements(a, ReadyLayer) \in Int
      <4>1. IsFiniteSet({d \in ReadyLayer : a \in edges[d]})
        BY <3>1, AgentsFinite, FS_Subset
      <4> QED BY <4>1, FS_CardinalityType DEF Decrements
    <3> QED BY <2>3, <3>1, <3>2 DEF SortLayer
  <2>4. CASE SortRaises
    BY <2>4 DEF SortRaises, sortVars
  <2>5. CASE SortReturns
    BY <2>5 DEF SortReturns, sortVars
  <2>6. CASE UNCHANGED vars
    BY <2>6 DEF vars, sortVars
  <2> QED BY <2>1, <2>2, <2>3, <2>4, <2>5, <2>6 DEF Next, Sort
<1> QED BY <1>1, <1>2, PTL DEF Spec
-----------------------------------------------------------------------------
(* The sort.                                                               *)

\* What one turn of the loop removes: exactly the agents whose dependencies have
\* all been emitted (and some of those with forgotten dependencies).
LEMMA ReadyIffReleased ==
  ASSUME TypeOK, CountersExact, phase = "sorting", NEW a \in remaining, ~ Stale(a)
  PROVE  a \in ReadyLayer <=> nodes[a] \subseteq Emitted
<1>1. a \in Registered /\ nodes[a] \subseteq Agents
  BY DEF TypeOK
<1>2. IsFiniteSet(nodes[a] \ Emitted)
  BY <1>1, AgentsFinite, FS_Subset
<1>3. inDegree[a] = Cardinality(nodes[a] \ Emitted)
  BY <1>1 DEF CountersExact
<1> QED BY <1>2, <1>3, FS_EmptySet DEF ReadyLayer

\* Appending a layer adds its agents to what is emitted and touches no earlier
\* layer.
LEMMA AppendedLayer ==
  ASSUME TypeOK, SortLayer
  PROVE  /\ DOMAIN layers' = 1 .. Len(layers) + 1
         /\ DOMAIN layers = 1 .. Len(layers) /\ Len(layers) \in Nat
         /\ \A i \in 1 .. Len(layers) : layers'[i] = layers[i]
         /\ layers'[Len(layers) + 1] = ReadyLayer
         /\ Len(layers') = Len(layers) + 1
         /\ Emitted = UNION {layers[j] : j \in 1 .. Len(layers)}
         /\ Emitted' = Emitted \cup ReadyLayer
<1>1. layers \in Seq(SUBSET Registered) /\ ReadyLayer \in SUBSET Registered
  BY DEF TypeOK, ReadyLayer
<1>2. layers' = Append(layers, ReadyLayer)
  BY DEF SortLayer
<1>3. /\ DOMAIN layers' = 1 .. Len(layers) + 1
      /\ DOMAIN layers = 1 .. Len(layers) /\ Len(layers) \in Nat
      /\ \A i \in 1 .. Len(layers) : layers'[i] = layers[i]
      /\ layers'[Len(layers) + 1] = ReadyLayer
      /\ Len(layers') = Len(layers) + 1
  BY <1>1, <1>2
<1>4. Emitted = UNION {layers[j] : j \in 1 .. Len(layers)}
  BY <1>3 DEF Emitted, Range
<1>5. Emitted' = UNION {layers'[j] : j \in 1 .. Len(layers) + 1}
  BY <1>3 DEF Emitted, Range
<1>6. Emitted' = Emitted \cup ReadyLayer
  BY <1>3, <1>4, <1>5
<1> QED BY <1>3, <1>4, <1>6

\* A sort that has emitted no layer has settled nobody.
LEMMA NothingEmitted ==
  ASSUME layers = <<>> PROVE Emitted = {}
BY DEF Emitted, Range

LayersDisjoint == \A i, j \in DOMAIN layers : i # j => layers[i] \cap layers[j] = {}

Inv == TypeOK /\ SortInvariant /\ DependencyOrder /\ LayersDisjoint /\ LayersAreTight

\* Nobody's dependencies are forgotten while the plan stays as it is.
LEMMA StaleUnchanged ==
  ASSUME UNCHANGED <<nodes, edges>>, NEW a PROVE Stale(a)' <=> Stale(a)
BY DEF Stale

\* One turn of the loop keeps the counters exact: the edges of the removed layer
\* to an agent without forgotten dependencies are dependencies of that agent.
LEMMA SortLayerCounts ==
  ASSUME TypeOK, SortInvariant, SortLayer
  PROVE  CountersExact'
<1>1. phase = "sorting" /\ UNCHANGED <<nodes, edges, phase>>
  BY DEF SortLayer
<1>2. Emitted' = Emitted \cup ReadyLayer /\ ReadyLayer \cap Emitted = {}
  BY <1>1, AppendedLayer DEF ReadyLayer, SortInvariant, Bookkeeping
<1>3. ASSUME NEW a \in Registered, ~ Stale(a)
      PROVE  inDegree'[a] = Cardinality(nodes[a] \ Emitted')
  <2> DEFINE uncounted == nodes[a] \ Emitted
  <2>1. IsFiniteSet(uncounted)
    BY <1>3, AgentsFinite, FS_Subset DEF TypeOK
  <2>2. inDegree[a] = Cardinality(uncounted)
    BY <1>1, <1>3 DEF SortInvariant, CountersExact
  <2>3. {d \in ReadyLayer : a \in edges[d]} = uncounted \cap ReadyLayer
    BY <1>2, <1>3 DEF SortInvariant, EdgesComplete, Stale, ReadyLayer, TypeOK
  <2>4. inDegree'[a] = Cardinality(uncounted) - Cardinality(uncounted \cap ReadyLayer)
    BY <1>3, <2>2, <2>3 DEF SortLayer, Decrements
  <2>5. Cardinality(uncounted \ ReadyLayer)
          = Cardinality(uncounted) - Cardinality(uncounted \cap ReadyLayer)
    BY <2>1, FS_Difference
  <2>6. uncounted \ ReadyLayer = nodes[a] \ Emitted'
    BY <1>2
  <2> QED BY <2>4, <2>5, <2>6
<1> QED BY <1>1, <1>3, StaleUnchanged DEF CountersExact, Registered

\* No counter lags behind: an edge leads to an agent from each of its dependencies,
\* so every dependency that is removed is counted down.
LEMMA SortLayerNeverLags ==
  ASSUME TypeOK, SortInvariant, SortLayer
  PROVE  CountersNeverLag'
<1>1. phase = "sorting" /\ UNCHANGED <<nodes, edges, phase>>
  BY DEF SortLayer
<1>2. Emitted' = Emitted \cup ReadyLayer
  BY AppendedLayer
<1>3. ASSUME NEW a \in Registered
      PROVE  inDegree'[a] <= Cardinality(nodes[a] \ Emitted')
  <2> DEFINE uncounted == nodes[a] \ Emitted
             counted == {d \in ReadyLayer : a \in edges[d]}
  <2>1. IsFiniteSet(uncounted) /\ IsFiniteSet(counted)
    BY AgentsFinite, FS_Subset DEF TypeOK, ReadyLayer
  <2>2. uncounted \cap ReadyLayer \subseteq counted
    BY DEF SortInvariant, EdgesComplete
  <2>3. Cardinality(uncounted \cap ReadyLayer) <= Cardinality(counted)
    BY <2>1, <2>2, FS_Subset
  <2>4. Cardinality(uncounted \ ReadyLayer)
          = Cardinality(uncounted) - Cardinality(uncounted \cap ReadyLayer)
    BY <2>1, FS_Difference
  <2>5. uncounted \ ReadyLayer = nodes[a] \ Emitted'
    BY <1>2
  <2>6. inDegree[a] <= Cardinality(uncounted) /\ inDegree[a] \in Int
    BY <1>1 DEF SortInvariant, CountersNeverLag, TypeOK
  <2>7. inDegree'[a] = inDegree[a] - Cardinality(counted)
    BY DEF SortLayer, Decrements
  <2>8. /\ Cardinality(uncounted) \in Nat /\ Cardinality(counted) \in Nat
        /\ Cardinality(uncounted \cap ReadyLayer) \in Nat
    <3>1. IsFiniteSet(uncounted \cap ReadyLayer)
      BY <2>1, FS_Intersection
    <3>2. \A S : IsFiniteSet(S) => Cardinality(S) \in Nat
      BY FS_CardinalityType
    <3> HIDE DEF uncounted, counted
    <3> QED BY <2>1, <3>1, <3>2
  <2> HIDE DEF uncounted, counted
  <2>9. inDegree'[a] <= Cardinality(uncounted \ ReadyLayer)
    BY <2>3, <2>4, <2>6, <2>7, <2>8
  <2> QED BY <2>5, <2>9
<1> QED BY <1>1, <1>3 DEF CountersNeverLag, Registered

\* One turn of the while loop keeps the invariant.
LEMMA SortLayerKeepsInv ==
  ASSUME Inv, SortLayer
  PROVE  TypeOK' => Inv'
<1> USE DEF Inv
<1>1. phase = "sorting" /\ UNCHANGED <<nodes, edges, phase>> /\ ReadyLayer # {}
  BY DEF SortLayer
<1>2. /\ DOMAIN layers' = 1 .. Len(layers) + 1
      /\ DOMAIN layers = 1 .. Len(layers) /\ Len(layers) \in Nat
      /\ \A i \in 1 .. Len(layers) : layers'[i] = layers[i]
      /\ layers'[Len(layers) + 1] = ReadyLayer
      /\ Len(layers') = Len(layers) + 1
      /\ Emitted = UNION {layers[j] : j \in 1 .. Len(layers)}
      /\ Emitted' = Emitted \cup ReadyLayer
  BY AppendedLayer
<1>3. Emitted = Registered \ remaining /\ remaining \subseteq Registered
  BY <1>1 DEF SortInvariant, Bookkeeping, TypeOK
<1>4. \A a \in remaining : Stale(a) \/ (a \in ReadyLayer <=> nodes[a] \subseteq Emitted)
  BY <1>1, ReadyIffReleased DEF SortInvariant
<1>5. ReadyLayer \subseteq remaining /\ remaining' = remaining \ ReadyLayer
  BY DEF ReadyLayer, SortLayer
<1>0. \A a : Stale(a)' <=> Stale(a)
  BY <1>1, StaleUnchanged
<1>6. SortInvariant'
  <2>1. EdgesComplete'
    BY <1>1 DEF SortInvariant, EdgesComplete, Registered
  <2>2. CountersExact'
    BY SortLayerCounts
  <2>6. CountersNeverLag'
    BY SortLayerNeverLags
  <2>3. Bookkeeping'
    BY <1>1, <1>2, <1>3, <1>5 DEF Bookkeeping, Registered
  <2>4. ReleasedByLastLayer'
    <3>1. \A a \in remaining' :
             nodes[a] \subseteq Emitted \cup ReadyLayer =>
                 nodes[a] \cap ReadyLayer # {} \/ Stale(a)
      BY <1>4, <1>5
    <3> QED BY <1>0, <1>1, <1>2, <3>1 DEF ReleasedByLastLayer
  <2>5. BlockedAgentsRemain'
    <3>1. ASSUME NEW S \in SUBSET Registered, Blocked(S) PROVE S \subseteq remaining \ ReadyLayer
      <4>1. S \subseteq remaining
        BY <1>1, <3>1 DEF SortInvariant, BlockedAgentsRemain
      <4>2. ASSUME NEW a \in S, a \in ReadyLayer PROVE FALSE
        <5>1. nodes[a] \subseteq Registered \ remaining
          BY <1>3, <1>4, <3>1, <4>1, <4>2 DEF Blocked
        <5> QED BY <3>1, <4>1, <5>1 DEF Blocked, Waits
      <4> QED BY <4>1, <4>2
    <3>2. \A S : Blocked(S)' <=> Blocked(S)
      BY <1>0, <1>1 DEF Blocked, Waits, Registered
    <3> QED BY <1>1, <1>5, <3>1, <3>2 DEF BlockedAgentsRemain, Registered
  <2> QED BY <2>1, <2>2, <2>3, <2>4, <2>5, <2>6 DEF SortInvariant
<1>7. DependencyOrder'
  <2>1. ASSUME NEW i \in 1 .. Len(layers) + 1, NEW a \in layers'[i], ~ Stale(a)
        PROVE  nodes[a] \subseteq UNION {layers'[j] : j \in 1 .. i - 1}
    <3>1. CASE i \in 1 .. Len(layers)
      <4>1. nodes[a] \subseteq UNION {layers[j] : j \in 1 .. i - 1}
        BY <1>2, <2>1, <3>1 DEF DependencyOrder
      <4>2. \A j \in 1 .. i - 1 : layers'[j] = layers[j]
        BY <1>2, <3>1
      <4> QED BY <4>1, <4>2
    <3>2. CASE i = Len(layers) + 1
      <4>1. nodes[a] \subseteq UNION {layers[j] : j \in 1 .. Len(layers)}
        BY <1>2, <1>4, <1>5, <2>1, <3>2
      <4>2. i - 1 = Len(layers)
        BY <1>2, <3>2
      <4> QED BY <1>2, <4>1, <4>2
    <3> QED BY <1>2, <2>1, <3>1, <3>2
  <2> QED BY <1>0, <1>1, <1>2, <2>1 DEF DependencyOrder
<1>8. LayersDisjoint'
  <2>1. \A i \in 1 .. Len(layers) : layers[i] \cap ReadyLayer = {}
    BY <1>2, <1>3, <1>5
  <2> QED BY <1>2, <2>1 DEF LayersDisjoint
<1>9. LayersAreTight'
  <2>1. ASSUME NEW i \in 1 .. Len(layers) + 1, i > 1, NEW a \in layers'[i], ~ Stale(a)
        PROVE  nodes[a] \cap layers'[i - 1] # {}
    <3>1. CASE i \in 1 .. Len(layers)
      <4>1. nodes[a] \cap layers[i - 1] # {}
        BY <1>2, <2>1, <3>1 DEF LayersAreTight
      <4>2. i - 1 \in 1 .. Len(layers)
        BY <1>2, <2>1, <3>1
      <4> QED BY <1>2, <4>1, <4>2
    <3>2. CASE i = Len(layers) + 1
      <4>1. a \in remaining /\ nodes[a] \subseteq Emitted /\ layers # <<>>
        BY <1>2, <1>4, <1>5, <2>1, <3>2
      <4>2. nodes[a] \cap layers[Len(layers)] # {}
        BY <1>1, <2>1, <4>1 DEF SortInvariant, ReleasedByLastLayer
      <4> QED BY <1>2, <2>1, <3>2, <4>2
    <3> QED BY <1>2, <2>1, <3>1, <3>2
  <2> QED BY <1>0, <1>1, <1>2, <2>1 DEF LayersAreTight
<1> QED BY <1>6, <1>7, <1>8, <1>9

\* Every step keeps the invariant.
LEMMA NextKeepsInv ==
  ASSUME Inv, [Next]_vars, TypeOK'
  PROVE  Inv'
<1> USE DEF Inv
<1>1. ASSUME NEW aid \in Agents, NEW dependencies \in SUBSET Agents,
             AddNode(aid, dependencies)
      PROVE  Inv'
  <2>1. layers' = <<>> /\ phase' = "building"
    BY <1>1 DEF AddNode, Linked
  <2>2. EdgesComplete'
    BY <1>1 DEF AddNode, Linked, SortInvariant, EdgesComplete, Registered, TypeOK
  <2> QED
    BY <2>1, <2>2 DEF SortInvariant, CountersExact, CountersNeverLag, Bookkeeping,
         ReleasedByLastLayer, BlockedAgentsRemain, DependencyOrder, LayersDisjoint,
         LayersAreTight
<1>2. CASE StartSort
  <2>1. /\ layers' = <<>> /\ Emitted' = {} /\ phase' = "sorting"
        /\ remaining' = Registered' /\ UNCHANGED <<nodes, edges>>
        /\ \A a \in Registered : inDegree'[a] = Cardinality(nodes[a])
    BY <1>2, NothingEmitted DEF StartSort, InitialDegrees, Emitted, Registered, Range
  <2>2. EdgesComplete'
    BY <2>1 DEF SortInvariant, EdgesComplete, Registered
  <2>3. CountersExact' /\ CountersNeverLag'
    <3>1. ASSUME NEW a \in Registered
          PROVE  nodes[a] \ {} = nodes[a] /\ Cardinality(nodes[a]) \in Int
      BY AgentsFinite, FS_Subset, FS_CardinalityType DEF TypeOK
    <3> QED BY <2>1, <3>1 DEF CountersExact, CountersNeverLag, Registered
  <2>4. Bookkeeping' /\ ReleasedByLastLayer' /\ BlockedAgentsRemain'
    BY <2>1 DEF Bookkeeping, ReleasedByLastLayer, BlockedAgentsRemain
  <2> QED
    BY <2>1, <2>2, <2>3, <2>4
       DEF SortInvariant, DependencyOrder, LayersDisjoint, LayersAreTight
<1>3. CASE SortLayer
  BY <1>3, SortLayerKeepsInv
<1>4. CASE SortRaises \/ SortReturns \/ UNCHANGED vars
  <2>1. UNCHANGED <<nodes, edges, sortVars>> /\ Emitted' = Emitted
    BY <1>4 DEF SortRaises, SortReturns, vars, Emitted, sortVars
  <2>2. phase # "building" <=> phase' # "building"
    BY <1>4 DEF SortRaises, SortReturns, vars
  <2>3. Bookkeeping'
    BY <1>4, <2>1 DEF SortInvariant, Bookkeeping, SortRaises, SortReturns, vars,
                      sortVars, ReadyLayer, Registered
  <2>4. \A a : Stale(a)' <=> Stale(a)
    BY <2>1, StaleUnchanged
  <2>5. \A S : Blocked(S)' <=> Blocked(S)
    BY <2>1, <2>4 DEF Blocked, Waits, Registered
  <2>6. EdgesComplete' /\ CountersExact' /\ CountersNeverLag' /\ ReleasedByLastLayer'
        /\ BlockedAgentsRemain'
    BY <2>1, <2>2, <2>4, <2>5
       DEF SortInvariant, EdgesComplete, CountersExact, CountersNeverLag,
           ReleasedByLastLayer, BlockedAgentsRemain, Registered, sortVars
  <2> QED
    BY <2>1, <2>3, <2>4, <2>6
       DEF SortInvariant, DependencyOrder, LayersDisjoint, LayersAreTight, sortVars
<1> QED BY <1>1, <1>2, <1>3, <1>4 DEF Next, Sort

\* The inductive invariant holds in every state, for every set of agents and
\* however often an agent id is registered.
THEOREM InvHolds ==
  Spec => []Inv
<1>1. Init => Inv
  <2> SUFFICES ASSUME Init PROVE Inv
    OBVIOUS
  <2>1. TypeOK
    BY DEF Init, TypeOK, Registered, Phases
  <2>2. layers = <<>> /\ phase = "building"
    BY DEF Init
  <2>3. EdgesComplete
    BY DEF Init, EdgesComplete, Registered
  <2> QED
    BY <2>1, <2>2, <2>3 DEF Inv, SortInvariant, CountersExact, CountersNeverLag, Bookkeeping,
         ReleasedByLastLayer, BlockedAgentsRemain, DependencyOrder, LayersDisjoint,
         LayersAreTight
<1>2. Inv /\ [Next]_vars /\ TypeOK' => Inv'
  BY NextKeepsInv
<1> QED BY <1>1, <1>2, TypeCorrect, PTL DEF Spec

\* topological_sort only ever places an agent after all of its dependencies
\* (swarm/nvidia_swarm_core.py:50-63), whatever the plan.
THEOREM DependencyOrderHolds ==
  Spec => []DependencyOrder
<1>1. Inv => DependencyOrder
  BY DEF Inv
<1> QED BY <1>1, InvHolds, PTL

\* Emitted and remaining agents partition the plan.
Partition == /\ LayersDisjoint
             /\ phase # "building" => Emitted = Registered \ remaining
             /\ phase = "sorted" => remaining = {}

\* Every agent is placed once, and a sort that returns has placed them all; this
\* needs no more than that a layer is taken out of `remaining`.
THEOREM EachAgentOnceHolds == Spec => []EachAgentOnce
<1>1. Init => Partition
  BY DEF Init, Partition, LayersDisjoint
<1>2. Partition /\ TypeOK /\ [Next]_vars => Partition'
  <2> SUFFICES ASSUME Partition, TypeOK, [Next]_vars PROVE Partition'
    OBVIOUS
  <2>1. ASSUME NEW aid \in Agents, NEW dependencies \in SUBSET Agents,
               AddNode(aid, dependencies)
        PROVE  Partition'
    BY <2>1 DEF AddNode, Partition, LayersDisjoint
  <2>2. CASE StartSort
    <3>1. layers' = <<>> /\ Emitted' = {} /\ phase' = "sorting"
          /\ remaining' = Registered /\ Registered' = Registered
      BY <2>2, NothingEmitted DEF StartSort, Emitted, Range, Registered
    <3> QED BY <3>1 DEF Partition, LayersDisjoint
  <2>3. CASE SortLayer
    <3>1. /\ DOMAIN layers' = 1 .. Len(layers) + 1
          /\ DOMAIN layers = 1 .. Len(layers) /\ Len(layers) \in Nat
          /\ \A i \in 1 .. Len(layers) : layers'[i] = layers[i]
          /\ layers'[Len(layers) + 1] = ReadyLayer
          /\ Emitted = UNION {layers[j] : j \in 1 .. Len(layers)}
          /\ Emitted' = Emitted \cup ReadyLayer
      BY <2>3, AppendedLayer
    <3>2. /\ phase = "sorting" /\ phase' = "sorting" /\ Registered' = Registered
          /\ remaining' = remaining \ ReadyLayer /\ ReadyLayer \subseteq remaining
          /\ remaining \subseteq Registered
      BY <2>3 DEF SortLayer, ReadyLayer, Registered, TypeOK
    <3>3. Emitted = Registered \ remaining
      BY <3>2 DEF Partition
    <3>4. \A i \in 1 .. Len(layers) : layers[i] \cap ReadyLayer = {}
      BY <3>1, <3>2, <3>3
    <3>5. LayersDisjoint'
      BY <3>1, <3>4 DEF Partition, LayersDisjoint
    <3>6. Emitted' = Registered' \ remaining'
      BY <3>1, <3>2, <3>3
    <3> QED BY <3>2, <3>5, <3>6 DEF Partition
  <2>4. CASE SortRaises \/ SortReturns \/ UNCHANGED vars
    <3>1. UNCHANGED <<layers, remaining>> /\ Emitted' = Emitted /\ Registered' = Registered
      BY <2>4 DEF SortRaises, SortReturns, vars, sortVars, Emitted, Registered
    <3>2. /\ phase' # "building" => phase # "building"
          /\ phase' = "sorted" => remaining = {}
      BY <2>4 DEF SortRaises, SortReturns, vars, sortVars, Partition
    <3> QED BY <3>1, <3>2 DEF Partition, LayersDisjoint
  <2> QED BY <2>1, <2>2, <2>3, <2>4 DEF Next, Sort
<1>3. Partition => EachAgentOnce
  BY DEF Partition, LayersDisjoint, EachAgentOnce
<1> QED BY <1>1, <1>2, <1>3, TypeCorrect, PTL DEF Spec

\* No agent is placed later than its dependencies force it to be.
THEOREM LayersAreTightHolds ==
  Spec => []LayersAreTight
<1>1. Inv => LayersAreTight
  BY DEF Inv
<1> QED BY <1>1, InvHolds, PTL

\* topological_sort raises only beside agents that block one another, wait for an id
\* nobody registered or were counted down past zero for a dependency they no longer
\* have, and never returns a plan in which agents without forgotten dependencies
\* block one another.
THEOREM SortOutcomeIsJustifiedHolds ==
  Spec => []SortOutcomeIsJustified
<1>1. Inv => SortOutcomeIsJustified
  <2> SUFFICES ASSUME Inv PROVE SortOutcomeIsJustified
    OBVIOUS
  <2> USE DEF Inv
  <2>1. CASE phase = "raised"
    <3>1. /\ Emitted = Registered \ remaining /\ remaining \subseteq Registered
          /\ remaining # {} /\ ReadyLayer = {}
      BY <2>1 DEF SortInvariant, Bookkeeping, TypeOK
    <3>2. ASSUME NEW a \in remaining
          PROVE  Waits(a, remaining) \/ (Stale(a) /\ inDegree[a] < 0)
      <4>1. nodes[a] \subseteq Agents /\ inDegree[a] \in Int /\ inDegree[a] # 0
        BY <2>1, <3>1 DEF TypeOK, ReadyLayer
      <4>2. IsFiniteSet(nodes[a] \ Emitted)
        BY <4>1, AgentsFinite, FS_Subset
      <4>3. CASE inDegree[a] < 0
        <5>1. inDegree[a] # Cardinality(nodes[a] \ Emitted)
          BY <4>1, <4>2, <4>3, FS_CardinalityType
        <5> QED BY <2>1, <3>1, <4>3, <5>1 DEF SortInvariant, CountersExact
      <4>4. CASE inDegree[a] > 0
        <5>1. Cardinality(nodes[a] \ Emitted) # 0
          BY <2>1, <3>1, <4>1, <4>2, <4>4, FS_CardinalityType
             DEF SortInvariant, CountersNeverLag
        <5>2. nodes[a] \ Emitted # {}
          BY <5>1, FS_EmptySet
        <5> QED BY <3>1, <4>1, <5>2 DEF Waits
      <4> QED BY <4>1, <4>3, <4>4
    <3> QED BY <2>1, <3>1, <3>2 DEF SortOutcomeIsJustified
  <2>2. CASE phase = "sorted"
    BY <2>2 DEF SortInvariant, Bookkeeping, BlockedAgentsRemain, SortOutcomeIsJustified
  <2>3. CASE phase \notin {"raised", "sorted"}
    BY <2>3 DEF SortOutcomeIsJustified
  <2> QED BY <2>1, <2>2, <2>3
<1> QED BY <1>1, InvHolds, PTL

\* A plan in which no agent was registered again with fewer dependencies is refused
\* exactly if some of its agents wait for one another or for an id nobody registered.
RefusedExactlyWhenBlocked ==
  (\A a \in Registered : ~ Stale(a)) =>
      LET blocked == \E S \in (SUBSET Registered) \ {{}} : \A a \in S : Waits(a, S)
      IN  /\ phase = "raised" => blocked
          /\ phase = "sorted" => ~ blocked

\* For such plans, which are all that callers who register each agent once can make,
\* the "Cycle detected" of topological_sort is right and never missing.
THEOREM RefusedExactlyWhenBlockedHolds == Spec => []RefusedExactlyWhenBlocked
<1>1. SortOutcomeIsJustified => RefusedExactlyWhenBlocked
  <2> SUFFICES ASSUME SortOutcomeIsJustified, \A a \in Registered : ~ Stale(a)
               PROVE  LET blocked == \E S \in (SUBSET Registered) \ {{}} :
                                         \A a \in S : Waits(a, S)
                      IN  /\ phase = "raised" => blocked
                          /\ phase = "sorted" => ~ blocked
    BY DEF RefusedExactlyWhenBlocked
  <2>1. \A S \in SUBSET Registered : (\A a \in S : Waits(a, S)) => Blocked(S)
    BY DEF Blocked
  <2> QED BY <2>1 DEF SortOutcomeIsJustified
<1> QED BY <1>1, SortOutcomeIsJustifiedHolds, PTL
-----------------------------------------------------------------------------
(* Refinement.                                                             *)

\* The layers topological_sort emits are a dependency schedule: every step of
\* add_node and topological_sort is a step of DependencySchedule or leaves it
\* alone.
THEOREM ImplementsSchedule ==
  Spec => ScheduleSpec
<1>1. Init => Schedule!Init
  BY NothingEmitted DEF Init, Schedule!Init, Schedule!IsPlan, Plan, Registered
<1>2. Inv /\ TypeOK' /\ [Next]_vars => [Schedule!Next]_(Schedule!vars)
  <2> SUFFICES ASSUME Inv, TypeOK', [Next]_vars
               PROVE  [Schedule!Next]_(Schedule!vars)
    OBVIOUS
  <2> USE DEF Inv
  <2>0. Schedule!IsPlan(Plan')
    BY DEF TypeOK, Plan, Registered, Schedule!IsPlan
  <2>1. ASSUME NEW aid \in Agents, NEW dependencies \in SUBSET Agents,
               AddNode(aid, dependencies)
        PROVE  Schedule!Submit
    <3>1. Emitted' = {}
      BY <2>1 DEF AddNode, Linked, Emitted, Range
    <3> QED BY <2>0, <3>1 DEF Schedule!Submit
  <2>2. ASSUME StartSort PROVE Schedule!Submit
    <3>1. Emitted' = {}
      BY <2>2 DEF StartSort, InitialDegrees, Emitted, Range
    <3> QED BY <2>0, <3>1 DEF Schedule!Submit
  <2>3. ASSUME SortLayer PROVE Schedule!Settle(ReadyLayer)
    <3>1. Emitted' = Emitted \cup ReadyLayer /\ ReadyLayer # {} /\ Plan' = Plan
      <4>1. UNCHANGED <<nodes, edges>>
        BY <2>3 DEF SortLayer
      <4> QED BY <2>3, <4>1, AppendedLayer, StaleUnchanged DEF SortLayer, Plan, Registered
    <3>2. /\ Emitted = Registered \ remaining
          /\ ReadyLayer \subseteq remaining /\ remaining \subseteq Registered
      BY <2>3 DEF SortInvariant, Bookkeeping, SortLayer, ReadyLayer, TypeOK
    <3>3. \A a \in ReadyLayer : Plan[a] \subseteq Emitted
      BY <2>3, <3>2, ReadyIffReleased DEF SortInvariant, SortLayer, Plan
    <3> QED BY <3>1, <3>2, <3>3 DEF Schedule!Settle, Plan
  <2>4. ASSUME SortRaises \/ SortReturns \/ UNCHANGED vars
        PROVE  UNCHANGED <<Plan, Emitted>>
    <3>1. UNCHANGED <<nodes, edges, layers>>
      BY <2>4 DEF SortRaises, SortReturns, vars, sortVars
    <3> QED BY <3>1, StaleUnchanged DEF Plan, Registered, Emitted
  <2>5. ReadyLayer \in SUBSET Agents
    BY DEF ReadyLayer, TypeOK
  <2> QED
    BY <2>1, <2>2, <2>3, <2>4, <2>5 DEF Next, Sort, Schedule!Next, Schedule!vars
<1> QED BY <1>1, <1>2, InvHolds, TypeCorrect, PTL DEF Spec, Schedule!Spec, ScheduleSpec

\* The guarantee of a schedule: whatever is settled, all that it rests on is.
LEMMA ScheduleIsClosed == ScheduleSpec => []Schedule!SettledIsClosed
<1>1. Schedule!Init => Schedule!SettledIsClosed
  BY DEF Schedule!Init, Schedule!SettledIsClosed
<1>2. Schedule!SettledIsClosed /\ [Schedule!Next]_(Schedule!vars) => Schedule!SettledIsClosed'
  <2> SUFFICES ASSUME Schedule!SettledIsClosed, [Schedule!Next]_(Schedule!vars)
               PROVE  Schedule!SettledIsClosed'
    OBVIOUS
  <2>1. CASE Schedule!Submit
    BY <2>1 DEF Schedule!Submit, Schedule!SettledIsClosed
  <2>2. ASSUME NEW group \in SUBSET Agents, Schedule!Settle(group) PROVE Schedule!SettledIsClosed'
    BY <2>2 DEF Schedule!Settle, Schedule!SettledIsClosed
  <2>3. CASE UNCHANGED Schedule!vars
    BY <2>3 DEF Schedule!vars, Schedule!SettledIsClosed
  <2> QED BY <2>1, <2>2, <2>3 DEF Schedule!Next
<1> QED BY <1>1, <1>2, PTL DEF ScheduleSpec, Schedule!Spec

\* The layers topological_sort has emitted are closed under what their agents wait
\* for, for every plan, also one that is extended or replaced between two sorts.
THEOREM EmittedIsClosed == Spec => []Schedule!SettledIsClosed
BY ImplementsSchedule, ScheduleIsClosed, PTL
=============================================================================
