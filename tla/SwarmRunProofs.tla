--------------------------- MODULE SwarmRunProofs ---------------------------
(***************************************************************************)
(* Proofs about SwarmRun, for every set of runs, agents and plans and      *)
(* every number of permits.                                                *)
(*                                                                         *)
(* The invariant is proved in three parts, each from the ones before: what *)
(* runs, tasks and results say about one another (RunData), the permits,   *)
(* and the semaphore's queue.                                              *)
(***************************************************************************)
EXTENDS SwarmRun, FiniteSetTheorems, SequenceTheorems, TLAPS

States == {"none"} \cup Live \cup Finished

Shape == /\ pc \in [Runs -> {"idle", "gather", "cancelling"} \cup Over]
         /\ dag \in [Runs -> Graphs \cup {NoGraph}]
         /\ task \in [Tasks -> States]
         /\ prompt \in [Tasks -> SUBSET Agents]
         /\ results \in [Tasks -> {"absent", "content", "error", "cancelled"}]

USE DEF Tasks, TasksOf, States, Live, Finished, Over

RunData == /\ Shape
           /\ IdleIsClean
           /\ OnlyPlannedTasks
           /\ ResultsAreRecorded
           /\ StartedPlansAreSortable
           /\ NoOrphans

\* Plans only mention agents.
LEMMA PlansAreTyped ==
  ASSUME NEW D \in Graphs \cup {NoGraph}
  PROVE  DOMAIN D \subseteq Agents /\ D \in [DOMAIN D -> SUBSET Agents]
BY GraphsArePlans DEF NoGraph

\* The plans of the runs only mention agents.
LEMMA DagsAreTyped ==
  ASSUME Shape
  PROVE  \A q \in Runs : /\ DOMAIN dag[q] \subseteq Agents
                         /\ dag[q] \in [DOMAIN dag[q] -> SUBSET Agents]
<1>1. \A q \in Runs : dag[q] \in Graphs \cup {NoGraph}
  BY DEF Shape
<1> QED BY <1>1, PlansAreTyped

\* What a step of one task does to the tasks: it moves that one, which was
\* live, and may grant permits to waiting ones.
LEMMA TaskStepEffect ==
  ASSUME Shape, NEW t \in Tasks, TaskStep(t)
  PROVE  /\ UNCHANGED <<pc, dag, prompt, results>>
         /\ task[t] \in Live
         /\ task' \in [Tasks -> States]
         /\ task'[t] \in Live \cup Finished
         /\ \A u \in Tasks \ {t} :
               task'[u] = task[u] \/ (task[u] = "waiting" /\ task'[u] = "granted")
<1> USE DEF Shape
<1>1. ASSUME NEW value, NEW limit, NEW state \in Live \cup Finished,
             WakeUp(value, limit, Become(t, state)), task[t] # "waiting"
      PROVE  /\ task' \in [Tasks -> States]
             /\ task'[t] \in Live \cup Finished
             /\ \A u \in Tasks \ {t} :
                   task'[u] = task[u] \/ (task[u] = "waiting" /\ task'[u] = "granted")
  BY <1>1 DEF WakeUp, Become, Waiting
<1>2. CASE Acquire(t)
  BY <1>2 DEF Acquire, Become
<1>3. CASE Resume(t)
  BY <1>1, <1>3 DEF Resume
<1>4. CASE Answer(t)
  <2>1. PICK outcome \in Finished : Complete(t, outcome)
    BY <1>4 DEF Answer
  <2> QED BY <1>1, <2>1 DEF Complete, Release
<1>5. CASE Leave(t)
  <2> DEFINE value == IF task[t] = "returning" THEN permits + 1 ELSE permits
  <2>1. WakeUp(value, value, Become(t, "cancelled")) /\ UNCHANGED <<pc, dag, prompt, results>>
    BY <1>5 DEF Leave
  <2> HIDE DEF value
  <2> QED BY <1>1, <1>5, <2>1 DEF Leave
<1>6. CASE Unwind(t)
  BY <1>1, <1>6 DEF Unwind, Release
<1> QED BY <1>2, <1>3, <1>4, <1>5, <1>6 DEF TaskStep, LocalStep

\* What the top of the loop over the layers does: it ends the run (with no new
\* layer), or schedules a layer of agents that have no result and whose
\* dependencies all have one.
Continues(r, D, res, layer) ==
    /\ \A a \in layer : /\ res[<<r, a>>] = "absent"
                        /\ D[a] \subseteq {d \in DOMAIN D : res[<<r, d>>] # "absent"}
    /\ task' = [t \in Tasks |-> IF t \in {r} \X layer THEN "scheduled" ELSE task[t]]
    /\ prompt' = [t \in Tasks |-> IF t \in {r} \X layer THEN Quoted(r, t[2], D, res)
                                                        ELSE prompt[t]]
    /\ \/ pc' = [pc EXCEPT ![r] = "gather"]
       \/ pc' = [pc EXCEPT ![r] = "raised"] /\ layer = {}
          /\ \E a \in DOMAIN D : \E d \in D[a] : res[<<r, d>>] = "cancelled"
       \/ pc' = [pc EXCEPT ![r] = "returned"] /\ layer = {}
          /\ ReadyLayer(D, {a \in DOMAIN D : res[<<r, a>>] # "absent"}) = {}

\* The top of the loop over the layers does one of what Continues lists.
LEMMA NextLayerEffect ==
  ASSUME Shape, NEW r \in Runs, NEW D \in Graphs \cup {NoGraph},
         NEW res \in [Tasks -> {"absent", "content", "error", "cancelled"}],
         NextLayer(r, D, res)
  PROVE  \E layer \in SUBSET DOMAIN D : Continues(r, D, res, layer)
<1> DEFINE settled == {a \in DOMAIN D : res[<<r, a>>] # "absent"}
           ready == ReadyLayer(D, settled)
           Ends == /\ task' = task /\ prompt' = prompt
                   /\ \/ ready = {} /\ pc' = [pc EXCEPT ![r] = "returned"]
                      \/ Unreadable(r, ready, D, res) /\ pc' = [pc EXCEPT ![r] = "raised"]
           Goes == /\ pc' = [pc EXCEPT ![r] = "gather"]
                   /\ task' = [t \in Tasks |-> IF t \in {r} \X ready THEN "scheduled" ELSE task[t]]
                   /\ prompt' = [t \in Tasks |-> IF t \in {r} \X ready THEN Quoted(r, t[2], D, res)
                                                                       ELSE prompt[t]]
<1>1. /\ ready \subseteq DOMAIN D
      /\ \A a \in ready : res[<<r, a>>] = "absent" /\ D[a] \subseteq settled
  BY DEF ReadyLayer
<1>2. CASE Ends
  <2>1. task' = [t \in Tasks |-> IF t \in {r} \X {} THEN "scheduled" ELSE task[t]]
    BY <1>2 DEF Shape
  <2>2. prompt' = [t \in Tasks |-> IF t \in {r} \X {} THEN Quoted(r, t[2], D, res) ELSE prompt[t]]
    BY <1>2 DEF Shape
  <2>3. Unreadable(r, ready, D, res) => \E a \in DOMAIN D : \E d \in D[a] : res[<<r, d>>] = "cancelled"
    BY <1>1 DEF Unreadable
  <2>4. {} \in SUBSET DOMAIN D
    OBVIOUS
  <2> HIDE DEF ready
  <2> WITNESS {} \in SUBSET DOMAIN D
  <2> QED BY <1>2, <2>1, <2>2, <2>3 DEF ready, Continues
<1>3. CASE Goes
  <2> HIDE DEF ready
  <2>1. ready \in SUBSET DOMAIN D
    BY <1>1
  <2> WITNESS ready \in SUBSET DOMAIN D
  <2> QED BY <1>1, <1>3 DEF Continues
<1>4. Ends \/ Goes
  BY Zenon DEF NextLayer
<1> HIDE DEF Ends, Goes
<1> QED BY <1>2, <1>3, <1>4

\* A run whose results are now res goes on with the loop over the layers of D.
Advances(r, D, res) ==
    /\ NextLayer(r, D, res)
    /\ Sortable(D)
    /\ dag' = [dag EXCEPT ![r] = D] /\ results' = res
    /\ pc[r] \in {"idle", "gather"}
    /\ \A t \in TasksOf(r) :
           /\ task[t] \notin Live
           /\ task[t] # "none" => dag[r] = D
           /\ task[t] \in Finished => res[t] = Recorded(task[t])
           /\ task[t] = "none" => res[t] = "absent"
    /\ \A t \in Tasks \ TasksOf(r) : res[t] = results[t]

\* run_dag gets there when it starts on a plan that can be sorted, and when gather
\* returns.
LEMMA RunDagAdvances ==
  ASSUME RunData, NEW r \in Runs, NEW D \in Graphs, RunDag(r, D)
  PROVE  /\ pc[r] = "idle" /\ dag' = [dag EXCEPT ![r] = D] /\ results' = results
         /\ \A t \in TasksOf(r) : task[t] = "none" /\ results[t] = "absent"
         /\ \/ Advances(r, D, results)
            \/ ~ Sortable(D) /\ pc' = [pc EXCEPT ![r] = "raised"] /\ UNCHANGED <<task, prompt>>
<1>1. /\ pc[r] = "idle" /\ dag' = [dag EXCEPT ![r] = D] /\ results' = results
      /\ \A t \in TasksOf(r) : task[t] = "none" /\ results[t] = "absent"
  BY DEF RunDag, IdleIsClean, RunData
<1>2. ASSUME Sortable(D), NextLayer(r, D, results) PROVE Advances(r, D, results)
  BY <1>1, <1>2 DEF Advances
<1> QED BY <1>1, <1>2 DEF RunDag

\* A layer whose tasks are all done is recorded, and the loop goes on.
LEMMA LayerDoneAdvances ==
  ASSUME RunData, NEW r \in Runs, LayerDone(r)
  PROVE  \E res \in [Tasks -> {"absent", "content", "error", "cancelled"}] :
            Advances(r, dag[r], res)
<1> DEFINE res == [t \in Tasks |->
                     IF t \in TasksOf(r) /\ task[t] \in Finished THEN Recorded(task[t])
                                                                 ELSE results[t]]
<1> USE DEF RunData
<1>1. /\ pc[r] = "gather" /\ dag' = dag /\ results' = res
      /\ \A t \in TasksOf(r) : task[t] \notin Live
      /\ NextLayer(r, dag[r], res)
  BY DEF LayerDone
<1>2. res \in [Tasks -> {"absent", "content", "error", "cancelled"}]
  BY DEF Shape, Recorded
<1>3. \A t \in TasksOf(r) : task[t] = "none" => res[t] = "absent"
  BY DEF ResultsAreRecorded, Shape
<1>4. dag' = [dag EXCEPT ![r] = dag[r]]
  BY <1>1 DEF Shape
<1>5. Sortable(dag[r])
  BY <1>1 DEF StartedPlansAreSortable
<1>6. /\ \A t \in TasksOf(r) : task[t] \in Finished => res[t] = Recorded(task[t])
      /\ \A t \in Tasks \ TasksOf(r) : res[t] = results[t]
  OBVIOUS
<1> HIDE DEF res
<1>7. Advances(r, dag[r], res)
  BY <1>1, <1>3, <1>4, <1>5, <1>6 DEF Advances
<1> QED BY <1>2, <1>7

\* Going on to the next layer keeps the bookkeeping.
LEMMA AdvanceKeepsData ==
  ASSUME RunData, NEW r \in Runs, NEW D \in Graphs \cup {NoGraph},
         NEW res \in [Tasks -> {"absent", "content", "error", "cancelled"}],
         Advances(r, D, res)
  PROVE  RunData'
<1> USE DEF RunData
<1>1. PICK layer \in SUBSET DOMAIN D : Continues(r, D, res, layer)
  BY NextLayerEffect DEF Advances
<1> USE DEF Continues, Advances
<1>2. DOMAIN D \subseteq Agents /\ D \in [DOMAIN D -> SUBSET Agents]
  BY PlansAreTyped
<1>3. \A t \in {r} \X layer : t \in TasksOf(r) /\ task[t] = "none" /\ res[t] = "absent"
  BY <1>1, <1>2 DEF Shape, Recorded
<1>4. Shape'
  <2>1. \A a \in layer : Quoted(r, a, D, res) \in SUBSET Agents
    BY <1>1, <1>2 DEF Quoted
  <2>2. prompt' \in [Tasks -> SUBSET Agents]
    BY <1>1, <2>1 DEF Shape
  <2> QED BY <1>1, <2>2 DEF Shape
<1>5. IdleIsClean'
  <2> SUFFICES ASSUME NEW q \in Runs, pc'[q] = "idle", NEW t \in TasksOf(q)
               PROVE  task'[t] = "none" /\ results'[t] = "absent"
    BY DEF IdleIsClean
  <2>1. q # r /\ pc[q] = "idle" /\ t \in Tasks \ TasksOf(r)
    BY <1>1 DEF Shape
  <2> QED BY <1>1, <2>1 DEF IdleIsClean, Shape
<1>6. OnlyPlannedTasks'
  <2> SUFFICES ASSUME NEW q \in Runs, NEW a \in Agents, task'[<<q, a>>] # "none"
               PROVE  a \in DOMAIN dag'[q]
    BY DEF OnlyPlannedTasks
  <2>1. CASE q = r
    BY <1>1, <2>1 DEF OnlyPlannedTasks, Shape
  <2>2. CASE q # r
    BY <1>1, <2>2 DEF OnlyPlannedTasks, Shape
  <2> QED BY <2>1, <2>2
<1>7. ResultsAreRecorded'
  <2> SUFFICES ASSUME NEW t \in Tasks, res[t] # "absent"
               PROVE  task'[t] \in Finished /\ res[t] = Recorded(task'[t])
    BY DEF ResultsAreRecorded
  <2>1. task'[t] = task[t]
    BY <1>1, <1>3
  <2>2. CASE t \in TasksOf(r)
    BY <2>1, <2>2 DEF Shape
  <2>3. CASE t \notin TasksOf(r)
    BY <2>1, <2>3 DEF ResultsAreRecorded
  <2> QED BY <2>2, <2>3
<1>8. StartedPlansAreSortable'
  <2> SUFFICES ASSUME NEW q \in Runs, pc'[q] \notin {"idle", "raised"}
               PROVE  Sortable(dag'[q])
    BY DEF StartedPlansAreSortable
  <2>1. CASE q = r
    <3>1. dag'[q] = D
      BY <2>1 DEF Shape
    <3> QED BY <3>1
  <2>2. CASE q # r
    <3>1. dag'[q] = dag[q] /\ pc'[q] = pc[q]
      BY <1>1, <2>2 DEF Shape
    <3> QED BY <3>1 DEF StartedPlansAreSortable
  <2> QED BY <2>1, <2>2
<1>9. NoOrphans'
  BY <1>1 DEF NoOrphans, Shape
<1> QED BY <1>4, <1>5, <1>6, <1>7, <1>8, <1>9

\* Runs, tasks and results keep the same story, whatever task or run moves.
THEOREM RunDataHolds == Spec => []RunData
<1>1. Init => RunData
  BY DEF Init, RunData, Shape, IdleIsClean, OnlyPlannedTasks, ResultsAreRecorded,
         StartedPlansAreSortable, NoOrphans
<1>2. RunData /\ [Next]_vars => RunData'
  <2> SUFFICES ASSUME RunData, [Next]_vars PROVE RunData'
    OBVIOUS
  <2> USE DEF RunData
  <2>1. ASSUME NEW r \in Runs, NEW D \in Graphs, RunDag(r, D) PROVE RunData'
    <3>1. CASE Advances(r, D, results)
      <4>1. results \in [Tasks -> {"absent", "content", "error", "cancelled"}]
        BY DEF Shape
      <4> QED BY <3>1, <4>1, AdvanceKeepsData
    <3>2. CASE pc' = [pc EXCEPT ![r] = "raised"] /\ UNCHANGED <<task, prompt>>
      <4>1. /\ pc[r] = "idle" /\ dag' = [dag EXCEPT ![r] = D] /\ results' = results
            /\ \A t \in TasksOf(r) : task[t] = "none" /\ results[t] = "absent"
        BY <2>1, RunDagAdvances
      <4> QED BY <3>2, <4>1 DEF Shape, IdleIsClean, OnlyPlannedTasks, ResultsAreRecorded,
                                StartedPlansAreSortable, NoOrphans
    <3> QED BY <2>1, <3>1, <3>2, RunDagAdvances
  <2>2. ASSUME NEW r \in Runs, LayerDone(r) PROVE RunData'
    <3>1. dag[r] \in Graphs \cup {NoGraph}
      BY DEF Shape
    <3> QED BY <2>2, <3>1, LayerDoneAdvances, AdvanceKeepsData
  <2>3. ASSUME NEW r \in Runs, CancelDone(r) PROVE RunData'
    BY <2>3 DEF CancelDone, Shape, IdleIsClean, OnlyPlannedTasks, ResultsAreRecorded,
                StartedPlansAreSortable, NoOrphans
  <2>4. ASSUME NEW r \in Runs, Cancel(r) PROVE RunData'
    <3>1. /\ pc[r] = "gather" /\ pc' = [pc EXCEPT ![r] = "cancelling"]
          /\ UNCHANGED <<dag, prompt, results>>
          /\ task' = [t \in Tasks |-> IF t \in TasksOf(r) THEN Cancelling(task[t]) ELSE task[t]]
      BY <2>4 DEF Cancel
    <3>2. \A t \in Tasks : /\ Cancelling(task[t]) \in States
                           /\ task[t] \notin Live => Cancelling(task[t]) = task[t]
                           /\ task[t] \in Live => task[t] # "none" /\ task[t] \notin Finished
      BY DEF Cancelling, Shape
    <3>3. Shape'
      BY <3>1, <3>2 DEF Shape
    <3>4. IdleIsClean' /\ NoOrphans' /\ StartedPlansAreSortable'
      BY <3>1 DEF IdleIsClean, NoOrphans, StartedPlansAreSortable, Shape
    <3>5. OnlyPlannedTasks' /\ ResultsAreRecorded'
      BY <3>1, <3>2 DEF OnlyPlannedTasks, ResultsAreRecorded, Shape
    <3> QED BY <3>3, <3>4, <3>5
  <2>5. ASSUME NEW t \in Tasks, TaskStep(t) PROVE RunData'
    <3>1. /\ UNCHANGED <<pc, dag, prompt, results>>
          /\ task[t] \in Live
          /\ task' \in [Tasks -> States]
          /\ task'[t] \in Live \cup Finished
          /\ \A u \in Tasks \ {t} :
                task'[u] = task[u] \/ (task[u] = "waiting" /\ task'[u] = "granted")
      BY <2>5, TaskStepEffect
    <3>2. Shape' /\ StartedPlansAreSortable'
      BY <3>1 DEF Shape, StartedPlansAreSortable
    <3>3. \A u \in Tasks : /\ task'[u] # task[u] => task[u] \in Live
                           /\ task'[u] \in Live => task[u] \in Live
      BY <3>1
    <3>4. IdleIsClean' /\ NoOrphans'
      BY <3>1, <3>3 DEF IdleIsClean, NoOrphans, Shape
    <3>5. OnlyPlannedTasks'
      BY <3>1, <3>3 DEF OnlyPlannedTasks, Shape
    <3>6. ResultsAreRecorded'
      BY <3>1, <3>3 DEF ResultsAreRecorded, Shape
    <3> QED BY <3>2, <3>4, <3>5, <3>6
  <2>6. CASE UNCHANGED vars
    BY <2>6 DEF vars, Shape, IdleIsClean, OnlyPlannedTasks, ResultsAreRecorded,
                StartedPlansAreSortable, NoOrphans
  <2> QED BY <2>1, <2>2, <2>3, <2>4, <2>5, <2>6 DEF Next, RunStep
<1> QED BY <1>1, <1>2, PTL DEF Spec
-----------------------------------------------------------------------------
(* The order of execution, and what a run reports.                         *)
OrderInv == /\ DependenciesFirst
            /\ PromptAgreesWithResults
            /\ RaisesOnlyForCause
            /\ ReturnsEverything

\* What was recorded stays, and only started tasks are recorded.
LEMMA AdvanceOnlyRecords ==
  ASSUME RunData, NEW r \in Runs, NEW D, NEW res, Advances(r, D, res), NEW t \in Tasks
  PROVE  /\ results[t] # "absent" => res[t] = results[t]
         /\ res[t] # results[t] => t \in TasksOf(r) /\ task[t] \in Finished /\ dag[r] = D
<1>1. CASE t \in TasksOf(r)
  <2>1. task[t] = "none" \/ task[t] \in Finished
    BY <1>1 DEF Advances, RunData, Shape
  <2> QED BY <1>1, <2>1 DEF Advances, RunData, ResultsAreRecorded
<1>2. CASE t \notin TasksOf(r)
  BY <1>2 DEF Advances
<1> QED BY <1>1, <1>2

\* When no agent is ready although the plan can be sorted, none is left.
LEMMA NothingReadyIsEnd ==
  ASSUME NEW D, Sortable(D), NEW settled \in SUBSET DOMAIN D, ReadyLayer(D, settled) = {}
  PROVE  settled = DOMAIN D
<1> SUFFICES ASSUME DOMAIN D \ settled # {} PROVE FALSE
  OBVIOUS
<1>1. PICK a \in DOMAIN D \ settled : D[a] \cap (DOMAIN D \ settled) = {} /\ D[a] \subseteq DOMAIN D
  BY DEF Sortable
<1> QED BY <1>1 DEF ReadyLayer

\* Going on to the next layer keeps the order of execution.
LEMMA AdvanceKeepsOrder ==
  ASSUME RunData, OrderInv, NEW r \in Runs, NEW D \in Graphs \cup {NoGraph},
         NEW res \in [Tasks -> {"absent", "content", "error", "cancelled"}],
         Advances(r, D, res)
  PROVE  OrderInv'
<1> USE DEF RunData, OrderInv
<1>1. PICK layer \in SUBSET DOMAIN D : Continues(r, D, res, layer)
  BY NextLayerEffect DEF Advances
<1>2. DOMAIN D \subseteq Agents /\ D \in [DOMAIN D -> SUBSET Agents]
  BY PlansAreTyped
<1>3. results' = res /\ dag'[r] = D
  BY DEF Advances, Shape
<1>4. \A t \in Tasks : results[t] # "absent" => res[t] = results[t]
  BY AdvanceOnlyRecords
<1>5. \A q \in Runs \ {r} :
         /\ pc'[q] = pc[q] /\ dag'[q] = dag[q]
         /\ \A a \in Agents : /\ task'[<<q, a>>] = task[<<q, a>>]
                              /\ prompt'[<<q, a>>] = prompt[<<q, a>>]
                              /\ res[<<q, a>>] = results[<<q, a>>]
  BY <1>1 DEF Continues, Shape, Advances
<1>6. ASSUME NEW a \in DOMAIN D, task'[<<r, a>>] # "none"
      PROVE  /\ D[a] \subseteq {d \in DOMAIN D : res[<<r, d>>] # "absent"}
             /\ prompt'[<<r, a>>] = {d \in D[a] : res[<<r, d>>] = "content"}
  <2>1. CASE a \in layer
    BY <1>1, <1>2, <1>6, <2>1 DEF Continues, Quoted
  <2>2. CASE a \notin layer
    <3>1. task[<<r, a>>] # "none" /\ prompt'[<<r, a>>] = prompt[<<r, a>>] /\ dag[r] = D
      BY <1>1, <1>2, <1>6, <2>2 DEF Continues, Advances
    <3>2. /\ D[a] \subseteq {d \in DOMAIN D : results[<<r, d>>] # "absent"}
          /\ prompt[<<r, a>>] = {d \in D[a] : results[<<r, d>>] = "content"}
      BY <1>2, <3>1 DEF DependenciesFirst, PromptAgreesWithResults, Settled
    <3>3. \A d \in D[a] : res[<<r, d>>] = results[<<r, d>>]
      BY <1>2, <1>4, <3>2
    <3> QED BY <3>1, <3>2, <3>3
  <2> QED BY <2>1, <2>2
<1>7. DependenciesFirst'
  <2> SUFFICES ASSUME NEW q \in Runs, NEW a \in DOMAIN dag'[q], task'[<<q, a>>] # "none"
               PROVE  dag'[q][a] \subseteq {d \in DOMAIN dag'[q] : res[<<q, d>>] # "absent"}
    BY <1>3 DEF DependenciesFirst, Settled
  <2>1. CASE q = r
    BY <1>3, <1>6, <2>1
  <2>2. CASE q # r
    <3>1. dag'[q] = dag[q] /\ DOMAIN dag[q] \subseteq Agents
      BY <1>5, <2>2, DagsAreTyped
    <3>2. dag[q][a] \subseteq {d \in DOMAIN dag[q] : results[<<q, d>>] # "absent"}
      BY <1>5, <2>2, <3>1 DEF DependenciesFirst, Settled
    <3> QED BY <1>5, <2>2, <3>1, <3>2
  <2> QED BY <2>1, <2>2
<1>8. PromptAgreesWithResults'
  <2> SUFFICES ASSUME NEW q \in Runs, NEW a \in DOMAIN dag'[q], task'[<<q, a>>] # "none"
               PROVE  prompt'[<<q, a>>] = {d \in dag'[q][a] : results'[<<q, d>>] = "content"}
    BY DEF PromptAgreesWithResults
  <2>1. CASE q = r
    BY <1>3, <1>6, <2>1
  <2>2. CASE q # r
    <3>1. /\ dag'[q] = dag[q] /\ DOMAIN dag[q] \subseteq Agents
          /\ dag[q] \in [DOMAIN dag[q] -> SUBSET Agents]
      BY <1>5, <2>2, DagsAreTyped
    <3>2. prompt[<<q, a>>] = {d \in dag[q][a] : results[<<q, d>>] = "content"}
      BY <1>5, <2>2, <3>1 DEF PromptAgreesWithResults
    <3>3. \A d \in dag[q][a] : results'[<<q, d>>] = results[<<q, d>>]
      BY <1>3, <1>5, <2>2, <3>1
    <3> QED BY <1>5, <2>2, <3>1, <3>2, <3>3
  <2> QED BY <2>1, <2>2
<1>9. RaisesOnlyForCause'
  <2> SUFFICES ASSUME NEW q \in Runs, pc'[q] = "raised", Sortable(dag'[q])
               PROVE  \E a \in DOMAIN dag'[q], d \in Agents :
                         d \in dag'[q][a] /\ res[<<q, d>>] = "cancelled"
    BY <1>3 DEF RaisesOnlyForCause
  <2>1. CASE q = r
    BY <1>1, <1>2, <1>3, <2>1 DEF Continues, Shape
  <2>2. CASE q # r
    <3>1. pc[q] = "raised" /\ dag'[q] = dag[q]
      BY <1>5, <2>2
    <3>2. Sortable(dag[q])
      BY <3>1
    <3>3. PICK a \in DOMAIN dag[q], d \in Agents : d \in dag[q][a] /\ results[<<q, d>>] = "cancelled"
      BY <3>1, <3>2 DEF RaisesOnlyForCause
    <3> QED BY <1>5, <2>2, <3>1, <3>3
  <2> QED BY <2>1, <2>2
<1>10. ReturnsEverything'
  <2> SUFFICES ASSUME NEW q \in Runs, pc'[q] = "returned"
               PROVE  {a \in DOMAIN dag'[q] : res[<<q, a>>] # "absent"} = DOMAIN dag'[q]
    BY <1>3 DEF ReturnsEverything, Settled
  <2>1. CASE q = r
    <3> DEFINE settled == {a \in DOMAIN D : res[<<r, a>>] # "absent"}
    <3>1. ReadyLayer(D, settled) = {}
      BY <1>1, <2>1 DEF Continues, Shape
    <3>2. settled \in SUBSET DOMAIN D
      OBVIOUS
    <3>3. Sortable(D)
      BY DEF Advances
    <3> HIDE DEF settled
    <3>4. settled = DOMAIN D
      BY <3>1, <3>2, <3>3, NothingReadyIsEnd
    <3> QED BY <1>3, <2>1, <3>4 DEF settled
  <2>2. CASE q # r
    <3>1. pc[q] = "returned" /\ dag'[q] = dag[q] /\ DOMAIN dag[q] \subseteq Agents
      BY <1>5, <2>2, DagsAreTyped
    <3>2. {a \in DOMAIN dag[q] : results[<<q, a>>] # "absent"} = DOMAIN dag[q]
      BY <3>1 DEF ReturnsEverything, Settled
    <3> QED BY <1>5, <2>2, <3>1, <3>2
  <2> QED BY <2>1, <2>2
<1> QED BY <1>7, <1>8, <1>9, <1>10

\* Steps that start no task, record nothing and end no run by themselves.
LEMMA OrderIsStable ==
  ASSUME RunData, OrderInv, UNCHANGED <<dag, prompt, results>>,
         \A t \in Tasks : task'[t] # "none" => task[t] # "none",
         \A q \in Runs : pc'[q] \in {"raised", "returned"} => pc'[q] = pc[q]
  PROVE  OrderInv'
<1>0. \A q \in Runs : DOMAIN dag[q] \subseteq Agents
  BY DagsAreTyped DEF RunData
<1>1. DependenciesFirst' /\ PromptAgreesWithResults'
  BY <1>0 DEF OrderInv, DependenciesFirst, PromptAgreesWithResults, Settled
<1>2. RaisesOnlyForCause'
  <2> SUFFICES ASSUME NEW q \in Runs, pc'[q] = "raised", Sortable(dag'[q])
               PROVE  \E a \in DOMAIN dag'[q], d \in Agents :
                         d \in dag'[q][a] /\ results'[<<q, d>>] = "cancelled"
    BY DEF RaisesOnlyForCause
  <2>1. pc[q] = "raised" /\ dag'[q] = dag[q] /\ results' = results
    OBVIOUS
  <2>2. Sortable(dag[q])
    BY <2>1
  <2> QED BY <2>1, <2>2 DEF OrderInv, RaisesOnlyForCause
<1>3. ReturnsEverything'
  BY DEF OrderInv, ReturnsEverything, Settled
<1> QED BY <1>1, <1>2, <1>3 DEF OrderInv

\* Agents run in the order of their dependencies, are told what was recorded of
\* them, and a run raises or returns only for the reasons it should.
THEOREM OrderHolds == Spec => []OrderInv
<1>1. Init => OrderInv
  BY DEF Init, OrderInv, DependenciesFirst, PromptAgreesWithResults, RaisesOnlyForCause,
         ReturnsEverything, NoGraph
<1>2. RunData /\ OrderInv /\ [Next]_vars => OrderInv'
  <2> SUFFICES ASSUME RunData, OrderInv, [Next]_vars PROVE OrderInv'
    OBVIOUS
  <2>1. ASSUME NEW r \in Runs, NEW D \in Graphs, RunDag(r, D) PROVE OrderInv'
    <3>1. CASE Advances(r, D, results)
      <4>1. results \in [Tasks -> {"absent", "content", "error", "cancelled"}]
        BY DEF RunData, Shape
      <4> QED BY <3>1, <4>1, AdvanceKeepsOrder
    <3>2. CASE ~ Sortable(D) /\ pc' = [pc EXCEPT ![r] = "raised"] /\ UNCHANGED <<task, prompt>>
      <4>1. /\ dag' = [dag EXCEPT ![r] = D] /\ results' = results
            /\ \A t \in TasksOf(r) : task[t] = "none"
        BY <2>1, RunDagAdvances
      <4>2. /\ dag'[r] = D /\ DOMAIN D \subseteq Agents
            /\ \A q \in Runs \ {r} : dag'[q] = dag[q] /\ pc'[q] = pc[q]
            /\ pc'[r] = "raised"
            /\ \A q \in Runs : DOMAIN dag[q] \subseteq Agents
        BY <3>2, <4>1, PlansAreTyped DEF RunData, Shape
      <4>3. DependenciesFirst' /\ PromptAgreesWithResults' /\ ReturnsEverything'
        BY <3>2, <4>1, <4>2 DEF OrderInv, DependenciesFirst, PromptAgreesWithResults,
                                ReturnsEverything, Settled
      <4>4. RaisesOnlyForCause'
        <5> SUFFICES ASSUME NEW q \in Runs, pc'[q] = "raised", Sortable(dag'[q])
                     PROVE  \E a \in DOMAIN dag'[q], d \in Agents :
                               d \in dag'[q][a] /\ results'[<<q, d>>] = "cancelled"
          BY DEF RaisesOnlyForCause
        <5>1. q # r
          BY <3>2, <4>2
        <5>2. pc[q] = "raised" /\ dag'[q] = dag[q]
          BY <4>2, <5>1
        <5>3. Sortable(dag[q])
          BY <5>2
        <5> QED BY <4>1, <5>2, <5>3 DEF OrderInv, RaisesOnlyForCause
      <4> QED BY <4>3, <4>4 DEF OrderInv
    <3> QED BY <2>1, <3>1, <3>2, RunDagAdvances
  <2>2. ASSUME NEW r \in Runs, LayerDone(r) PROVE OrderInv'
    <3>1. dag[r] \in Graphs \cup {NoGraph}
      BY DEF RunData, Shape
    <3> QED BY <2>2, <3>1, LayerDoneAdvances, AdvanceKeepsOrder
  <2>3. ASSUME NEW r \in Runs, CancelDone(r) PROVE OrderInv'
    BY <2>3, OrderIsStable DEF CancelDone, RunData, Shape
  <2>4. ASSUME NEW r \in Runs, Cancel(r) PROVE OrderInv'
    <3>1. \A t \in Tasks : task'[t] # "none" => task[t] # "none"
      BY <2>4 DEF Cancel, Cancelling, RunData, Shape
    <3> QED BY <2>4, <3>1, OrderIsStable DEF Cancel, RunData, Shape
  <2>5. ASSUME NEW t \in Tasks, TaskStep(t) PROVE OrderInv'
    <3>1. UNCHANGED <<pc, dag, prompt, results>>
      BY <2>5, TaskStepEffect DEF RunData
    <3>2. \A u \in Tasks : task'[u] # "none" => task[u] # "none"
      BY <2>5, TaskStepEffect DEF RunData
    <3> QED BY <3>1, <3>2, OrderIsStable
  <2>6. CASE UNCHANGED vars
    BY <2>6, OrderIsStable DEF vars
  <2> QED BY <2>1, <2>2, <2>3, <2>4, <2>5, <2>6 DEF Next, RunStep
<1> QED BY <1>1, <1>2, RunDataHolds, PTL DEF Spec

\* An agent runs only after everything it depends on was recorded.
THEOREM DependenciesFirstHolds == Spec => []DependenciesFirst
BY OrderHolds, PTL DEF OrderInv

\* The prompt an agent was given agrees with the results reported in the end.
THEOREM PromptAgreesHolds == Spec => []PromptAgreesWithResults
BY OrderHolds, PTL DEF OrderInv

\* run_dag raises only for an unsortable plan or a CancelledError among the results.
THEOREM RaisesOnlyForCauseHolds == Spec => []RaisesOnlyForCause
BY OrderHolds, PTL DEF OrderInv

\* A run that returns has a result for every agent of its plan.
THEOREM ReturnsEverythingHolds == Spec => []ReturnsEverything
BY OrderHolds, PTL DEF OrderInv

\* Both of them: what a run comes to is justified by its plan and its results.
THEOREM OutcomeIsJustifiedHolds == Spec => []OutcomeIsJustified
BY RaisesOnlyForCauseHolds, ReturnsEverythingHolds, PTL DEF OutcomeIsJustified

\* A run that is over has no task queued or in flight.
THEOREM NoOrphansHolds == Spec => []NoOrphans
BY RunDataHolds, PTL DEF RunData

\* A result, once recorded, is never overwritten.
THEOREM ResultsAreFinalHolds == Spec => ResultsAreFinal
<1>1. RunData /\ [Next]_vars => [\A t \in Tasks : results[t] # "absent" => results'[t] = results[t]]_vars
  <2> SUFFICES ASSUME RunData, Next, NEW t \in Tasks, results[t] # "absent"
               PROVE  results'[t] = results[t]
    OBVIOUS
  <2>1. ASSUME NEW r \in Runs, LayerDone(r) PROVE results'[t] = results[t]
    <3>1. PICK res \in [Tasks -> {"absent", "content", "error", "cancelled"}] :
             Advances(r, dag[r], res)
      BY <2>1, LayerDoneAdvances
    <3>2. results' = res
      BY <3>1 DEF Advances
    <3> QED BY <3>1, <3>2, AdvanceOnlyRecords
  <2>2. ASSUME NEW u \in Tasks, TaskStep(u) PROVE results'[t] = results[t]
    BY <2>2, TaskStepEffect DEF RunData
  <2> QED BY <2>1, <2>2 DEF Next, RunStep, RunDag, CancelDone, Cancel
<1> QED BY <1>1, RunDataHolds, PTL DEF Spec, ResultsAreFinal
-----------------------------------------------------------------------------
(* Refinement.                                                             *)
Done == {t \in Tasks : results[t] # "absent"}

\* The plans of all runs together are a plan over the tasks.
LEMMA PlanIsPlan ==
  ASSUME Shape PROVE Schedule!IsPlan(Plan)
<1>1. \A t \in DOMAIN Plan : Plan[t] \in SUBSET Tasks
  BY DagsAreTyped DEF Plan
<1> QED BY <1>1 DEF Plan, Schedule!IsPlan

\* The recorded results of all runs are a dependency schedule: a run that starts
\* extends the plan, a layer that is recorded settles its agents.
THEOREM RunImplementsSchedule == Spec => ScheduleSpec
<1>1. RunData /\ Init => Schedule!Init
  BY PlanIsPlan DEF Init, RunData, Schedule!Init
<1>2. Shape => Schedule!IsPlan(Plan)
  BY PlanIsPlan
<1>3. Shape' => (Schedule!IsPlan(Plan))'
  BY <1>2, PTL
<1>4. RunData /\ RunData' /\ OrderInv /\ [Next]_vars => [Schedule!Next]_(Schedule!vars)
  <2> SUFFICES ASSUME RunData, RunData', OrderInv, [Next]_vars
               PROVE  [Schedule!Next]_(Schedule!vars)
    OBVIOUS
  <2>0. Schedule!IsPlan(Plan) /\ (Schedule!IsPlan(Plan))'
    BY <1>2, <1>3 DEF RunData
  <2>1. ASSUME NEW r \in Runs, NEW D \in Graphs, RunDag(r, D) PROVE Schedule!Submit
    <3>1. /\ dag' = [dag EXCEPT ![r] = D] /\ results' = results
          /\ \A t \in TasksOf(r) : results[t] = "absent"
      BY <2>1, RunDagAdvances
    <3>2. \A t \in Done : /\ t \in Tasks \ TasksOf(r)
                          /\ t[2] \in DOMAIN dag[t[1]] /\ dag'[t[1]] = dag[t[1]]
      BY <3>1 DEF Done, RunData, ResultsAreRecorded, OnlyPlannedTasks, Shape
    <3>3. \A t \in Done : t \in DOMAIN Plan' /\ Plan'[t] = Plan[t]
      BY <3>2 DEF Plan, Done
    <3>4. Done' = Done
      BY <3>1 DEF Done
    <3> QED BY <2>0, <3>3, <3>4 DEF Schedule!Submit, Done
  <2>2. ASSUME NEW r \in Runs, LayerDone(r)
        PROVE  \/ \E group \in SUBSET Tasks : Schedule!Settle(group)
               \/ UNCHANGED <<Plan, Done>>
    <3> DEFINE group == Done' \ Done
    <3>1. PICK res \in [Tasks -> {"absent", "content", "error", "cancelled"}] :
             Advances(r, dag[r], res)
      BY <2>2, LayerDoneAdvances
    <3>2. dag' = dag /\ results' = res
      BY <2>2, <3>1 DEF Advances, LayerDone
    <3>3. Plan' = Plan /\ Done' = Done \cup group /\ group \in SUBSET Tasks
      <4>1. \A t \in Done : t \in Done'
        BY <3>1, <3>2, AdvanceOnlyRecords DEF Done
      <4> QED BY <3>2, <4>1 DEF Plan, Done
    <3>4. ASSUME NEW t \in group
          PROVE  t \in DOMAIN Plan \ Done /\ Plan[t] \subseteq Done
      <4>1. t \in TasksOf(r) /\ task[t] \in Finished /\ t \notin Done
        BY <3>1, <3>2, AdvanceOnlyRecords DEF Done
      <4>2. PICK a \in Agents : t = <<r, a>>
        BY <4>1
      <4>3. a \in DOMAIN dag[r]
        BY <4>1, <4>2 DEF RunData, OnlyPlannedTasks
      <4>4. dag[r][a] \subseteq {d \in DOMAIN dag[r] : results[<<r, d>>] # "absent"}
        BY <4>1, <4>2, <4>3 DEF OrderInv, DependenciesFirst, Settled
      <4>5. t \in DOMAIN Plan /\ Plan[t] = {r} \X dag[r][a]
        BY <4>2, <4>3 DEF Plan
      <4>6. DOMAIN dag[r] \subseteq Agents
        BY DagsAreTyped DEF RunData
      <4>7. \A d \in dag[r][a] : <<r, d>> \in Done
        BY <4>4, <4>6 DEF Done
      <4> QED BY <4>1, <4>5, <4>7
    <3> HIDE DEF group
    <3>5. PICK settling \in SUBSET Tasks : settling = group
      BY <3>3
    <3>6. CASE settling # {}
      <4>1. Schedule!Settle(settling)
        BY <3>3, <3>4, <3>5, <3>6 DEF Schedule!Settle, Done
      <4> QED BY <4>1
    <3>7. CASE settling = {}
      BY <3>3, <3>5, <3>7
    <3> QED BY <3>6, <3>7
  <2>3. ASSUME UNCHANGED <<dag, results>> PROVE UNCHANGED <<Plan, Done>>
    BY <2>3 DEF Plan, Done
  <2>4. ASSUME NEW t \in Tasks, TaskStep(t) PROVE UNCHANGED <<dag, results>>
    BY <2>4, TaskStepEffect DEF RunData
  <2>5. [Schedule!Next]_<<Plan, Done>>
    BY <2>1, <2>2, <2>3, <2>4
       DEF Next, RunStep, CancelDone, Cancel, vars, Schedule!Next
  <2> QED BY <2>5 DEF Schedule!vars, Done
<1> QED BY <1>1, <1>4, RunDataHolds, OrderHolds, PTL
        DEF Spec, ScheduleSpec, Schedule!Spec

\* The guarantee of a schedule: whatever is settled, all that it rests on is.
LEMMA ScheduleIsClosed == ScheduleSpec => []Schedule!SettledIsClosed
<1>1. Schedule!Init => Schedule!SettledIsClosed
  BY DEF Schedule!Init, Schedule!SettledIsClosed
<1>2. Schedule!SettledIsClosed /\ [Schedule!Next]_(Schedule!vars) => Schedule!SettledIsClosed'
  <2> SUFFICES ASSUME Schedule!SettledIsClosed, [Schedule!Next]_(Schedule!vars)
               PROVE  Schedule!SettledIsClosed'
    OBVIOUS
  <2>1. CASE Schedule!Submit
    BY <2>1 DEF Schedule!Submit, Schedule!SettledIsClosed
  <2>2. ASSUME NEW group \in SUBSET Tasks, Schedule!Settle(group) PROVE Schedule!SettledIsClosed'
    BY <2>2 DEF Schedule!Settle, Schedule!SettledIsClosed
  <2>3. CASE UNCHANGED Schedule!vars
    BY <2>3 DEF Schedule!vars, Schedule!SettledIsClosed
  <2> QED BY <2>1, <2>2, <2>3 DEF Schedule!Next
<1> QED BY <1>1, <1>2, PTL DEF ScheduleSpec, Schedule!Spec

\* The results run_dag has recorded are closed under dependencies, in all of the
\* runs that share a swarm and at every moment of them.
THEOREM RecordedIsClosed == Spec => []Schedule!SettledIsClosed
BY RunImplementsSchedule, ScheduleIsClosed, PTL
-----------------------------------------------------------------------------
(* Permits.                                                                *)
HoldersOf(states) ==
    {t \in Tasks : states[t] \in {"granted", "inflight", "returning", "unwinding"}}

\* Finitely many runs of finitely many agents have finitely many tasks.
LEMMA TasksAreFinite == IsFiniteSet(Tasks)
BY RunsFinite, AgentsFinite, FS_Product

\* Finitely many tasks hold permits.
LEMMA HoldersAreFinite ==
  ASSUME NEW states
  PROVE  IsFiniteSet(HoldersOf(states)) /\ Cardinality(HoldersOf(states)) \in Nat
<1>1. HoldersOf(states) \subseteq Tasks
  BY DEF HoldersOf
<1> QED BY <1>1, TasksAreFinite, FS_Subset, FS_CardinalityType

\* Waking up moves permits from the semaphore to the tasks it wakes.
LEMMA WakeUpAccounts ==
  ASSUME NEW value \in Nat, NEW limit \in 0 .. value, NEW base,
         \A t \in Waiting : base[t] = "waiting",
         WakeUp(value, limit, base)
  PROVE  /\ permits' \in Nat
         /\ permits' + Cardinality(Holders') = value + Cardinality(HoldersOf(base))
         /\ {t \in Tasks : task'[t] = "ok"} = {t \in Tasks : base[t] = "ok"}
<1>1. PICK batch \in SUBSET Waiting :
         /\ Cardinality(batch) <= limit
         /\ permits' = value - Cardinality(batch)
         /\ task' = [t \in Tasks |-> IF t \in batch THEN "granted" ELSE base[t]]
  BY DEF WakeUp
<1>2. batch \subseteq Tasks /\ IsFiniteSet(batch) /\ Cardinality(batch) \in Nat
  BY TasksAreFinite, FS_Subset, FS_CardinalityType DEF Waiting
<1>3. Holders' = HoldersOf(base) \cup batch /\ HoldersOf(base) \cap batch = {}
  <2>1. \A t \in batch : base[t] = "waiting"
    OBVIOUS
  <2>2. HoldersOf(base) \cap batch = {}
    BY <2>1 DEF HoldersOf
  <2>3. \A t \in Tasks : t \in Holders' <=> t \in HoldersOf(base) \/ t \in batch
    BY <1>1, <1>2 DEF Holders, HoldersOf
  <2>4. Holders' \subseteq Tasks /\ HoldersOf(base) \subseteq Tasks
    BY DEF Holders, HoldersOf
  <2> QED BY <1>2, <2>2, <2>3, <2>4
<1>4. Cardinality(Holders') = Cardinality(HoldersOf(base)) + Cardinality(batch)
  <2>1. IsFiniteSet(HoldersOf(base)) /\ Cardinality(HoldersOf(base)) \in Nat
    BY HoldersAreFinite
  <2>2. Cardinality(HoldersOf(base) \cup batch)
          = Cardinality(HoldersOf(base)) + Cardinality(batch) - Cardinality(HoldersOf(base) \cap batch)
    BY <1>2, <2>1, FS_Union
  <2>3. Cardinality(HoldersOf(base) \cap batch) = 0
    BY <1>3, FS_EmptySet
  <2> QED BY <1>2, <1>3, <2>1, <2>2, <2>3
<1>5. Cardinality(HoldersOf(base)) \in Nat
  BY HoldersAreFinite
<1>6. {t \in Tasks : task'[t] = "ok"} = {t \in Tasks : base[t] = "ok"}
  BY <1>1, <1>2
<1> QED BY <1>1, <1>2, <1>4, <1>5, <1>6

\* A task that starts or stops holding a permit changes their number by one.
LEMMA OneHolder ==
  ASSUME NEW states \in [Tasks -> States], NEW t \in Tasks, NEW state
  PROVE  LET before == Cardinality(HoldersOf(states))
             after == Cardinality(HoldersOf([states EXCEPT ![t] = state]))
         IN  /\ t \in HoldersOf(states) /\ t \notin HoldersOf([states EXCEPT ![t] = state])
                  => after = before - 1
             /\ t \notin HoldersOf(states) /\ t \in HoldersOf([states EXCEPT ![t] = state])
                  => after = before + 1
             /\ (t \in HoldersOf(states) <=> t \in HoldersOf([states EXCEPT ![t] = state]))
                  => after = before
<1> DEFINE new == [states EXCEPT ![t] = state]
<1>1. \A u \in Tasks \ {t} : u \in HoldersOf(states) <=> u \in HoldersOf(new)
  BY DEF HoldersOf
<1>2. IsFiniteSet(HoldersOf(states)) /\ HoldersOf(states) \subseteq Tasks /\ HoldersOf(new) \subseteq Tasks
  BY HoldersAreFinite DEF HoldersOf
<1> HIDE DEF new
<1>3. CASE t \in HoldersOf(states) /\ t \notin HoldersOf(new)
  <2>1. HoldersOf(new) = HoldersOf(states) \ {t}
    BY <1>1, <1>2, <1>3
  <2> QED BY <1>2, <1>3, <2>1, FS_RemoveElement DEF new
<1>4. CASE t \notin HoldersOf(states) /\ t \in HoldersOf(new)
  <2>1. HoldersOf(new) = HoldersOf(states) \cup {t}
    BY <1>1, <1>2, <1>4
  <2> QED BY <1>2, <1>4, <2>1, FS_AddElement DEF new
<1>5. CASE t \in HoldersOf(states) <=> t \in HoldersOf(new)
  <2>1. HoldersOf(new) = HoldersOf(states)
    BY <1>1, <1>2, <1>5
  <2> QED BY <1>5, <2>1 DEF new
<1> QED BY <1>3, <1>4, <1>5 DEF new

Answered == {t \in Tasks : task[t] = "ok"}

PermitInv == /\ permits \in Nat /\ PermitAccounting
             /\ invocations \in Nat /\ InvocationsCountAnswers

\* A step that wakes up tasks after moving its own one to `state`.
LEMMA WakingStep ==
  ASSUME Shape, PermitInv, NEW t \in Tasks, task[t] # "waiting", NEW state \in Live \cup Finished,
         NEW value \in Nat, NEW limit \in 0 .. value,
         WakeUp(value, limit, Become(t, state)),
         value = permits + (IF t \in Holders THEN 1 ELSE 0)
                         - (IF state = "inflight" THEN 1 ELSE 0),
         state = "inflight" \/ state \in Finished
  PROVE  /\ permits' \in Nat /\ PermitAccounting'
         /\ Answered' = {u \in Tasks : Become(t, state)[u] = "ok"}
<1> DEFINE base == Become(t, state)
<1>1. \A u \in Waiting : base[u] = "waiting"
  BY DEF Shape, Waiting, Become
<1>2. /\ permits' \in Nat
      /\ permits' + Cardinality(Holders') = value + Cardinality(HoldersOf(base))
      /\ Answered' = {u \in Tasks : base[u] = "ok"}
  BY <1>1, WakeUpAccounts DEF Answered
<1>3. Holders = HoldersOf(task) /\ (t \in HoldersOf(base) <=> state = "inflight")
  BY DEF Holders, HoldersOf, Become, Shape
<1>4. Cardinality(HoldersOf(base)) \in Nat /\ Cardinality(Holders) \in Nat
  BY <1>3, HoldersAreFinite
<1>5. value + Cardinality(HoldersOf(base)) = permits + Cardinality(Holders)
  <2> DEFINE before == Cardinality(HoldersOf(task))
             after == Cardinality(HoldersOf(base))
  <2>1. /\ t \in HoldersOf(task) /\ t \notin HoldersOf(base) => after = before - 1
        /\ t \notin HoldersOf(task) /\ t \in HoldersOf(base) => after = before + 1
        /\ (t \in HoldersOf(task) <=> t \in HoldersOf(base)) => after = before
    <3>1. task \in [Tasks -> States]
      BY DEF Shape
    <3> QED BY <3>1, OneHolder DEF Become
  <2> HIDE DEF before, after, base
  <2>2. value + after = permits + before
    BY <1>3, <1>4, <2>1 DEF before, after, PermitInv
  <2> QED BY <1>3, <2>2 DEF before, after
<1> QED BY <1>2, <1>5 DEF PermitInv, PermitAccounting

\* Finitely many tasks were answered.
LEMMA AnsweredIsFinite == IsFiniteSet(Answered) /\ Cardinality(Answered) \in Nat
BY TasksAreFinite, FS_Subset, FS_CardinalityType DEF Answered

\* Going on to the next layer moves no permit.
LEMMA AdvanceMovesNoPermit ==
  ASSUME RunData, NEW r \in Runs, NEW D \in Graphs \cup {NoGraph},
         NEW res \in [Tasks -> {"absent", "content", "error", "cancelled"}],
         Advances(r, D, res)
  PROVE  Holders' = Holders /\ Answered' = Answered
<1>1. PICK layer \in SUBSET DOMAIN D : Continues(r, D, res, layer)
  BY NextLayerEffect DEF Advances, RunData
<1>2. DOMAIN D \subseteq Agents
  BY PlansAreTyped
<1>3. \A t \in {r} \X layer : t \in TasksOf(r) /\ task[t] \notin Live /\ task[t] # "ok"
  BY <1>1, <1>2 DEF Continues, Advances, Recorded
<1>4. \A t \in Tasks : /\ task'[t] = task[t] \/ (t \in {r} \X layer /\ task'[t] = "scheduled")
  BY <1>1 DEF Continues
<1>5. \A t \in Tasks : (t \in Holders' <=> t \in Holders) /\ (t \in Answered' <=> t \in Answered)
  BY <1>3, <1>4 DEF Holders, Answered
<1> QED BY <1>5 DEF Holders, Answered

\* No permit is ever lost or invented, and the metrics count the answers.
THEOREM PermitsHold == Spec => []PermitInv
<1>1. Init => PermitInv
  <2> SUFFICES ASSUME Init PROVE PermitInv
    OBVIOUS
  <2>1. Holders = {} /\ {t \in Tasks : task[t] = "ok"} = {}
    BY DEF Init, Holders
  <2>2. Cardinality(Holders) = 0 /\ Cardinality({t \in Tasks : task[t] = "ok"}) = 0
    BY <2>1, FS_EmptySet
  <2>3. permits = MaxConcurrent /\ invocations = 0
    BY DEF Init
  <2> QED BY <2>2, <2>3, SomePermit DEF PermitInv, PermitAccounting, InvocationsCountAnswers
<1>2. RunData /\ PermitInv /\ [Next]_vars => PermitInv'
  <2> SUFFICES ASSUME RunData, PermitInv, [Next]_vars PROVE PermitInv'
    OBVIOUS
  <2>1. ASSUME Holders' = Holders, Answered' = Answered, UNCHANGED <<permits, invocations>>
        PROVE  PermitInv'
    BY <2>1 DEF PermitInv, PermitAccounting, InvocationsCountAnswers, Answered
  <2>2. ASSUME NEW r \in Runs, NEW D \in Graphs, RunDag(r, D) PROVE PermitInv'
    <3>1. UNCHANGED <<permits, invocations>>
      BY <2>2 DEF RunDag, semaphore
    <3>2. CASE Advances(r, D, results)
      <4>1. results \in [Tasks -> {"absent", "content", "error", "cancelled"}]
        BY DEF RunData, Shape
      <4> QED BY <2>1, <3>1, <3>2, <4>1, AdvanceMovesNoPermit
    <3>3. CASE UNCHANGED task
      BY <2>1, <3>1, <3>3 DEF Holders, Answered
    <3> QED BY <2>2, <3>2, <3>3, RunDagAdvances
  <2>3. ASSUME NEW r \in Runs, LayerDone(r) PROVE PermitInv'
    <3>1. UNCHANGED <<permits, invocations>> /\ dag[r] \in Graphs \cup {NoGraph}
      BY <2>3 DEF LayerDone, semaphore, RunData, Shape
    <3> QED BY <2>1, <2>3, <3>1, LayerDoneAdvances, AdvanceMovesNoPermit
  <2>4. ASSUME NEW r \in Runs, CancelDone(r) PROVE PermitInv'
    BY <2>1, <2>4 DEF CancelDone, semaphore, Holders, Answered
  <2>5. ASSUME NEW r \in Runs, Cancel(r) PROVE PermitInv'
    <3>1. \A t \in Tasks : (t \in Holders' <=> t \in Holders) /\ (t \in Answered' <=> t \in Answered)
      BY <2>5 DEF Cancel, Cancelling, Holders, Answered, RunData, Shape
    <3>2. Holders' = Holders /\ Answered' = Answered
      BY <3>1 DEF Holders, Answered
    <3> QED BY <2>1, <2>5, <3>2 DEF Cancel, semaphore
  <2>6. ASSUME NEW t \in Tasks, TaskStep(t) PROVE PermitInv'
    <3> USE DEF RunData
    <3>1. CASE Acquire(t)
      <4>1. Cardinality(HoldersOf(task)) \in Nat /\ Holders = HoldersOf(task)
            /\ Holders' = HoldersOf(task')
        BY HoldersAreFinite DEF Holders, HoldersOf
      <4>2. Answered' = Answered /\ invocations' = invocations
        BY <3>1 DEF Acquire, Answered, Become, Shape
      <4>3. CASE task' = Become(t, "inflight") /\ permits' = permits - 1 /\ ~ Locked
        <5>1. t \notin HoldersOf(task) /\ t \in HoldersOf(task')
          BY <3>1, <4>3 DEF Acquire, HoldersOf, Become, Shape
        <5>2. Cardinality(HoldersOf(task')) = Cardinality(HoldersOf(task)) + 1
          <6>1. task \in [Tasks -> States] /\ task' = [task EXCEPT ![t] = "inflight"]
            BY <4>3 DEF Become, Shape
          <6> QED BY <5>1, <6>1, OneHolder
        <5>3. permits # 0
          BY <4>3 DEF Locked
        <5>4. permits' \in Nat /\ PermitAccounting'
          BY <4>1, <4>3, <5>2, <5>3 DEF PermitInv, PermitAccounting
        <5>5. invocations' \in Nat /\ InvocationsCountAnswers'
          BY <4>2 DEF PermitInv, InvocationsCountAnswers, Answered
        <5> QED BY <5>4, <5>5 DEF PermitInv
      <4>4. CASE task' = Become(t, "waiting") /\ permits' = permits
        <5>1. t \notin HoldersOf(task) /\ t \notin HoldersOf(task')
          BY <3>1, <4>4 DEF Acquire, HoldersOf, Become, Shape
        <5>2. Cardinality(HoldersOf(task')) = Cardinality(HoldersOf(task))
          <6>1. task \in [Tasks -> States] /\ task' = [task EXCEPT ![t] = "waiting"]
            BY <4>4 DEF Become, Shape
          <6> QED BY <5>1, <6>1, OneHolder
        <5> QED BY <4>1, <4>2, <4>4, <5>2
                DEF PermitInv, PermitAccounting, InvocationsCountAnswers, Answered
      <4> QED BY <3>1, <4>3, <4>4 DEF Acquire
    <3>2. ASSUME NEW state \in Live \cup Finished, state # "ok", task[t] # "ok",
                 permits' \in Nat /\ PermitAccounting',
                 Answered' = {u \in Tasks : Become(t, state)[u] = "ok"},
                 invocations' = invocations
          PROVE  PermitInv'
      <4>1. Answered' = Answered
        BY <3>2 DEF Answered, Become, Shape
      <4> QED BY <3>2, <4>1 DEF PermitInv, InvocationsCountAnswers, Answered
    <3>3. CASE Resume(t)
      <4>1. t \in Holders /\ task[t] = "granted" /\ permits \in Nat
        BY <3>3 DEF Resume, Holders, PermitInv
      <4>2. WakeUp(permits, permits, Become(t, "inflight")) /\ invocations' = invocations
        BY <3>3 DEF Resume
      <4>3. /\ permits' \in Nat /\ PermitAccounting'
            /\ Answered' = {u \in Tasks : Become(t, "inflight")[u] = "ok"}
        BY <4>1, <4>2, WakingStep
      <4> QED BY <3>2, <4>1, <4>2, <4>3
    <3>4. ASSUME NEW outcome \in Finished, Complete(t, outcome) PROVE PermitInv'
      <4>1. t \in Holders /\ task[t] = "inflight" /\ permits + 1 \in Nat /\ 1 \in 0 .. permits + 1
        BY <3>4 DEF Complete, Holders, PermitInv
      <4>2. WakeUp(permits + 1, 1, Become(t, outcome))
        BY <3>4 DEF Complete, Release
      <4>3. /\ permits' \in Nat /\ PermitAccounting'
            /\ Answered' = {u \in Tasks : Become(t, outcome)[u] = "ok"}
        BY <4>1, <4>2, WakingStep, SMTT(20) DEF PermitInv
      <4>4. CASE outcome = "ok"
        <5>1. Answered' = Answered \cup {t} /\ t \notin Answered
          BY <4>1, <4>3, <4>4 DEF Answered, Become, Shape
        <5>2. Cardinality(Answered') = Cardinality(Answered) + 1
          BY <5>1, AnsweredIsFinite, FS_AddElement
        <5> QED BY <3>4, <4>3, <4>4, <5>2, AnsweredIsFinite
                DEF Complete, PermitInv, InvocationsCountAnswers, Answered
      <4>5. CASE outcome # "ok"
        <5>1. invocations' = invocations
          BY <3>4, <4>5 DEF Complete
        <5> QED BY <3>2, <4>1, <4>3, <4>5, <5>1
      <4> QED BY <4>4, <4>5
    <3>5. CASE Leave(t)
      <4> DEFINE value == IF task[t] = "returning" THEN permits + 1 ELSE permits
      <4>1. /\ task[t] \in {"leaving", "returning"} /\ invocations' = invocations
            /\ WakeUp(value, value, Become(t, "cancelled"))
        BY <3>5 DEF Leave
      <4>2. /\ value \in Nat /\ value \in 0 .. value
            /\ value = permits + (IF t \in Holders THEN 1 ELSE 0) - 0
        BY <4>1 DEF Holders, PermitInv
      <4> HIDE DEF value
      <4>3. /\ permits' \in Nat /\ PermitAccounting'
            /\ Answered' = {u \in Tasks : Become(t, "cancelled")[u] = "ok"}
        BY <4>1, <4>2, WakingStep
      <4> QED BY <3>2, <4>1, <4>3
    <3>6. CASE Unwind(t)
      <4>1. t \in Holders /\ task[t] = "unwinding" /\ permits + 1 \in Nat /\ 1 \in 0 .. permits + 1
        BY <3>6 DEF Unwind, Holders, PermitInv
      <4>2. WakeUp(permits + 1, 1, Become(t, "cancelled")) /\ invocations' = invocations
        BY <3>6 DEF Unwind, Release
      <4>3. /\ permits' \in Nat /\ PermitAccounting'
            /\ Answered' = {u \in Tasks : Become(t, "cancelled")[u] = "ok"}
        BY <4>1, <4>2, WakingStep DEF PermitInv
      <4> QED BY <3>2, <4>1, <4>2, <4>3
    <3> QED BY <2>6, <3>1, <3>3, <3>4, <3>5, <3>6 DEF TaskStep, LocalStep, Answer
  <2>7. CASE UNCHANGED vars
    BY <2>1, <2>7 DEF vars, semaphore, Holders, Answered
  <2> QED BY <2>2, <2>3, <2>4, <2>5, <2>6, <2>7 DEF Next, RunStep
<1> QED BY <1>1, <1>2, RunDataHolds, PTL DEF Spec

\* The semaphore's value and the tasks that hold a permit always add up.
THEOREM PermitAccountingHolds == Spec => []PermitAccounting
BY PermitsHold, PTL DEF PermitInv

\* total_invocations is the number of answered requests.
THEOREM InvocationsCountAnswersHolds == Spec => []InvocationsCountAnswers
BY PermitsHold, PTL DEF PermitInv
-----------------------------------------------------------------------------
(* The queue of the semaphore.                                             *)
Queueing == {t \in Tasks : task[t] \in {"waiting", "granted", "leaving", "returning"}}

Distinct(s) == \A i, j \in DOMAIN s : i # j => s[i] # s[j]

\* deque.remove of an element that occurs once.
LEMMA RemoveAtEffect ==
  ASSUME NEW S, NEW s \in Seq(S), Distinct(s), NEW i \in DOMAIN s
  PROVE  /\ RemoveAt(s, i) \in Seq(S)
         /\ Distinct(RemoveAt(s, i))
         /\ ToSet(RemoveAt(s, i)) = ToSet(s) \ {s[i]}
<1> DEFINE front == SubSeq(s, 1, i - 1)
           back == SubSeq(s, i + 1, Len(s))
           r == RemoveAt(s, i)
<1>1. i \in 1 .. Len(s) /\ Len(s) \in Nat /\ DOMAIN s = 1 .. Len(s)
  OBVIOUS
<1>2. /\ front \in Seq(S) /\ Len(front) = i - 1
      /\ \A j \in 1 .. i - 1 : front[j] = s[j]
  BY <1>1
<1>3. /\ back \in Seq(S) /\ Len(back) = Len(s) - i
      /\ \A j \in 1 .. Len(s) - i : back[j] = s[j + i]
  BY <1>1
<1>4. r = front \o back
  BY DEF RemoveAt
<1> HIDE DEF front, back, r
<1>5. /\ r \in Seq(S) /\ Len(r) = Len(s) - 1 /\ DOMAIN r = 1 .. Len(s) - 1
      /\ \A j \in 1 .. Len(s) - 1 : r[j] = IF j < i THEN s[j] ELSE s[j + 1]
  <2>1. r \in Seq(S) /\ Len(r) = Len(s) - 1 /\ DOMAIN r = 1 .. Len(s) - 1
    <3>1. front \o back \in Seq(S) /\ Len(front \o back) = Len(front) + Len(back)
      BY <1>2, <1>3, ConcatProperties, Zenon
    <3>2. Len(r) = Len(s) - 1
      BY <1>1, <1>2, <1>3, <1>4, <3>1
    <3> QED BY <1>4, <3>1, <3>2
  <2>2. ASSUME NEW j \in 1 .. Len(s) - 1 PROVE r[j] = IF j < i THEN s[j] ELSE s[j + 1]
    <3>1. CASE j < i
      <4>1. j \in 1 .. i - 1
        BY <1>1, <3>1
      <4>2. (front \o back)[j] = front[j]
        BY <1>2, <1>3, <4>1, ConcatProperties
      <4> QED BY <1>2, <1>4, <3>1, <4>1, <4>2
    <3>2. CASE ~ j < i
      <4>1. r[j] = back[j - (i - 1)]
        BY <1>1, <1>2, <1>3, <1>4, <3>2
      <4>2. j - (i - 1) \in 1 .. Len(s) - i /\ (j - (i - 1)) + i = j + 1
        BY <1>1, <3>2
      <4> QED BY <1>3, <3>2, <4>1, <4>2
    <3> QED BY <3>1, <3>2
  <2> QED BY <2>1, <2>2, Zenon
<1>6. Distinct(r)
  <2> SUFFICES ASSUME NEW j \in DOMAIN r, NEW k \in DOMAIN r, j # k PROVE r[j] # r[k]
    BY DEF Distinct
  <2> DEFINE place(n) == IF n < i THEN n ELSE n + 1
  <2>1. /\ place(j) \in DOMAIN s /\ place(k) \in DOMAIN s /\ place(j) # place(k)
        /\ r[j] = s[place(j)] /\ r[k] = s[place(k)]
    BY <1>1, <1>5
  <2> HIDE DEF place
  <2> QED BY <2>1 DEF Distinct
<1>7. ToSet(r) = ToSet(s) \ {s[i]}
  <2>1. ASSUME NEW j \in DOMAIN r PROVE r[j] \in ToSet(s) \ {s[i]}
    BY <1>1, <1>5 DEF Distinct, ToSet
  <2>2. ASSUME NEW k \in DOMAIN s, k # i PROVE s[k] \in ToSet(r)
    <3>1. CASE k < i
      BY <1>1, <1>5, <3>1 DEF ToSet
    <3>2. CASE k > i
      <4>1. k - 1 \in DOMAIN r /\ r[k - 1] = s[k]
        BY <1>1, <1>5, <3>2
      <4> QED BY <4>1 DEF ToSet
    <3> QED BY <1>1, <2>2, <3>1, <3>2
  <2> QED BY <2>1, <2>2 DEF ToSet
<1> QED BY <1>5, <1>6, <1>7 DEF r

\* What deque.append does to a queue without repetitions.
LEMMA AppendEffect ==
  ASSUME NEW S, NEW s \in Seq(S), Distinct(s), NEW e \in S, e \notin ToSet(s)
  PROVE  /\ Append(s, e) \in Seq(S)
         /\ Distinct(Append(s, e))
         /\ ToSet(Append(s, e)) = ToSet(s) \cup {e}
<1> DEFINE r == Append(s, e)
<1>1. /\ r \in Seq(S) /\ Len(s) \in Nat /\ DOMAIN s = 1 .. Len(s) /\ DOMAIN r = 1 .. Len(s) + 1
      /\ \A j \in 1 .. Len(s) : r[j] = s[j]
      /\ r[Len(s) + 1] = e
  BY AppendProperties
<1> HIDE DEF r
<1>2. Distinct(r)
  <2> SUFFICES ASSUME NEW j \in DOMAIN r, NEW k \in DOMAIN r, j < k PROVE r[j] # r[k]
    BY <1>1 DEF Distinct
  <2>1. j \in DOMAIN s /\ r[j] = s[j]
    BY <1>1
  <2>2. (k \in DOMAIN s /\ r[k] = s[k]) \/ r[k] = e
    BY <1>1
  <2> QED BY <2>1, <2>2 DEF Distinct, ToSet
<1>3. ToSet(r) = ToSet(s) \cup {e}
  BY <1>1 DEF ToSet
<1> QED BY <1>1, <1>2, <1>3 DEF r

QueueInv == /\ waiters \in Seq(Tasks)
            /\ QueueIsExact
            /\ NoLostWakeup

\* The same in terms of sets of tasks.
QueueParts == /\ waiters \in Seq(Tasks) /\ Distinct(waiters) /\ ToSet(waiters) = Queueing
              /\ permits > 0 /\ Waiting # {} => Queueing \ Waiting # {}

\* The invariant of the queue, in terms of sets of tasks.
LEMMA QueueInvParts == (QueueInv <=> QueueParts) /\ (QueueInv' <=> QueueParts')
<1>1. QueueInv <=> QueueParts
  <2>1. QueueIsExact <=> ToSet(waiters) = Queueing /\ Distinct(waiters)
    BY DEF QueueIsExact, Queueing, Distinct
  <2>2. ASSUME ToSet(waiters) = Queueing
        PROVE  NoLostWakeup <=> (permits > 0 /\ Waiting # {} => Queueing \ Waiting # {})
    <3>1. (\E t \in Queueing : task[t] # "waiting") <=> Queueing \ Waiting # {}
      BY DEF Queueing, Waiting
    <3>2. (\E t \in ToSet(waiters) : task[t] # "waiting") <=>
          (\E t \in Queueing : task[t] # "waiting")
      BY <2>2
    <3> QED BY <3>1, <3>2, Zenon DEF NoLostWakeup
  <2> QED BY <2>1, <2>2 DEF QueueInv, QueueParts
<1> QED BY <1>1, PTL

\* A step that leaves the queue and what it says of the tasks alone.
LEMMA QueueIsStable ==
  ASSUME QueueInv, waiters' = waiters, Queueing' = Queueing, Waiting' \subseteq Waiting,
         Waiting' # {} /\ permits' > 0 => permits > 0
  PROVE  QueueInv'
BY QueueInvParts DEF QueueParts

\* Waking up leaves the queue alone, and a permit is only left over when nobody
\* waits any more.
LEMMA WakeUpQueue ==
  ASSUME Shape, NEW t \in Tasks, task[t] # "waiting", NEW state \in {"inflight"} \cup Finished,
         NEW value \in Nat, NEW limit \in 0 .. value,
         WakeUp(value, limit, Become(t, state))
  PROVE  /\ Queueing' = Queueing \ {t} /\ Waiting' \subseteq Waiting
         /\ Waiting' # {} => permits' = value - limit
<1>1. PICK batch \in SUBSET Waiting :
         /\ Cardinality(batch) <= limit
         /\ Cardinality(batch) < limit => batch = Waiting
         /\ permits' = value - Cardinality(batch)
         /\ task' = [u \in Tasks |-> IF u \in batch THEN "granted" ELSE Become(t, state)[u]]
  BY DEF WakeUp
<1>2. Cardinality(batch) \in Nat
  BY TasksAreFinite, FS_Subset, FS_CardinalityType DEF Waiting
<1>3. batch \subseteq Tasks /\ t \notin batch /\ \A u \in batch : task[u] = "waiting"
  BY DEF Waiting
<1>4. \A u \in Tasks : /\ u \in Waiting' <=> u \in Waiting \ batch
                       /\ u \in Queueing' <=> u \in Queueing \ {t}
  BY <1>1, <1>3 DEF Waiting, Queueing, Become, Shape
<1>5. Queueing' = Queueing \ {t} /\ Waiting' = Waiting \ batch
  BY <1>4 DEF Waiting, Queueing
<1>6. Waiting' # {} => Cardinality(batch) = limit
  BY <1>1, <1>2, <1>5
<1> QED BY <1>1, <1>5, <1>6

\* A task that resumes at the queue takes itself out of it and wakes all it can.
LEMMA ResumedFromQueue ==
  ASSUME Shape, QueueInv, NEW t \in Tasks, t \in Queueing, task[t] # "waiting",
         NEW state \in {"inflight"} \cup Finished, NEW value \in Nat,
         LeaveQueue(t), WakeUp(value, value, Become(t, state))
  PROVE  QueueInv'
<1>1. PICK i \in DOMAIN waiters : waiters[i] = t /\ waiters' = RemoveAt(waiters, i)
  BY DEF LeaveQueue
<1>2. waiters \in Seq(Tasks) /\ Distinct(waiters) /\ ToSet(waiters) = Queueing
  BY QueueInvParts DEF QueueParts
<1>3. /\ waiters' \in Seq(Tasks) /\ Distinct(waiters')
      /\ ToSet(waiters') = Queueing \ {t}
  BY <1>1, <1>2, RemoveAtEffect
<1>4. /\ Queueing' = Queueing \ {t}
      /\ Waiting' # {} => permits' = value - value
  <2>1. value \in 0 .. value
    OBVIOUS
  <2> QED BY <2>1, WakeUpQueue
<1>5. ~ (permits' > 0 /\ Waiting' # {})
  BY <1>4
<1>6. ToSet(waiters') = Queueing'
  BY <1>3, <1>4
<1> QED BY <1>3, <1>5, <1>6, QueueInvParts DEF QueueParts

\* A task that gives back its permit wakes one waiter, if there is one.
LEMMA ReleasedPermit ==
  ASSUME Shape, QueueInv, NEW t \in Tasks, t \notin Queueing, permits \in Nat,
         NEW state \in Finished, waiters' = waiters, Release(t, state)
  PROVE  QueueInv'
<1>1. task[t] # "waiting"
  BY DEF Queueing
<1>2. permits + 1 \in Nat /\ 1 \in 0 .. permits + 1
  OBVIOUS
<1>3. /\ Queueing' = Queueing \ {t} /\ Waiting' \subseteq Waiting
      /\ Waiting' # {} => permits' = (permits + 1) - 1
  BY <1>1, <1>2, WakeUpQueue DEF Release
<1>4. Queueing' = Queueing
  BY <1>3
<1>5. Waiting' # {} /\ permits' > 0 => permits > 0
  BY <1>3
<1> QED BY <1>3, <1>4, <1>5, QueueIsStable

\* A run that starts a layer queues nothing yet.
LEMMA AdvanceMovesNoQueue ==
  ASSUME RunData, NEW r \in Runs, NEW D \in Graphs \cup {NoGraph},
         NEW res \in [Tasks -> {"absent", "content", "error", "cancelled"}],
         Advances(r, D, res)
  PROVE  Queueing' = Queueing /\ Waiting' = Waiting
<1>1. PICK layer \in SUBSET DOMAIN D : Continues(r, D, res, layer)
  BY NextLayerEffect DEF Advances, RunData
<1>2. DOMAIN D \subseteq Agents
  BY PlansAreTyped
<1>3. \A t \in {r} \X layer : t \in TasksOf(r) /\ task[t] \notin Live
  BY <1>1, <1>2 DEF Continues, Advances
<1>4. \A t \in Tasks : task'[t] = task[t] \/ (t \in {r} \X layer /\ task'[t] = "scheduled")
  BY <1>1 DEF Continues
<1>5. \A t \in Tasks : (t \in Queueing' <=> t \in Queueing) /\ (t \in Waiting' <=> t \in Waiting)
  BY <1>3, <1>4 DEF Queueing, Waiting
<1> QED BY <1>5 DEF Queueing, Waiting

\* The queue holds exactly the tasks that are queued, each once, and no permit
\* lies idle beside a waiting task that nobody will wake.
THEOREM QueueHolds == Spec => []QueueInv
<1>1. Init => QueueInv
  <2> SUFFICES ASSUME Init PROVE QueueInv
    OBVIOUS
  <2>1. waiters = <<>> /\ Queueing = {} /\ Waiting = {}
    BY DEF Init, Queueing, Waiting
  <2>2. waiters \in Seq(Tasks) /\ Distinct(waiters) /\ ToSet(waiters) = {}
    BY <2>1 DEF Distinct, ToSet
  <2> QED BY <2>1, <2>2, QueueInvParts DEF QueueParts
<1>2. RunData /\ PermitInv /\ QueueInv /\ [Next]_vars => QueueInv'
  <2> SUFFICES ASSUME RunData, PermitInv, QueueInv, [Next]_vars PROVE QueueInv'
    OBVIOUS
  <2> USE DEF RunData
  <2>1. ASSUME Queueing' = Queueing, Waiting' = Waiting, UNCHANGED <<permits, waiters>>
        PROVE  QueueInv'
    BY <2>1, QueueIsStable
  <2>2. ASSUME NEW r \in Runs, NEW D \in Graphs, RunDag(r, D) PROVE QueueInv'
    <3>1. UNCHANGED <<permits, waiters>>
      BY <2>2 DEF RunDag, semaphore
    <3>2. CASE Advances(r, D, results)
      <4>1. results \in [Tasks -> {"absent", "content", "error", "cancelled"}]
        BY DEF Shape
      <4> QED BY <2>1, <3>1, <3>2, <4>1, AdvanceMovesNoQueue
    <3>3. CASE UNCHANGED task
      BY <2>1, <3>1, <3>3 DEF Queueing, Waiting
    <3> QED BY <2>2, <3>2, <3>3, RunDagAdvances
  <2>3. ASSUME NEW r \in Runs, LayerDone(r) PROVE QueueInv'
    <3>1. UNCHANGED <<permits, waiters>> /\ dag[r] \in Graphs \cup {NoGraph}
      BY <2>3 DEF LayerDone, semaphore, Shape
    <3> QED BY <2>1, <2>3, <3>1, LayerDoneAdvances, AdvanceMovesNoQueue
  <2>4. ASSUME NEW r \in Runs, CancelDone(r) PROVE QueueInv'
    BY <2>1, <2>4 DEF CancelDone, semaphore, Queueing, Waiting
  <2>5. ASSUME NEW r \in Runs, Cancel(r) PROVE QueueInv'
    <3>1. \A t \in Tasks : /\ t \in Queueing' <=> t \in Queueing
                           /\ t \in Waiting' => t \in Waiting
      BY <2>5 DEF Cancel, Cancelling, Queueing, Waiting, Shape
    <3>2. Queueing' = Queueing /\ Waiting' \subseteq Waiting
      BY <3>1 DEF Queueing, Waiting
    <3>3. UNCHANGED <<permits, waiters>>
      BY <2>5 DEF Cancel, semaphore
    <3> QED BY <3>2, <3>3, QueueIsStable
  <2>6. ASSUME NEW t \in Tasks, Acquire(t) PROVE QueueInv'
    <3>1. t \notin Queueing /\ permits \in Nat
      BY <2>6 DEF Acquire, Queueing, PermitInv
    <3>2. CASE task' = Become(t, "inflight") /\ permits' = permits - 1 /\ waiters' = waiters
      <4>1. \A u \in Tasks : (u \in Queueing' <=> u \in Queueing) /\ (u \in Waiting' <=> u \in Waiting)
        BY <2>6, <3>2 DEF Acquire, Become, Queueing, Waiting, Shape
      <4>2. Queueing' = Queueing /\ Waiting' = Waiting
        BY <4>1 DEF Queueing, Waiting
      <4>3. permits' > 0 => permits > 0
        BY <3>1, <3>2
      <4> QED BY <3>2, <4>2, <4>3, QueueIsStable
    <3>3. CASE Locked /\ waiters' = Append(waiters, t) /\ task' = Become(t, "waiting")
               /\ permits' = permits
      <4>1. waiters \in Seq(Tasks) /\ Distinct(waiters) /\ ToSet(waiters) = Queueing
        BY QueueInvParts DEF QueueParts
      <4>2. /\ waiters' \in Seq(Tasks) /\ Distinct(waiters')
            /\ ToSet(waiters') = Queueing \cup {t}
        BY <3>1, <3>3, <4>1, AppendEffect
      <4>3. \A u \in Tasks : /\ u \in Queueing' <=> u \in Queueing \cup {t}
                             /\ u \in Waiting' <=> u \in Waiting \cup {t}
        BY <3>3 DEF Become, Queueing, Waiting, Shape
      <4>4. Queueing' = Queueing \cup {t} /\ Waiting' = Waiting \cup {t}
        BY <4>3 DEF Queueing, Waiting
      <4>5. ASSUME permits > 0 PROVE Queueing \ Waiting # {}
        <5>1. PICK u \in Queueing : task[u] # "leaving"
          BY <3>1, <3>3, <4>1, <4>5 DEF Locked
        <5>2. CASE u \in Waiting
          BY <4>5, <5>2, QueueInvParts DEF QueueParts
        <5>3. CASE u \notin Waiting
          BY <5>1, <5>3
        <5> QED BY <5>2, <5>3
      <4>6. permits' > 0 /\ Waiting' # {} => Queueing' \ Waiting' # {}
        BY <3>1, <3>3, <4>4, <4>5
      <4> QED BY <4>2, <4>4, <4>6, QueueInvParts DEF QueueParts
    <3> QED BY <2>6, <3>2, <3>3 DEF Acquire
  <2>7. ASSUME NEW t \in Tasks, Resume(t) PROVE QueueInv'
    <3>1. t \in Queueing /\ task[t] # "waiting" /\ permits \in Nat
      BY <2>7 DEF Resume, Queueing, PermitInv
    <3>2. LeaveQueue(t) /\ WakeUp(permits, permits, Become(t, "inflight"))
      BY <2>7 DEF Resume
    <3> QED BY <3>1, <3>2, ResumedFromQueue
  <2>8. ASSUME NEW t \in Tasks, Leave(t) PROVE QueueInv'
    <3> DEFINE value == IF task[t] = "returning" THEN permits + 1 ELSE permits
    <3>1. /\ t \in Queueing /\ task[t] # "waiting" /\ value \in Nat
      BY <2>8 DEF Leave, Queueing, PermitInv
    <3>2. LeaveQueue(t) /\ WakeUp(value, value, Become(t, "cancelled"))
      BY <2>8 DEF Leave
    <3> HIDE DEF value
    <3> QED BY <3>1, <3>2, ResumedFromQueue
  <2>9. ASSUME NEW t \in Tasks, NEW outcome \in Finished, Complete(t, outcome) PROVE QueueInv'
    <3>1. t \notin Queueing /\ permits \in Nat /\ Release(t, outcome) /\ waiters' = waiters
      BY <2>9 DEF Complete, Queueing, PermitInv
    <3> QED BY <3>1, ReleasedPermit
  <2>10. ASSUME NEW t \in Tasks, Unwind(t) PROVE QueueInv'
    <3>1. t \notin Queueing /\ permits \in Nat /\ Release(t, "cancelled") /\ waiters' = waiters
      BY <2>10 DEF Unwind, Queueing, PermitInv
    <3> QED BY <3>1, ReleasedPermit
  <2>11. CASE UNCHANGED vars
    BY <2>1, <2>11 DEF vars, semaphore, Queueing, Waiting
  <2> QED BY <2>2, <2>3, <2>4, <2>5, <2>6, <2>7, <2>8, <2>9, <2>10, <2>11
          DEF Next, RunStep, TaskStep, LocalStep, Answer
<1> QED BY <1>1, <1>2, RunDataHolds, PermitsHold, PTL DEF Spec

\* A permit never lies idle beside a waiting task unless a woken one is about to
\* pass it on.
THEOREM NoLostWakeupHolds == Spec => []NoLostWakeup
BY QueueHolds, PTL DEF QueueInv

\* The bookkeeping of runs, tasks, results and the semaphore's queue agrees.
THEOREM RunInvariantHolds == Spec => []RunInvariant
<1>1. RunData /\ QueueInv => RunInvariant
  BY DEF RunData, QueueInv, RunInvariant
<1> QED BY <1>1, RunDataHolds, QueueHolds, PTL

TransportKnown == triton \in BOOLEAN

\* The transport of the swarm is chosen once.
LEMMA TransportIsChosen == Spec => [](TransportKnown)
<1>1. Init => TransportKnown
  BY DEF Init, TransportKnown
<1>2. TransportKnown /\ [Next]_vars => TransportKnown'
  <2> SUFFICES ASSUME [Next]_vars PROVE UNCHANGED triton
    BY DEF TransportKnown
  <2>1. ASSUME NEW t \in Tasks, TaskStep(t) PROVE UNCHANGED triton
    <3>1. CASE Acquire(t) \/ Resume(t)
      BY <3>1 DEF Acquire, Resume
    <3>2. CASE Leave(t) \/ Unwind(t)
      BY <3>2 DEF Leave, Unwind
    <3>3. CASE Answer(t)
      BY <3>3 DEF Answer, Complete
    <3> QED BY <2>1, <3>1, <3>2, <3>3 DEF TaskStep, LocalStep
  <2>2. ASSUME NEW r \in Runs, RunStep(r) \/ Cancel(r) PROVE UNCHANGED triton
    BY <2>2 DEF RunStep, LayerDone, CancelDone, Cancel
  <2>3. ASSUME NEW r \in Runs, NEW D \in Graphs, RunDag(r, D) PROVE UNCHANGED triton
    BY <2>3 DEF RunDag
  <2>4. CASE UNCHANGED vars
    BY <2>4 DEF vars
  <2> QED BY <2>1, <2>2, <2>3, <2>4 DEF Next
<1> QED BY <1>1, <1>2, PTL DEF Spec

\* The state keeps its type: in particular the semaphore's value stays between 0
\* and max_concurrent, and no request is metered twice.
THEOREM RunTypeCorrect == Spec => []TypeOK
<1>1. RunData /\ PermitInv /\ QueueInv /\ TransportKnown => TypeOK
  <2> SUFFICES ASSUME RunData, PermitInv, QueueInv, TransportKnown PROVE TypeOK
    OBVIOUS
  <2>1. permits \in 0 .. MaxConcurrent
    <3>1. Cardinality(HoldersOf(task)) \in Nat /\ Holders = HoldersOf(task)
      BY HoldersAreFinite DEF Holders, HoldersOf
    <3>2. Cardinality(Holders) \in Nat
      BY <3>1
    <3> QED BY <3>2, SomePermit DEF PermitInv, PermitAccounting
  <2>2. invocations \in 0 .. Cardinality(Tasks)
    <3>1. Answered \subseteq Tasks
      BY DEF Answered
    <3>2. Cardinality(Answered) <= Cardinality(Tasks) /\ Cardinality(Tasks) \in Nat
      BY <3>1, TasksAreFinite, FS_Subset, FS_CardinalityType
    <3>3. invocations \in Nat /\ invocations = Cardinality(Answered)
      BY DEF PermitInv, InvocationsCountAnswers, Answered
    <3> QED BY <3>2, <3>3
  <2>3. Shape /\ waiters \in Seq(Tasks)
    BY DEF RunData, QueueInv
  <2> QED BY <2>1, <2>2, <2>3 DEF TypeOK, Shape, TransportKnown
<1> QED BY <1>1, RunDataHolds, PermitsHold, QueueHolds, TransportIsChosen, PTL
=============================================================================
