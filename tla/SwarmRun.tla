------------------------------ MODULE SwarmRun ------------------------------
(***************************************************************************)
(* swarm/nvidia_swarm_core.py, class NvidiaSwarm: runs of plans on one     *)
(* asyncio event loop.                                                     *)
(*                                                                         *)
(* run_dag executes a plan layer by layer. A layer is one task per agent,  *)
(* awaited together by asyncio.gather(return_exceptions=True); every task  *)
(* (_execute_node) holds a permit of the semaphore that all runs of the    *)
(* swarm share while its chat completion is in flight. A run may be        *)
(* cancelled from outside at any moment (Ctrl-C, a timeout of the caller). *)
(*                                                                         *)
(* A step is what the loop does between two awaits. asyncio's semaphore    *)
(* and gather, and the transport, are external: they are modelled by what  *)
(* this code sees of them (the waiter queue is that of Python 3.12).       *)
(***************************************************************************)
EXTENDS Integers, Sequences, FiniteSets, SequencesExt

CONSTANTS Runs,           \* calls of run_dag on one NvidiaSwarm
          Agents,         \* agent ids
          Graphs,         \* the plans submitted: registered agent -> dependencies
          MaxConcurrent   \* max_concurrent

ASSUME RunsFinite == IsFiniteSet(Runs)
ASSUME AgentsFinite == IsFiniteSet(Agents)
ASSUME GraphsArePlans ==
    \A D \in Graphs : DOMAIN D \subseteq Agents /\ D \in [DOMAIN D -> SUBSET Agents]
\* ThreadPoolExecutor, built beside the semaphore, refuses max_workers <= 0.
ASSUME SomePermit == MaxConcurrent \in Nat \ {0}

VARIABLES pc,           \* where each run_dag call is
          dag,          \* the plan each run was given
          task,         \* state of the task of each agent of each run
          prompt,       \* dependencies whose output _build_messages quoted to the agent
          results,      \* all_results
          permits,      \* self._semaphore._value
          waiters,      \* self._semaphore._waiters
          invocations,  \* len(self._metrics)
          triton        \* does the transport go over Triton (enable_triton)?

semaphore == <<permits, waiters>>
vars == <<pc, dag, task, prompt, results, semaphore, invocations, triton>>

Tasks == Runs \X Agents
TasksOf(r) == {r} \X Agents

NoGraph == [a \in {} |-> {}]

Init == /\ pc = [r \in Runs |-> "idle"]
        /\ dag = [r \in Runs |-> NoGraph]
        /\ task = [t \in Tasks |-> "none"]
        /\ prompt = [t \in Tasks |-> {}]
        /\ results = [t \in Tasks |-> "absent"]
        /\ permits = MaxConcurrent
        /\ waiters = <<>>
        /\ invocations = 0
        /\ triton \in BOOLEAN
-----------------------------------------------------------------------------
(* Tasks.                                                                  *)
(*   scheduled   created by gather, not run yet                            *)
(*   waiting     in the semaphore's queue                                  *)
(*   granted     handed a permit, not resumed yet, still in the queue      *)
(*   inflight    awaiting the transport's chat_completion, with a permit   *)
(*   leaving, returning, unwinding: waiting, granted, inflight and asked   *)
(*               to cancel                                                 *)
(*   ok, error, cancelled   finished                                       *)
Live == {"scheduled", "waiting", "granted", "inflight", "leaving", "returning", "unwinding"}
Finished == {"ok", "error", "cancelled"}

Holders == {t \in Tasks : task[t] \in {"granted", "inflight", "returning", "unwinding"}}
Waiting == {t \in Tasks : task[t] = "waiting"}

\* Semaphore.locked(): no value, or a queue entry that is not a cancelled one.
Locked == permits = 0 \/ \E t \in ToSet(waiters) : task[t] # "leaving"

Ahead(t, u) == \E i, j \in DOMAIN waiters : i < j /\ waiters[i] = t /\ waiters[j] = u

\* With `value` permits free, wake the first waiters in queue order, as many as
\* `limit` allows; base is what the step makes of its own task before that.
WakeUp(value, limit, base) ==
    \E batch \in SUBSET Waiting :
        /\ Cardinality(batch) <= limit
        /\ Cardinality(batch) < limit => batch = Waiting
        /\ \A t \in batch, u \in Waiting \ batch : Ahead(t, u)
        /\ permits' = value - Cardinality(batch)
        /\ task' = [t \in Tasks |-> IF t \in batch THEN "granted" ELSE base[t]]

\* deque.remove(fut) of the waiter that resumes.
LeaveQueue(t) == \E i \in DOMAIN waiters : waiters[i] = t /\ waiters' = RemoveAt(waiters, i)

Become(t, state) == [task EXCEPT ![t] = state]

\* (mutants) a permit given back twice, given back without waking the next
\* waiter, and given back on success only: release() outside of a `finally`.
ReleaseTwice(t, outcome) == WakeUp(permits + 2, 2, Become(t, outcome))
ReleaseSilently(t, outcome) == WakeUp(permits + 1, 0, Become(t, outcome))
ReleaseOnSuccess(t, outcome) ==
    IF outcome = "ok" THEN WakeUp(permits + 1, 1, Become(t, outcome))
                      ELSE task' = Become(t, outcome) /\ UNCHANGED permits

\* Semaphore.release() as __aexit__ of `async with self._semaphore`.
Release(t, outcome) == WakeUp(permits + 1, 1, Become(t, outcome))
-----------------------------------------------------------------------------
(* Layers.                                                                 *)
Settled(r, res) == {a \in DOMAIN dag[r] : res[<<r, a>>] # "absent"}

\* (mutants) one settled dependency is enough; settled agents are run again.
ReadyLayerAnyDependency(D, settled) ==
    {a \in DOMAIN D \ settled : D[a] = {} \/ D[a] \cap settled # {}}
ReadyLayerRepeats(D, settled) == {a \in DOMAIN D : D[a] \subseteq settled}

\* The next element of topological_sort's layers (SwarmDAG shows that they are
\* exactly these sets, unless an agent was registered again with fewer
\* dependencies, which the plans here are not).
ReadyLayer(D, settled) == {a \in DOMAIN D \ settled : D[a] \subseteq settled}

\* (mutant) a sort that ends when no agent is ready, instead of raising.
SortableAlways(D) == TRUE

\* Does topological_sort return? (SwarmDAG!SortOutcomeIsJustified)
Sortable(D) == \A S \in (SUBSET DOMAIN D) \ {{}} : \E a \in S : D[a] \cap S = {} /\ D[a] \subseteq DOMAIN D

\* (mutant) every dependency with a result is quoted.
QuotedWithoutContent(r, a, D, res) == {d \in D[a] : res[<<r, d>>] # "absent"}

\* _build_messages quotes the dependencies that left a content ...
Quoted(r, a, D, res) == {d \in D[a] : res[<<r, d>>] = "content"}

\* (mutant) upstream[dep]["content"] without the test: a KeyError on an error.
UnreadableWithoutContent(r, layer, D, res) ==
    \E a \in layer : \E d \in D[a] : res[<<r, d>>] # "content"

\* ... and `"content" in upstream[dep]` is a TypeError on a CancelledError object.
Unreadable(r, layer, D, res) == \E a \in layer : \E d \in D[a] : res[<<r, d>>] = "cancelled"

\* The top of the loop over the layers, up to the await of gather.
NextLayer(r, D, res) ==
    LET layer == ReadyLayer(D, {a \in DOMAIN D : res[<<r, a>>] # "absent"})
    IN  \/ /\ layer = {}
           /\ pc' = [pc EXCEPT ![r] = "returned"]
           /\ UNCHANGED <<task, prompt>>
        \/ /\ Unreadable(r, layer, D, res)
           /\ pc' = [pc EXCEPT ![r] = "raised"]
           /\ UNCHANGED <<task, prompt>>
        \/ /\ layer # {}
           /\ ~ Unreadable(r, layer, D, res)
           /\ pc' = [pc EXCEPT ![r] = "gather"]
           /\ task' = [t \in Tasks |-> IF t \in {r} \X layer THEN "scheduled" ELSE task[t]]
           /\ prompt' = [t \in Tasks |-> IF t \in {r} \X layer THEN Quoted(r, t[2], D, res)
                                                               ELSE prompt[t]]

RunDag(r, D) ==
    /\ pc[r] = "idle"
    /\ dag' = [dag EXCEPT ![r] = D]
    /\ \/ /\ Sortable(D)
          /\ NextLayer(r, D, results)
       \/ /\ ~ Sortable(D)
          /\ pc' = [pc EXCEPT ![r] = "raised"]
          /\ UNCHANGED <<task, prompt>>
    /\ UNCHANGED <<results, semaphore, invocations, triton>>

\* What all_results records for a finished task. An outcome that is a
\* CancelledError is no Exception: it is stored as it is, as a "completed" one.
Recorded(outcome) == CASE outcome = "ok" -> "content"
                       [] outcome = "error" -> "error"
                       [] outcome = "cancelled" -> "cancelled"

\* (mutant) gather without return_exceptions: the first failure ends the wait.
LayerDoneAtFirstError(r) ==
    /\ pc[r] = "gather"
    /\ \E t \in TasksOf(r) : task[t] = "error"
    /\ pc' = [pc EXCEPT ![r] = "raised"]
    /\ UNCHANGED <<dag, task, prompt, results, semaphore, invocations, triton>>

\* Every task of the layer is done, gather returns, the results are recorded
\* and the loop goes on.
LayerDone(r) ==
    /\ pc[r] = "gather"
    /\ \A t \in TasksOf(r) : task[t] \notin Live
    /\ results' = [t \in Tasks |->
                      IF t \in TasksOf(r) /\ task[t] \in Finished THEN Recorded(task[t])
                                                                  ELSE results[t]]
    /\ NextLayer(r, dag[r], results')
    /\ UNCHANGED <<dag, semaphore, invocations, triton>>
-----------------------------------------------------------------------------
(* _execute_node.                                                          *)

\* async with self._semaphore, on entry.
Acquire(t) ==
    /\ task[t] = "scheduled"
    /\ \/ /\ ~ Locked
          /\ permits' = permits - 1
          /\ task' = Become(t, "inflight")
          /\ UNCHANGED waiters
       \/ /\ Locked
          /\ waiters' = Append(waiters, t)
          /\ task' = Become(t, "waiting")
          /\ UNCHANGED permits
    /\ UNCHANGED <<pc, dag, prompt, results, invocations, triton>>

\* A woken waiter leaves the queue and passes on what is free.
Resume(t) ==
    /\ task[t] = "granted"
    /\ LeaveQueue(t)
    /\ WakeUp(permits, permits, Become(t, "inflight"))
    /\ UNCHANGED <<pc, dag, prompt, results, invocations, triton>>

\* The transport answers, raises, or is itself cancelled (grpc.aio does that to
\* the calls over a channel that is closed). Only an answer is metered.
Complete(t, outcome) ==
    /\ task[t] = "inflight"
    /\ outcome = "cancelled" => triton
    /\ Release(t, outcome)
    /\ invocations' = IF outcome = "ok" THEN invocations + 1 ELSE invocations
    /\ UNCHANGED <<pc, dag, prompt, results, waiters, triton>>
-----------------------------------------------------------------------------
(* Cancellation of a run: gather hands it to every task of the layer.      *)
Cancelling(state) == CASE state = "scheduled" -> "cancelled"
                       [] state = "waiting" -> "leaving"
                       [] state = "granted" -> "returning"
                       [] state = "inflight" -> "unwinding"
                       [] OTHER -> state

Cancel(r) ==
    /\ pc[r] = "gather"
    /\ pc' = [pc EXCEPT ![r] = "cancelling"]
    /\ task' = [t \in Tasks |-> IF t \in TasksOf(r) THEN Cancelling(task[t]) ELSE task[t]]
    /\ UNCHANGED <<dag, prompt, results, semaphore, invocations, triton>>

\* A cancelled waiter leaves the queue; a permit it was handed goes back.
Leave(t) ==
    /\ task[t] \in {"leaving", "returning"}
    /\ LeaveQueue(t)
    /\ LET value == IF task[t] = "returning" THEN permits + 1 ELSE permits
       IN  WakeUp(value, value, Become(t, "cancelled"))
    /\ UNCHANGED <<pc, dag, prompt, results, invocations, triton>>

\* CancelledError leaves the transport and `async with` releases the permit.
Unwind(t) ==
    /\ task[t] = "unwinding"
    /\ Release(t, "cancelled")
    /\ UNCHANGED <<pc, dag, prompt, results, waiters, invocations, triton>>

\* gather raises CancelledError into run_dag when its last task is done.
CancelDone(r) ==
    /\ pc[r] = "cancelling"
    /\ \A t \in TasksOf(r) : task[t] \notin Live
    /\ pc' = [pc EXCEPT ![r] = "cancelled"]
    /\ UNCHANGED <<dag, task, prompt, results, semaphore, invocations, triton>>
-----------------------------------------------------------------------------
Answer(t) == \E outcome \in Finished : Complete(t, outcome)

\* The steps of a task that need nothing but the event loop.
LocalStep(t) == Acquire(t) \/ Resume(t) \/ Leave(t) \/ Unwind(t)

TaskStep(t) == LocalStep(t) \/ Answer(t)
RunStep(r) == LayerDone(r) \/ CancelDone(r)

Next == \/ \E r \in Runs, D \in Graphs : RunDag(r, D)
        \/ \E r \in Runs : RunStep(r) \/ Cancel(r)
        \/ \E t \in Tasks : TaskStep(t)

Spec == Init /\ [][Next]_vars

\* The event loop runs what is ready, and the HTTP session's total timeout
\* (ClientTimeout(total=120)) ends every request over HTTP. A call to Triton has
\* no deadline: nothing makes it end.
Fairness == /\ \A r \in Runs : WF_vars(RunStep(r))
            /\ \A t \in Tasks : /\ WF_vars(LocalStep(t))
                                /\ WF_vars(~ triton /\ Answer(t))

FairSpec == Spec /\ Fairness
-----------------------------------------------------------------------------
Over == {"returned", "raised", "cancelled"}

TypeOK ==
    /\ pc \in [Runs -> {"idle", "gather", "cancelling"} \cup Over]
    /\ dag \in [Runs -> Graphs \cup {NoGraph}]
    /\ task \in [Tasks -> {"none"} \cup Live \cup Finished]
    /\ prompt \in [Tasks -> SUBSET Agents]
    /\ results \in [Tasks -> {"absent", "content", "error", "cancelled"}]
    /\ permits \in 0 .. MaxConcurrent
    /\ waiters \in Seq(Tasks)
    /\ invocations \in 0 .. Cardinality(Tasks)
    /\ triton \in BOOLEAN

\* No permit is lost or invented on any path through _execute_node (answer,
\* exception, cancellation while queued, while just woken, while in flight).
PermitAccounting == permits + Cardinality(Holders) = MaxConcurrent

\* A permit lies idle beside a waiting task only while a woken task that will
\* pass it on has not resumed.
NoLostWakeup ==
    permits > 0 /\ Waiting # {} => \E t \in ToSet(waiters) : task[t] # "waiting"

\* An agent only runs once all of its dependencies are recorded, whatever became
\* of them, also when several runs share the loop.
DependenciesFirst ==
    \A r \in Runs : \A a \in DOMAIN dag[r] :
        task[<<r, a>>] # "none" => dag[r][a] \subseteq Settled(r, results)

\* What an agent was told of its dependencies is what the run finally reports of
\* them: the prompt quotes exactly those that delivered content.
PromptAgreesWithResults ==
    \A r \in Runs : \A a \in DOMAIN dag[r] :
        task[<<r, a>>] # "none" =>
            prompt[<<r, a>>] = {d \in dag[r][a] : results[<<r, d>>] = "content"}

\* A failing agent never fails the run: run_dag raises only for a plan that
\* cannot be sorted or for a dependency that ended in CancelledError.
RaisesOnlyForCause ==
    \A r \in Runs : pc[r] = "raised" =>
        \/ ~ Sortable(dag[r])
        \/ \E a \in DOMAIN dag[r], d \in Agents :
               d \in dag[r][a] /\ results[<<r, d>>] = "cancelled"

\* A run that returns reports on every agent of its plan.
ReturnsEverything ==
    \A r \in Runs : pc[r] = "returned" => Settled(r, results) = DOMAIN dag[r]

\* What run_dag comes to is justified by its plan and its results.
OutcomeIsJustified == RaisesOnlyForCause /\ ReturnsEverything

\* Once run_dag is over, none of its tasks is still queued or in flight.
NoOrphans ==
    \A r \in Runs : pc[r] \in Over \cup {"idle"} => \A t \in TasksOf(r) : task[t] \notin Live

\* total_invocations counts the answered requests, each once.
InvocationsCountAnswers == invocations = Cardinality({t \in Tasks : task[t] = "ok"})

-----------------------------------------------------------------------------
(* Why it works: what a task, a result and a queue entry say about one     *)
(* another, and about the run they belong to.                              *)
IdleIsClean ==
    \A r \in Runs : pc[r] = "idle" =>
        \A t \in TasksOf(r) : task[t] = "none" /\ results[t] = "absent"

OnlyPlannedTasks ==
    \A r \in Runs, a \in Agents : task[<<r, a>>] # "none" => a \in DOMAIN dag[r]

ResultsAreRecorded ==
    \A t \in Tasks : results[t] # "absent" =>
        task[t] \in Finished /\ results[t] = Recorded(task[t])

StartedPlansAreSortable ==
    \A r \in Runs : pc[r] \notin {"idle", "raised"} => Sortable(dag[r])

QueueIsExact ==
    /\ ToSet(waiters) = {t \in Tasks : task[t] \in {"waiting", "granted", "leaving", "returning"}}
    /\ \A i, j \in DOMAIN waiters : i # j => waiters[i] # waiters[j]

\* The bookkeeping of runs, tasks, results and the semaphore's queue agrees after
\* every step of every task and run: the strengthening the properties rest on.
RunInvariant == /\ IdleIsClean
                /\ OnlyPlannedTasks
                /\ ResultsAreRecorded
                /\ StartedPlansAreSortable
                /\ QueueIsExact
-----------------------------------------------------------------------------
\* A recorded result is never overwritten.
ResultsAreFinal == [][\A t \in Tasks : results[t] # "absent" => results'[t] = results[t]]_vars

\* No request stays with Triton for ever.
TritonAnswers == \A t \in Tasks : []<>(~ (triton /\ task[t] = "inflight"))

\* Every run ends, over HTTP and over a Triton that answers: no task waits for
\* ever for a permit, no run for its layer. A silent Triton keeps permits and
\* holds up every run of the swarm, but a run that is cancelled ends even then.
RunsEnd == /\ TritonAnswers => \A r \in Runs : pc[r] # "idle" ~> pc[r] \in Over
           /\ \A r \in Runs : pc[r] = "cancelling" ~> pc[r] \in Over

\* The plans of all runs, as one plan over the tasks.
Plan == [t \in {t \in Tasks : t[2] \in DOMAIN dag[t[1]]} |-> {t[1]} \X dag[t[1]][t[2]]]

\* The recorded results implement the dependency schedule, run by run: no result
\* is recorded before those it rests on, and no run settles another run's agents.
Schedule == INSTANCE DependencySchedule
                WITH Agents <- Tasks, deps <- Plan,
                     settled <- {t \in Tasks : results[t] # "absent"}
ScheduleSpec == Schedule!Spec
-----------------------------------------------------------------------------
\* AgentNode._result is Optional[Dict]: the result of an agent whose status is
\* "completed" is the dictionary _execute_node returned.
CompletedMeansAnswered ==
    \A r \in Runs : pc[r] = "returned" =>
        \A a \in DOMAIN dag[r] : results[<<r, a>>] \in {"content", "error"}
=============================================================================
