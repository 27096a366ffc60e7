# Verification of nvidia-swarm-lens

TLA+ models of the first-party code of this repository, TLC configurations that
check them on small instances, and TLAPS proofs of what matters most for every
value of the constants. Paths below are relative to the repository.

To check a model: `tlc -config Run.cfg MCSwarmRun`; to check the proofs of a
module: `tlapm SwarmRunProofs.tla`. `PROJECT.json` lists the components, the runs,
for every property the mutation of the code that violates it, the hazards, and for
every definition the source lines it stands for.

## 1. The system

nvidia-swarm-lens runs a task on several LLM agents. Its first-party code is about
2,000 lines of Python and JavaScript; everything under `bin/pylibs` is vendored.
The repository has no tests, so the models are read from the code itself.

| component | source | state it keeps | operations |
|---|---|---|---|
| SwarmDAG | `swarm/nvidia_swarm_core.py:33-63` | nodes, reverse edges | `add_node`, `topological_sort` |
| NvidiaSwarm | `swarm/nvidia_swarm_core.py:65-122` | semaphore, metrics, per run: results, tasks | `run_dag`, `_execute_node`, `_build_messages` |
| NIM client and pool | `swarm/nvidia_swarm_transport.py` | one aiohttp session, a lock, metrics | `get_session`, `post`, `close`, `chat_completion`, `stream_completion` |
| TritonTransport | `swarm/nvidia_swarm_transport.py:65-100` | channel, stub | `connect`, `infer`, `close` |
| ZMQEngine, ZMQTool | `swarm/nvidia_swarm_zmq.py` | three sockets, request counter | `execute`, `execute_with_capture`, `close` |
| Proxy daemon | `bin/proxy_daemon.py` | per connection: two sockets, a thread | `handle_client` |
| DaemonTunnel and relays | `swarm/nvidia_swarm_proxy.py` | pids of four `socat` processes | `start_all`, `stop_all`, `status` |
| Launcher | `launcher.py` | the components above, a metrics log | `init`, `run_task`, `close`, `main` |
| Prompt engine | `swarm/nvidia_swarm_agent.py:14-59` | prompt cache | `render`, `render_with_tools` |
| Tool decoder, agent | `swarm/nvidia_swarm_agent.py:60-154` | none | `decode`, `prepare_messages`, `parse_response` |
| GitPushHelper | `swarm/nvidia_swarm_git.py` | clones on disk | `push_one`, `push_all` |
| MCPManager | `swarm/nvidia_swarm_mcp.py` | directories on disk | `install`, `get_config` |
| Lens profiles | `lens/profile.py` | none | `get_lens`, `create_swarm_dag` |
| Lens loaders | `lens/loader.py`, `lib/lens-orchestrator.js` | loaded modules | `discover_lenses`, `apply_all` |

How they interact. The launcher's `init` builds transport, ZMQ engine, proxy stack
and git helper; `run_task` builds a SwarmDAG from lens profiles and gives it to
`run_dag`. `run_dag` sorts the plan once, then turns each layer into asyncio tasks
that share one semaphore and call the transport's `chat_completion`, which takes
the pooled HTTP session under a lock. `close` shuts transport, ZMQ engine and
relays down in this order. The ZMQ engine talks to a Jupyter kernel over sockets
that outlive a call; the proxy daemon is a process of its own with one thread per
connection.

What is hard, and what makes each component correct:

- SwarmDAG. Two views of the plan (dependencies, reverse edges) must agree or the
  counting sort goes wrong. Correct: dependencies first, every agent once, as early
  as possible, an error only for a cause and, unless an id was registered again with
  fewer dependencies, exactly for the plans that cannot be ordered, always an end.
- NvidiaSwarm. Runs interleave at every await, share permits, and may be cancelled
  while a task is queued, just woken or in flight; agents fail beside their
  siblings. Correct: no permit lost or idle beside a waiter, no orphan, no early
  start, prompts agree with results, a failure does not fail the run, every run ends
  as long as its transport answers.
- NIM client. `close` awaits while callers ask for sessions, and may be cancelled.
  Correct: no session leaks, none is posted on after it was closed, answers reach
  callers, metrics count what was answered.
- ZMQEngine. Two unordered sockets, a deadline, and leftovers of earlier calls.
  Correct: a request runs at most once, a reply and an output go to their own call.
- Proxy daemon. One thread relays two directions with blocking calls. Correct:
  nothing lost or reordered, an orderly end is complete, data arrives.
- TritonTransport. The stub exists before the server was found ready, and a call has
  no deadline. Correct: one channel, closed by `close`, and whom it may keep waiting.
- Launcher and relays. Steps fail between others, and the relays are processes that
  outlive the session, share its terminal, and compete for ports with other programs.
  Correct: what was started is stopped, with the exceptions named; a relay reported as
  active stays so, unless Ctrl-C ends it or it was somebody else's; every session ends.
- GitPushHelper. A clone on disk survives failed and killed commands and is never
  brought up to date. Correct: a reported success is in the repository, and a push
  changes its own file, with the exceptions named.
- MCPManager and prompt engine. Directories survive the process, prompts are cached
  under less than they depend on. Correct: no prompt tells of a tool that is gone.

`PROJECT.json` lists these as hazards with the line where each bites and the
properties that cover it.

## 2. The modules

| module | models | lines of code |
|---|---|---|
| `DependencySchedule` | abstract: what executing a plan as a DAG promises | |
| `SwarmDAG` | `add_node`, `topological_sort` turn by turn | `nvidia_swarm_core.py:33-63` |
| `SwarmRun` | concurrent `run_dag` calls, their tasks, the semaphore, cancellation | `nvidia_swarm_core.py:66-122` |
| `NimClient` | coroutines sharing one `PersistentConnectionPool` and one `TritonTransport` | `nvidia_swarm_transport.py:23-194` |
| `ZmqEngine` | successive `execute` calls against a kernel | `nvidia_swarm_zmq.py:21-116` |
| `ProxyTunnel` | one connection of the daemon | `bin/proxy_daemon.py:9-75` |
| `GitPush` | successive `push_one` calls through one clone | `nvidia_swarm_git.py:11-53` |
| `Launcher` | sessions of the launcher, their relays, the closing of the ZMQ engine | `launcher.py:36-196`, `nvidia_swarm_proxy.py:11-57`, `nvidia_swarm_zmq.py:123-128` |
| `AgentTools` | installing MCP servers, and which tools prompts tell of | `nvidia_swarm_mcp.py:20-70`, `nvidia_swarm_agent.py:14-59, 134-139` |
| `MC...` | instances for TLC: constants and hand-picked plans | |
| `...Proofs` | theorems about the module of that name | |

Operators marked "(mutant)" are plausible bugs of the definition that follows them.
No specification uses them; they show that each property can fail.

### SwarmDAG

`nodes`, `edges`, `inDegree`, `remaining` and `layers` are the variables of the code;
`phase` says whether `topological_sort` is running. `topological_sort` is
synchronous, so an action is one turn of its `while` loop (`SortLayer`), its raise
(`SortRaises`) or its return (`SortReturns`), and `AddNode` cannot happen in between.
A Python set has no defined order, so a layer is a set. `AddNode` may register an id
again, which replaces its node and keeps its former edges; `Stale(a)` says that an
agent has such an edge to it. The class's `_lock` is never used.

### SwarmRun

A step is what the event loop does between two awaits. `pc[r]` is where a call of
`run_dag` is; `task[<<r, a>>]` is the state of the asyncio task of agent `a`, from
`scheduled` through `waiting` and `granted` (the semaphore's queue) to `inflight` and
an outcome. `permits` and `waiters` are `_value` and `_waiters` of
`asyncio.Semaphore`, modelled after Python 3.12, where a release only wakes a waiter
and the woken task passes on what is free when it resumes. `LayerDone` is the whole
turn of `run_dag`: it records the layer's results, then builds the prompts of the
next layer and starts its tasks, returns, or raises. The layers come from
`ReadyLayer`, which is what `SwarmDAG` shows `topological_sort` to compute. Answers,
exceptions and a cancelled request are the three outcomes of `Complete`; `Cancel`
cancels a whole run, which `gather` hands to its tasks. `triton` says whether the
transport goes over Triton, which decides two things: only there can a request end in a
`CancelledError` of its own (its channel is closed under it), and only there may it stay
unanswered for ever. `LocalStep` is what a task does without the transport.

### NimClient

Only `close` awaits while it holds `_lock`, so a caller that gets the lock takes the
session and starts its POST in one step (`Post`). Sessions are numbered; a caller
makes at most one. `Decode` is the parsing of a reply: for each kind of request and
answer, what the caller is given. `Break` is a broken connection, the 120 s timeout,
or a request on a session that was closed under it; `CancelCall` and `CancelClose`
cancel a coroutine at its await. A reply with status 200 and an empty or unreadable body
gives an empty message as well ("empty"); `AnswersAreDelivered` is only about replies in
which the server said something ("blank").

`triton` says whether the client was made with `enable_triton`. The first chat that
finds no stub makes the channel and awaits `ServerReady` (`Infer`, `Connected`); the
others, and every later one, go straight to `ModelInfer`. `InferRaises` is what fails
before that, without a channel where there was none: tritonclient is missing, or the
request cannot be built. `TritonFails` is a server
that is absent or refuses, or a channel that is closed. `close` closes the pool first
and then the channel, which it keeps.

### ZmqEngine

`requests`, `replies` and `iopub` are the queues of the sockets: numbers of requests in
the first two, in the third pairs of a request and the position of a message in its
output. `printed` counts what the kernel has printed for each request. `PollOk`,
`PollError` and `PollOutput` are the ways through one turn of the polling loop;
`Deadline` is its `while` condition turning false, at any moment. The kernel (external)
serves requests one at a time and publishes a request's output before its reply. What
is published before the subscription is up is lost.
`OutputOnceInOrder` reads what all calls have captured, and what the socket still holds,
as one stream: two numbers order its places (call, place in its output) and two its
messages (request, number), and the second order must follow the first.

### ProxyTunnel

The program counter, `readable` (`todo`) and `data` (`hand`) of the thread; per end,
the state of its connection, what the proxy has still to receive (`inbox`), what it
has sent and the end has not read (`outbox`), and what the end has read (`got`). The
ends write, read, shut down and abort whenever they like. A chunk is what one `recv`
returns. Every other request than CONNECT is sent on once and its reply relayed.

`Delivered(e)` is what end `e` has read or can read, `InHand(s)` the chunk of `s` the
thread is about to send, `Due(s)` all that should reach the other end: the chunks `s`
has written, after the proxy's 200 where there is one, without the CONNECT request.
`NothingLost` is the equation between them while the connection lasts;
`BeginningsArrive` says what is left of it once the connection was given up.

### GitPush

`pc` is where the running `push_one` is, `calls` and `verdict` what it and the former
calls were given and came to. `remote` is the history of the hosted repository;
`repo`, `locked`, `local` and `index` are the clone as git sees it. A commit is who
made it and its tree: for each name the version that is recorded. `git add`,
`git commit` and `git push` are modelled by what they do to these (a commit takes the
whole index, a push needs a history that continues the remote's, a held
`index.lock` refuses both add and commit); `Refuse` is their failing, which the code
does not look at. In a clone without a branch, `git commit` makes a root commit
(`CommitRoot`), whose push the hosted repository rejects. `LeftBehind(x, v)` says that a
call which failed, or which git refused, was to push version `v` of `x`, or, for the
absence of `x`, that a `git clone` was killed (the verdict "cut"). `KillClone` and
`Abandon` are the `timeout` of `subprocess.run`, an exception, or the end of the
process. `push_all` is a sequence of calls.

### Launcher

`pc[s]` is the step of `main` session `s` is in, `relay[s]` the states of its `socat`
processes, `reported[s]` those `start_all` found active. Two relays that listen share
nothing but their port: `Bind` succeeds only on one that nobody serves. `Served` is
`is_active`, which connects to the port, whoever listens there: a relay of any session,
or another program (`stranger`, on the ports in `Contested`). `Die` is an exception
nobody catches: in `init`, which is outside the `try`, in `save_metrics` and in
`close`, the closing of the sockets included (`CloseZmqRaises`); with the process, what
it had in memory is gone (`Exit`). `SaveMetrics` stands for the end of the work, however
it ends, and for the first step of the `finally`.

`Interrupt` is Ctrl-C in the terminal of a session in `Foreground`. It reaches the whole
process group, and `Popen` leaves `socat` in the launcher's, so that all its relays end
at once; the launcher itself only notes the signal (`asyncio.run` cancels the main task),
and its next await raises. What follows in the launcher is the raising of the work or of
`close`, which the model allows at any time. `Kill` ends the launcher alone.

`zmq[s]` is "unsent" while the context holds a request for a kernel that is gone;
`CloseZmq` waits for that to change, as `ctx.term` does.

### AgentTools

`dir` and `cloning` are on disk and in git processes and survive a `Restart`; `installed`,
`tools`, `leaked`, `cache` and `prompt` do not. `install` blocks its process, so
between `Install` and the end of git or its timeout nothing else of the manager runs.
`leaked` is what the system prompt keeps when `render` raises between the two
assignments of `render_with_tools`. A prompt is the set of tools it tells of.

## 3. The runs

States are distinct states of complete searches. Runs marked "violated" document
disagreements between the code and what the repository says of it.

| run | instance | shows |
|---|---|---|
| `dag` | 3 agents, every plan they can form, registered in any order and again; 90,560 states | the sort orders every plan or raises for a cause, always ends, implements `DependencySchedule`; only an agent with forgotten dependencies overtakes others or makes it refuse a plan without a cycle |
| `run` | 2 runs, 3 agents, 5 plans, 2 permits, HTTP and Triton; 122,248 states | permits, wake-ups, prompts, causes of errors, completeness, orphans; results are final, every run ends if its requests do and every cancelled run in any case, `DependencySchedule` is implemented by the recorded results |
| `run_cancelled_child` | 1 run, 2 permits | **violated** `CompletedMeansAnswered`: a cancelled request is stored as a completed result |
| `nim` | 2 callers, 2 closers, with and without Triton; 51,426 states | no lost connection, no post on a closed session, `close` closes all, all calls end but those that wait for Triton |
| `nim_answers` | 1 caller, 1 closer | **violated** `AnswersAreDelivered`: `stream=true` by default, parsed as one JSON document |
| `zmq` | 3 calls, 2 outputs each; 100,597 states | out of step only after a deadline; failing code takes its whole timeout; output captured once and in order |
| `zmq_stale_reply` | same | **violated** `ReplyIsOwn`: replies are not matched with requests |
| `proxy` | 3 chunks per end, buffers of 2; 16,652 states | nothing lost or reordered, the proxy's own answers frame the stream, orderly ends complete, aborted tunnels end, data arrives |
| `proxy_half_close` | 2 chunks per end, buffers of 1 | **violated** `RelayIsBidirectional`: after the client's shutdown the server is never read again |
| `git` | 2 files, 3 calls, 1 foreign commit; 206,870 states | a success is published, other files change only for what earlier calls left, an overtaken clone never publishes again |
| `launcher` | 2 sessions, one in the foreground, 2 relays, another program on one port; 560,096 states | which failures leave relays behind, what ends an active relay before its session, sessions end |
| `agent_tools` | 2 servers, 2 message lists; 25,396 states | no prompt tells of a tool that was withdrawn; a killed clone stays broken and offered |

The findings in `PROJECT.json` quote the lines on both sides. Several properties of
passing runs say how far a promise holds, with the exceptions the code makes written
out: `DependencyOrder` exempts an agent that was registered again with fewer
dependencies, `SortOutcomeIsJustified` such an agent whose counter fell below zero (an
agent that waits for two others and is registered again as waiting for one of them is
refused with "Cycle detected"), `RunsEnd` the runs a silent Triton keeps,
`OutcomeIsJustified` names the `CancelledError` dependency as the one reason for which a
sortable plan raises, `CallsEnd` the call that waits for Triton, `ChunksArrive` the
server after a client's shutdown, `SuccessIsPublished` the file git refused,
`LeftRelaysHaveCause` the failures after which relays stay, `ActiveRelaysStay` the relay
that Ctrl-C has ended and the port somebody else was serving, `SessionsEnd` the
`ctx.term` of a request to a kernel that is gone.

### Bounds, and why they are enough

- SwarmDAG: three agents contain the shapes the sort distinguishes: chains of three
  layers, joins, self-loops, cycles beside ordered parts, unregistered ids, and every
  way to forget an edge. The safety properties are also proved for any number.
- SwarmRun: a run needs two agents in a layer (siblings) and two layers (upstream
  results); a second run competes for the permits. With two permits and up to four
  tasks at a time, every case of the waiter queue occurs: woken while others queue,
  cancelled while woken, released while nobody waits. The plans are a join, a
  ladder, a cycle, an unregistered dependency and the empty plan.
- NimClient: two of each are enough for a `close` against a `get_session`, a second
  `close` queued behind it, a session made after a close, and a call that finds the
  stub of another one's unfinished `connect`.
- ZmqEngine: three calls let a late reply skip a call; two outputs let one be read and
  one left. `MaxExecutes` and `MaxOutputs` bound counters the code does not bound.
- ProxyTunnel: three chunks per end against buffers of two fill every buffer, so
  `sendall` blocks; `MaxChunks` and `Capacity` are the only
  bounds, and the safety properties are proved for any.
- GitPush: three calls let one leave a commit, one publish it and one repeat the first
  file; two files are a call's own and another one. `MaxCalls` and `MaxForeign` bound
  histories; every property is also proved for any bounds.
- Launcher: a second session is needed for a relay that is left over or shared, two
  relays for the one before and the one after a failure. One session in the
  foreground and one contested port leave another session and another port beside them;
  a stranger comes and goes once per port. The safety properties are proved for any
  number of sessions and relays, and any of them in the foreground or contested.
- AgentTools: a second server shows that one's directory does not touch the other's,
  a second message list that a cached rendering outlives a newer one. There is no bound.

Deadlock checking is off where the system may stop: all runs over, all calls done, the
connection closed, all sessions over. It is on for SwarmDAG and AgentTools.

### Fairness

- SwarmDAG: weak fairness of the sort's next turn; it is a plain loop.
- SwarmRun, NimClient: weak fairness of every task's, run's, caller's and closer's next
  step. The asyncio loop runs whatever is ready, and the session's
  `ClientTimeout(total=120)` (`nvidia_swarm_transport.py:37`) ends every request over
  HTTP, so a task in flight there does finish. No fairness is assumed of cancellation,
  of new calls or of a Triton server, whose `ServerReady` and `ModelInfer` (lines 79 and
  93) have no deadline. In NimClient only a closed channel ends a call over it that is
  not answered. In SwarmRun `RunsEnd` takes the answers as a hypothesis
  (`TritonAnswers`) and claims without it that a cancelled run ends.
- ProxyTunnel: weak fairness of the thread (the operating system schedules it,
  `connect` and `select` have time limits), and of each end reading what it was sent
  or aborting. The last is an assumption about the ends: `sendall` blocks for as long
  as its end does not read.
- Launcher: weak fairness of a session's next step (its process runs, its work is made
  of requests with timeouts, because the launcher makes its client without
  `enable_triton`, `launcher.py:57`) and of a started `socat`, which binds its port or
  exits. Nothing is assumed of the kernel: it may stay away for ever.
- ZmqEngine, GitPush and AgentTools are checked for safety only: the kernel, git or the
  process may stop at any moment.

## 4. What is proved

All proofs are checked by TLAPS without further assumptions than the named `ASSUME`s:
the sets of agents, runs, callers and sessions are finite, the submitted plans map
agents to sets of agents, `max_concurrent` is positive (the `ThreadPoolExecutor` built
beside the semaphore refuses anything else), the marker `NoOne` is no closer, there is
a relay to start, the bounds of GitPush are numbers and its files are not the one
somebody else commits.

Every safety invariant and every action property of the passing runs is a theorem, and
so are both refinements; only liveness is not (see the end of this section).

`SwarmDAGProofs`, for any agents and any order of registrations. Dependency order alone
is not inductive, because the code tests a counter, not the dependencies.
`SortInvariant` says what makes the counter right: no dependency lacks its edge, the
counter of an agent without forgotten edges is the number of its dependencies not
emitted yet, no counter is above that number, emitted and remaining agents partition the
plan, an agent that just became ready depends on the last layer, and mutually blocked
agents are still remaining. From it follow `DependencyOrderHolds`,
`LayersAreTightHolds`, `SortOutcomeIsJustifiedHolds` and the refinement
`ImplementsSchedule`. `RefusedExactlyWhenBlockedHolds` is the case in which no
dependency was forgotten: there the sort raises if and only if some agents wait for one
another or for an id nobody registered. `EmittedIsClosed` draws on it: what the abstract
schedule guarantees (`SettledIsClosed`) is proved of its specification once and holds of
the layers because they implement it.

`SwarmRunProofs`, for any number of runs, agents, permits and any plans, in three
layers, each resting on the one before:

1. Data. `RunInvariant` ties tasks, results and runs together (an idle run is clean, only
   planned agents have tasks, a result records its task's outcome, a started plan is
   sortable). It yields `DependenciesFirstHolds`, `PromptAgreesHolds`,
   `OutcomeIsJustifiedHolds`, `NoOrphansHolds`, `ResultsAreFinalHolds` and the
   refinement `RunImplementsSchedule`, with `RecordedIsClosed` as its consequence.
2. Permits. A step moves tasks in and out of the set of holders by as many as the value
   changes: `PermitAccountingHolds`, `InvocationsCountAnswersHolds`, `RunTypeCorrect`.
3. Queue. The semaphore's queue holds exactly the tasks that wait, were woken or are
   leaving, each once; woken tasks that wake others before they resume make
   `NoLostWakeupHolds`.

`NimClientProofs`, for any callers and closers: `LockInvariant` (whoever awaits the end
of a session holds the lock, no session is open meanwhile, a channel is made once) is
inductive with the types, and gives `NoLostConnectionHolds`, `PostsOnOpenSessionHolds`
and `CloseClosesAllHolds`.

`GitPushProofs`, for any files and bounds: `GitInvariant` follows the running call's file
from its version through index and commit, unless git refused it, and says that no
history holds a commit of a call that has not come to it. From it `SuccessIsPublishedHolds`,
and `OvertakenForEverHolds`: a history that has left the remote's never becomes its
continuation, because commits carry their call and neither side repeats one.
`OthersChangeForCauseHolds` needs `CloneInvariant` as well, because what a push changes
beside its own file may have come into the clone several calls before: wherever the
index differs from the clone's main, and that from the hosted one, a call has left the
difference behind, and the clone's own commits on top of the hosted ones are nobody
else's. Each action has a lemma that says which differences it adds.

`LauncherProofs`, for any sessions and ports, whichever of them are in the foreground or
contested: `LeftRelaysHaveCauseHolds` by itself; `ActiveRelaysStayHolds` needs
`NotStartedYet`, because starting a relay must not overwrite one that is listening. It
goes by who may end a listener: a teardown and Ctrl-C end a session's own, and another
program leaves by itself.

`AgentToolsProofs`, for any servers and messages: `PromptedToolsExist` is inductive only
with `ToolsInvariant`, which ties each server's directory to the git process that fills
it and to what the manager remembers; `KilledClonesStayHolds` follows from it.

`ZmqEngineProofs`, for any number of calls and messages. That replies belong to calls is
not inductive, because the code never compares them. `ShellInvariant` counts instead: the
replies, the kernel and the requests hold, in this order, every number from the first
reply not taken to the last request sent (`ShellInOrder`), and as long as every call got
a reply the calls are not behind the kernel (`CallsKeepUp`). From it
`StaleReplyHasCauseHolds` and `OnTimeLeavesShellCleanHolds`. `OutputOnceInOrder` becomes
inductive with one more fact (`OutputInvariant`): all output is that of requests the
kernel has begun, so what it prints next is later than all that was captured.

`ProxyTunnelProofs`, for streams of any length and buffers of any size. `NothingLost` is
an equation between concatenations; the action lemmas move one chunk from one of its
parts to the next (`HeadMoves`, `AppendMoves`), so both sides change together or not at
all. It only follows with `ThreadInvariant`, which says what the thread has in its hand
at each place, that a tunnel's exception handler is only entered when there is no server
or an end has aborted, and that before there is a server nothing was sent to anyone.
Where the connection is given up, the equation leaves a prefix (`PrefixesOfConcat`),
which later reads and writes of the two ends preserve (`PrefixGrows`):
`StreamsAreWholeHolds`. `CleanEndsAreCompleteHolds` adds that the thread closes without
an abort only with nothing in its hand and nothing left to receive.

Only model-checked, and out of the prover's reach: liveness under fairness
(`SortTerminates`, `RunsEnd`, `CallsEnd`, `AbortedTunnelsEnd`, `ChunksArrive`,
`SessionsEnd`). The four violated properties are refuted by TLC's counterexamples.

## 5. What is not modelled, and why

- Latencies, token counts, metrics' aggregates, prompts' wording, payload contents,
  logging.
- `batch_size`, `enable_batching`, `SwarmDAG._lock` and the thread pool: never used.
- In ZmqEngine, finding the connection file, signing and the text of messages. In
  ProxyTunnel, how a request line is parsed and rewritten, and that an operating system
  may drop data already in its buffers when it sends a reset on close. In GitPush,
  several repositories and a branch other than main. In Launcher, relays that somebody
  kills one by one or that fail while they listen, a tunnel that is
  started twice (nothing in the repository does that), what the work computes (the
  other modules), and `generate_readme`, which is one more task.
- `lens/profile.py`: data and stateless functions nothing in the repository calls
  (`lens/__init__.py` cannot be imported, it asks `loader.py` for a name it lacks).
- Stateless code: `UnshareRoot`, `EnvdMimicry`, the 11ty lenses, `MockTransport`.
- Linear scripts and configuration: the OSINT runners, `loader.py`, the workflows.
- `bin/pylibs`, by far the largest part of the repository, is vendored third-party code.
- At this commit `lens/profiles.py` holds only a comment, so `launcher.py:20` cannot
  import what it names; the launcher is read as if those two names were supplied.

## 6. Plan

1. The safety cores of liveness, as theorems for every instance: the variant each turn of
   `topological_sort` decreases (`SortTerminates`), the steps a session never repeats
   (`SessionsEnd`), that a poll never adds to what is to be polled.
2. Refinements: the semaphore of SwarmRun as an abstract counter with holders, the two
   directions of ProxyTunnel as two queues that may only be cut off.
3. `LensDiscovery`: one specification for the two loaders, which isolate a failing module
   at different points.
4. `ToolDecoder`: which outputs the decoder takes for tool calls, as a function over
   token sequences against the grammar the same class prints.
