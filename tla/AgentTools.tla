----------------------------- MODULE AgentTools -----------------------------
(***************************************************************************)
(* swarm/nvidia_swarm_mcp.py, MCPManager, with the prompts of              *)
(* swarm/nvidia_swarm_agent.py: which tools an agent tells its model of.   *)
(*                                                                         *)
(* install clones a server into a directory of its own; get_config takes   *)
(* the directory for the installation. The directories outlive the         *)
(* process, what the manager remembers does not. An agent is given the     *)
(* schemas of the servers that are installed, and its prompt engine puts   *)
(* them into the system prompt while it renders. A rendering is cached     *)
(* under its messages alone.                                               *)
(*                                                                         *)
(* git is external: it refuses a directory that is not empty, and empties  *)
(* it again when it fails. So is who gives the agent its tools (README.md, *)
(* "MCPManager tools").                                                    *)
(***************************************************************************)
CONSTANTS Servers,   \* names of the MCP registry
          Messages   \* message lists an agent is asked to render

VARIABLES pc,         \* the manager: "idle", "made" a directory, "waiting" for git
          target,     \* the server install is about
          dir,        \* what each server's directory holds
          cloning,    \* servers git is cloning, also without its parent
          installed,  \* _installed of each server
          tools,      \* the servers whose schemas the agent was given
          leaked,     \* the servers left in the engine's system prompt
          cache,      \* the tools in the rendering cached for each message list
          prompt      \* the tools in the last rendering

disk == <<dir, cloning>>
manager == <<pc, target, installed>>
agent == <<tools, leaked, cache, prompt>>
vars == <<disk, manager, agent>>

\* An empty dict.
NothingCached == [m \in {} |-> {}]

Fresh == /\ pc' = "idle"
         /\ installed' = [s \in Servers |-> FALSE]
         /\ tools' = {} /\ leaked' = {} /\ prompt' = {}
         /\ cache' = NothingCached

Init == /\ pc = "idle" /\ target \in Servers
        /\ dir = [s \in Servers |-> "absent"] /\ cloning = {}
        /\ installed = [s \in Servers |-> FALSE]
        /\ tools = {} /\ leaked = {} /\ prompt = {}
        /\ cache = NothingCached
-----------------------------------------------------------------------------
(* MCPServer.install, which the process is blocked in until git is done.   *)

\* (mutant) the directory is made afresh.
MadeAfresh(s) == [dir EXCEPT ![s] = "empty"]

\* mkdir(exist_ok=True).
Made(s) == [dir EXCEPT ![s] = IF @ = "absent" THEN "empty" ELSE @]

Install(s) ==
    /\ pc = "idle"
    /\ pc' = "made" /\ target' = s
    /\ dir' = Made(s)
    /\ UNCHANGED <<cloning, installed, agent>>

Return(success) == pc' = "idle" /\ installed' = [installed EXCEPT ![target] = success]

\* git starts to fill an empty directory and refuses any other.
Spawn ==
    /\ pc = "made"
    /\ IF dir[target] = "empty"
       THEN /\ dir' = [dir EXCEPT ![target] = "partial"]
            /\ cloning' = cloning \cup {target}
            /\ pc' = "waiting" /\ UNCHANGED installed
       ELSE Return(FALSE) /\ UNCHANGED disk
    /\ UNCHANGED <<target, agent>>

\* git ends, and cleans up if it failed; install returns if it still waits.
CloneEnds(s) ==
    /\ s \in cloning
    /\ cloning' = cloning \ {s}
    /\ \E success \in BOOLEAN :
          /\ dir' = [dir EXCEPT ![s] = IF success THEN "clone" ELSE "empty"]
          /\ IF pc = "waiting" /\ target = s
             THEN Return(success)
             ELSE UNCHANGED <<pc, installed>>
    /\ UNCHANGED <<target, agent>>

\* After 60 s git is killed where it is, and TimeoutExpired leaves install.
Timeout ==
    /\ pc = "waiting"
    /\ cloning' = cloning \ {target}
    /\ pc' = "idle"
    /\ UNCHANGED <<dir, target, installed, agent>>

\* The process is killed, with or without some of the git processes it started,
\* and started again: its objects are made anew.
Restart ==
    /\ Fresh
    /\ cloning' \in SUBSET cloning
    /\ UNCHANGED <<dir, target>>
-----------------------------------------------------------------------------
(* The agent.                                                              *)

\* (mutant) get_config without its look at the directory.
OfferedAsRemembered == {s \in Servers : installed[s]}

\* to_tool_schemas, by get_config's "installed".
Offered == {s \in Servers : installed[s] \/ dir[s] # "absent"}

\* The agent is given the tools offered now, or none.
Equip ==
    /\ pc = "idle"
    /\ tools' \in {Offered, {}}
    /\ UNCHANGED <<disk, manager, leaked, cache, prompt>>

\* render or, with tools, render_with_tools: cached or from the system prompt.
Rendered(m) == IF m \in DOMAIN cache THEN cache[m] ELSE leaked \cup tools

PrepareMessages(m) ==
    /\ pc = "idle"
    /\ prompt' = Rendered(m)
    /\ cache' = [k \in DOMAIN cache \cup {m} |-> Rendered(k)]
    /\ UNCHANGED <<disk, manager, tools, leaked>>

\* Messages that json.dumps does not take: render raises, and the system prompt
\* it was called with stays.
RenderRaises ==
    /\ pc = "idle"
    /\ leaked' = leaked \cup tools
    /\ UNCHANGED <<disk, manager, tools, cache, prompt>>
-----------------------------------------------------------------------------
Next == \/ \E s \in Servers : Install(s) \/ CloneEnds(s)
        \/ Spawn \/ Timeout \/ Restart
        \/ Equip \/ RenderRaises \/ \E m \in Messages : PrepareMessages(m)

Spec == Init /\ [][Next]_vars
-----------------------------------------------------------------------------
TypeOK ==
    /\ pc \in {"idle", "made", "waiting"}
    /\ target \in Servers
    /\ dir \in [Servers -> {"absent", "empty", "partial", "clone"}]
    /\ cloning \subseteq Servers
    /\ installed \in [Servers -> BOOLEAN]
    /\ tools \subseteq Servers /\ leaked \subseteq Servers /\ prompt \subseteq Servers
    /\ cache \in UNION {[known -> SUBSET Servers] : known \in SUBSET Messages}

\* What the agent may tell its model of, now or out of its cache.
Told == prompt \cup tools \cup leaked \cup UNION {cache[m] : m \in DOMAIN cache}

\* The cache may be out of date, and tools given long ago may show up again; but
\* no prompt tells of a tool the manager has meanwhile withdrawn, though a server
\* that is installed again is reported as a failure, and every restart forgets
\* what was installed.
PromptedToolsExist == Told \subseteq Offered

\* Once a clone was killed its server never works: every later install fails, and
\* the server is offered all the same.
KilledClonesStay ==
    [][\A s \in Servers : dir[s] = "partial" /\ s \notin cloning =>
           dir'[s] = "partial" /\ s \in Offered' /\ ~ installed'[s]]_vars
-----------------------------------------------------------------------------
\* Where a server is, its directory and what is known of it agree.
ToolsInvariant ==
    /\ PromptedToolsExist
    /\ \A s \in Servers : installed[s] => dir[s] = "clone"
    /\ \A s \in cloning : dir[s] = "partial"
    /\ pc \in {"made", "waiting"} => dir[target] # "absent"
    /\ pc = "waiting" => target \in cloning
=============================================================================
