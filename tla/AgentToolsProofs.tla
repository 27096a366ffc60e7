-------------------------- MODULE AgentToolsProofs --------------------------
(***************************************************************************)
(* Theorems about AgentTools, for any servers and messages, however many   *)
(* installs fail or are killed and however often the process restarts.     *)
(***************************************************************************)
EXTENDS AgentTools, TLAPS

\* The state keeps its shape: git only works in the directories of the registry,
\* the agent is only given tools of the registry.
THEOREM ToolsTypeCorrect == Spec => []TypeOK
<1>1. Init => TypeOK
  BY DEF Init, TypeOK, NothingCached
<1>2. TypeOK /\ [Next]_vars => TypeOK'
  <2> SUFFICES ASSUME TypeOK, [Next]_vars PROVE TypeOK'
    OBVIOUS
  <2> USE DEF TypeOK
  <2>1. ASSUME NEW s \in Servers, Install(s) PROVE TypeOK'
    BY <2>1 DEF Install, Made, agent
  <2>2. ASSUME NEW s \in Servers, CloneEnds(s) PROVE TypeOK'
    BY <2>2 DEF CloneEnds, Return, agent
  <2>3. CASE Spawn
    BY <2>3 DEF Spawn, Return, disk, agent
  <2>4. CASE Timeout
    BY <2>4 DEF Timeout, agent
  <2>5. CASE Restart
    <3>1. cache' \in [{} -> SUBSET Servers]
      BY <2>5 DEF Restart, Fresh, NothingCached
    <3> QED BY <2>5, <3>1 DEF Restart, Fresh
  <2>6. CASE Equip
    BY <2>6 DEF Equip, Offered, disk, manager
  <2>7. CASE RenderRaises
    BY <2>7 DEF RenderRaises, disk, manager
  <2>8. ASSUME NEW m \in Messages, PrepareMessages(m) PROVE TypeOK'
    <3>1. PICK known \in SUBSET Messages : cache \in [known -> SUBSET Servers]
      OBVIOUS
    <3>2. /\ Rendered(m) \subseteq Servers
          /\ \A k \in known : Rendered(k) \subseteq Servers
      BY <3>1 DEF Rendered
    <3>3. cache' \in [known \cup {m} -> SUBSET Servers]
      BY <2>8, <3>1, <3>2 DEF PrepareMessages
    <3> QED BY <2>8, <3>2, <3>3 DEF PrepareMessages, disk, manager
  <2>9. CASE UNCHANGED vars
    BY <2>9 DEF vars, disk, manager, agent
  <2> QED BY <2>1, <2>2, <2>3, <2>4, <2>5, <2>6, <2>7, <2>8, <2>9 DEF Next
<1> QED BY <1>1, <1>2, PTL DEF Spec

\* What is offered stays offered: directories are made, never removed.
LEMMA OfferedGrows ==
    ASSUME TypeOK, ToolsInvariant, [Next]_vars
    PROVE  Offered \subseteq Offered'
<1> USE DEF TypeOK, Offered
<1>0. \A s \in Servers : installed[s] => dir[s] # "absent"
  BY DEF ToolsInvariant
<1> SUFFICES \A s \in Servers : dir[s] # "absent" => dir'[s] # "absent"
  BY <1>0
<1>1. ASSUME NEW s \in Servers, Install(s) PROVE \A t \in Servers : dir[t] # "absent" => dir'[t] # "absent"
  BY <1>1 DEF Install, Made
<1>2. ASSUME NEW s \in Servers, CloneEnds(s) PROVE \A t \in Servers : dir[t] # "absent" => dir'[t] # "absent"
  BY <1>2 DEF CloneEnds
<1>3. CASE Spawn
  BY <1>3 DEF Spawn, disk
<1>4. CASE UNCHANGED dir
  BY <1>4
<1> QED
  BY <1>1, <1>2, <1>3, <1>4
     DEF Next, Timeout, Restart, Equip, RenderRaises, PrepareMessages, disk, vars

\* The directories, git and the manager's memory agree, and all the agent tells
\* of is offered.
THEOREM ToolsInvariantHolds == Spec => []ToolsInvariant
<1>1. Init => ToolsInvariant
  BY DEF Init, ToolsInvariant, PromptedToolsExist, Told, Offered, NothingCached
<1>2. TypeOK /\ ToolsInvariant /\ [Next]_vars => ToolsInvariant'
  <2> SUFFICES ASSUME TypeOK, ToolsInvariant, [Next]_vars PROVE ToolsInvariant'
    OBVIOUS
  <2>1. Offered \subseteq Offered'
    BY OfferedGrows
  <2>2. PromptedToolsExist'
    <3>1. Told \subseteq Offered
      BY DEF ToolsInvariant, PromptedToolsExist
    <3> SUFFICES Told' \subseteq Told \cup Offered'
      BY <2>1, <3>1 DEF PromptedToolsExist
    <3>2. CASE UNCHANGED agent
      BY <3>2 DEF agent, Told
    <3>3. CASE Restart
      BY <3>3 DEF Restart, Fresh, NothingCached, Told
    <3>4. CASE Equip
      <4>1. Offered' = Offered
        BY <3>4 DEF Equip, Offered, disk, manager
      <4> QED BY <3>4, <4>1 DEF Equip, Told
    <3>5. CASE RenderRaises
      BY <3>5 DEF RenderRaises, Told
    <3>6. ASSUME NEW m \in Messages, PrepareMessages(m) PROVE Told' \subseteq Told
      <4>1. Rendered(m) \subseteq Told /\ \A k \in DOMAIN cache : Rendered(k) \subseteq Told
        BY DEF Rendered, Told
      <4>2. \A k \in DOMAIN cache' : cache'[k] \subseteq Told
        BY <3>6, <4>1 DEF PrepareMessages
      <4>3. prompt' \subseteq Told /\ tools' \subseteq Told /\ leaked' \subseteq Told
        BY <3>6, <4>1 DEF PrepareMessages, Told
      <4> QED BY <4>2, <4>3 DEF Told
    <3> QED
      BY <3>2, <3>3, <3>4, <3>5, <3>6
         DEF Next, Install, CloneEnds, Spawn, Timeout, vars, agent
  <2>3. (ToolsInvariant!2 /\ ToolsInvariant!3 /\ ToolsInvariant!4 /\ ToolsInvariant!5)'
    <3> USE DEF TypeOK, ToolsInvariant
    <3>1. ASSUME NEW s \in Servers, Install(s)
          PROVE  (ToolsInvariant!2 /\ ToolsInvariant!3 /\ ToolsInvariant!4 /\ ToolsInvariant!5)'
      BY <3>1 DEF Install, Made
    <3>2. ASSUME NEW s \in Servers, CloneEnds(s)
          PROVE  (ToolsInvariant!2 /\ ToolsInvariant!3 /\ ToolsInvariant!4 /\ ToolsInvariant!5)'
      BY <3>2 DEF CloneEnds, Return
    <3>3. CASE Spawn
      BY <3>3 DEF Spawn, Return, disk
    <3>4. CASE Timeout
      BY <3>4 DEF Timeout
    <3>5. CASE Restart
      BY <3>5 DEF Restart, Fresh
    <3>6. CASE UNCHANGED <<disk, manager>>
      BY <3>6 DEF disk, manager
    <3> QED
      BY <3>1, <3>2, <3>3, <3>4, <3>5, <3>6
         DEF Next, Equip, RenderRaises, PrepareMessages, vars, disk, manager
  <2> QED BY <2>2, <2>3 DEF ToolsInvariant
<1> QED BY <1>1, <1>2, ToolsTypeCorrect, PTL DEF Spec

\* No prompt, cached or new, tells of a tool that was withdrawn.
THEOREM PromptedToolsExistHolds == Spec => []PromptedToolsExist
<1>1. ToolsInvariant => PromptedToolsExist
  BY DEF ToolsInvariant
<1> QED BY <1>1, ToolsInvariantHolds, PTL

\* A clone that was killed is never completed, and its server offered for ever.
THEOREM KilledClonesStayHolds == Spec => KilledClonesStay
<1> DEFINE Stay == \A s \in Servers : dir[s] = "partial" /\ s \notin cloning =>
                       dir'[s] = "partial" /\ s \in Offered' /\ ~ installed'[s]
<1>1. TypeOK /\ ToolsInvariant /\ ToolsInvariant' /\ [Next]_vars => [Stay]_vars
  <2> SUFFICES ASSUME TypeOK, ToolsInvariant, ToolsInvariant', [Next]_vars,
                      NEW s \in Servers, dir[s] = "partial", s \notin cloning
               PROVE  dir'[s] = "partial" /\ s \in Offered' /\ ~ installed'[s]
    OBVIOUS
  <2>1. dir'[s] = "partial"
    BY DEF TypeOK, ToolsInvariant, Next, Install, Made, CloneEnds, Spawn, Timeout,
           Restart, Equip, RenderRaises, PrepareMessages, disk, vars
  <2>2. ~ installed'[s]
    BY <2>1 DEF ToolsInvariant
  <2> QED BY <2>1, <2>2 DEF Offered
<1> QED BY <1>1, ToolsTypeCorrect, ToolsInvariantHolds, PTL DEF Spec, KilledClonesStay
=============================================================================
