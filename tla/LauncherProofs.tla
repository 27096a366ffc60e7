--------------------------- MODULE LauncherProofs ---------------------------
(***************************************************************************)
(* Theorems about Launcher, for any number of sessions and relays.         *)
(***************************************************************************)
EXTENDS Launcher, TLAPS

\* One relay of one session changes its state.
LEMMA RelaySet ==
    ASSUME TypeOK, NEW s \in Sessions, NEW i \in Relays, NEW v \in RelayStates,
           relay' = [relay EXCEPT ![s][i] = v]
    PROVE  /\ relay' \in [Sessions -> [Relays -> RelayStates]]
           /\ \A t \in Sessions, j \in Relays :
                  relay'[t][j] = IF t = s /\ j = i THEN v ELSE relay[t][j]
<1> DEFINE R == [relay[s] EXCEPT ![i] = v]
<1>1. relay \in [Sessions -> [Relays -> RelayStates]]
  BY DEF TypeOK
<1>2. relay[s] \in [Relays -> RelayStates]
  BY <1>1
<1>3. /\ R \in [Relays -> RelayStates]
      /\ \A j \in Relays : R[j] = IF j = i THEN v ELSE relay[s][j]
  BY <1>2
<1>4. relay' = [relay EXCEPT ![s] = R]
  OBVIOUS
<1> HIDE DEF R
<1>5. relay' \in [Sessions -> [Relays -> RelayStates]]
  BY <1>1, <1>3, <1>4
<1>6. relay'[s] = R /\ \A t \in Sessions \ {s} : relay'[t] = relay[t]
  BY <1>1, <1>4
<1> QED BY <1>3, <1>5, <1>6

\* All running relays of a session end in the same way.
LEMMA RelaysEnd ==
    ASSUME TypeOK, NEW s \in Sessions, NEW v \in RelayStates,
           relay' = [relay EXCEPT ![s] = [i \in Relays |->
                       IF relay[s][i] \in Running THEN v ELSE relay[s][i]]]
    PROVE  /\ relay' \in [Sessions -> [Relays -> RelayStates]]
           /\ \A t \in Sessions, i \in Relays :
                  relay'[t][i] = IF t = s /\ relay[t][i] \in Running THEN v ELSE relay[t][i]
<1> DEFINE R == [i \in Relays |-> IF relay[s][i] \in Running THEN v ELSE relay[s][i]]
<1>1. relay \in [Sessions -> [Relays -> RelayStates]]
  BY DEF TypeOK
<1>2. R \in [Relays -> RelayStates]
  BY <1>1
<1>3. relay' = [relay EXCEPT ![s] = R]
  OBVIOUS
<1>4. \A i \in Relays : R[i] = IF relay[s][i] \in Running THEN v ELSE relay[s][i]
  OBVIOUS
<1> HIDE DEF R
<1>5. relay' \in [Sessions -> [Relays -> RelayStates]]
  BY <1>1, <1>2, <1>3
<1>6. relay'[s] = R /\ \A t \in Sessions \ {s} : relay'[t] = relay[t]
  BY <1>1, <1>3
<1> QED BY <1>4, <1>5, <1>6

\* Teardown stops the session's own relays.
LEMMA TeardownEffect ==
    ASSUME TypeOK, NEW s \in Sessions, Teardown(s)
    PROVE  /\ relay' \in [Sessions -> [Relays -> RelayStates]]
           /\ \A t \in Sessions, i \in Relays :
                  relay'[t][i] = IF t = s /\ relay[t][i] \in Running
                                 THEN "stopped" ELSE relay[t][i]
<1>1. relay' = [relay EXCEPT ![s] = [i \in Relays |->
                  IF relay[s][i] \in Running THEN "stopped" ELSE relay[s][i]]]
  BY DEF TypeOK, Teardown, Stopped
<1>2. "stopped" \in RelayStates
  BY DEF RelayStates
<1> QED BY <1>1, <1>2, RelaysEnd

\* Ctrl-C ends the relays of the session it reaches.
LEMMA InterruptEffect ==
    ASSUME TypeOK, NEW s \in Sessions, Interrupt(s)
    PROVE  /\ relay' \in [Sessions -> [Relays -> RelayStates]]
           /\ \A t \in Sessions, i \in Relays :
                  relay'[t][i] = IF t = s /\ relay[t][i] \in Running
                                 THEN "interrupted" ELSE relay[t][i]
<1>1. relay' = [relay EXCEPT ![s] = [i \in Relays |->
                  IF relay[s][i] \in Running THEN "interrupted" ELSE relay[s][i]]]
  BY DEF TypeOK, Interrupt
<1>2. "interrupted" \in RelayStates
  BY DEF RelayStates
<1> QED BY <1>1, <1>2, RelaysEnd

\* The steps that leave all relays and the other programs alone, and either go on
\* with the session or end it.
QuietStep(s) == Prepare(s) \/ SaveMetrics(s) \/ CloseTransport(s) \/ CloseZmq(s)
                \/ CloseZmqRaises(s) \/ Kill(s)

\* Every step is one of these.
LEMMA StepCases ==
    ASSUME [Next]_vars
    PROVE  \/ \E s \in Sessions : \/ Launch(s) \/ StartRelay(s) \/ CheckRelay(s)
                                  \/ QuietStep(s) \/ Teardown(s)
                                  \/ ZmqDemo(s) \/ Deliver(s) \/ Interrupt(s)
           \/ \E s \in Sessions, i \in Relays : Bind(s, i)
           \/ \E i \in Relays : StrangerListens(i) \/ StrangerLeaves(i)
           \/ UNCHANGED vars
BY DEF Next, SessionStep, QuietStep

\* What a quiet step does.
LEMMA QuietEffect ==
    ASSUME TypeOK, NEW s \in Sessions, QuietStep(s)
    PROVE  /\ UNCHANGED <<relay, stranger>>
           /\ pc[s] \notin {"off", "over"}
           /\ \/ /\ \E where \in {"work", "close transport", "close zmq", "teardown"} :
                        pc' = [pc EXCEPT ![s] = where]
                 /\ UNCHANGED <<next, reported, failed>>
                 /\ zmq' = zmq \/ zmq' = [zmq EXCEPT ![s] = "none"]
              \/ Die(s)
<1>1. CASE Prepare(s) \/ SaveMetrics(s) \/ CloseTransport(s)
  BY <1>1 DEF Prepare, SaveMetrics, CloseTransport, Proceed, Go
<1>2. CASE CloseZmq(s)
  BY <1>2 DEF CloseZmq, Go
<1>3. CASE CloseZmqRaises(s) \/ Kill(s)
  BY <1>3 DEF CloseZmqRaises, Kill
<1> QED BY <1>1, <1>2, <1>3 DEF QuietStep

\* A process that is over keeps nothing in memory, and the others go on.
LEMMA ExitEffect ==
    ASSUME TypeOK, NEW s \in Sessions, Exit(s)
    PROVE  /\ pc' \in [Sessions -> Steps] /\ next' \in [Sessions -> Relays]
           /\ reported' \in [Sessions -> SUBSET Relays]
           /\ zmq' \in [Sessions -> {"none", "connected", "unsent"}]
           /\ pc'[s] = "over" /\ reported'[s] = {}
           /\ \A t \in Sessions \ {s} :
                  pc'[t] = pc[t] /\ next'[t] = next[t] /\ reported'[t] = reported[t]
<1>1. 1 \in Relays
  BY SomePort DEF Relays
<1> QED BY <1>1 DEF Exit, Go, TypeOK, Steps

\* start_all comes to a relay of its own.
LEMMA StartEffect ==
    ASSUME TypeOK, NEW s \in Sessions, StartRelay(s)
    PROVE  \/ relay' = relay
           \/ relay' = [relay EXCEPT ![s][next[s]] = "starting"] /\ next[s] \in Relays
BY DEF TypeOK, StartRelay

\* The state keeps its shape: start_all never runs past its last relay.
THEOREM LauncherTypeCorrect == Spec => []TypeOK
<1>1. Init => TypeOK
  BY SomePort DEF Init, TypeOK, Steps, Relays, RelayStates
<1>2. TypeOK /\ [Next]_vars => TypeOK'
  <2> SUFFICES ASSUME TypeOK, [Next]_vars PROVE TypeOK'
    OBVIOUS
  <2> USE DEF TypeOK, Steps, Go, Proceed
  <2>0. ASSUME NEW s \in Sessions, Die(s), UNCHANGED stranger,
               relay' \in [Sessions -> [Relays -> RelayStates]]
        PROVE  TypeOK'
    <3>1. failed' \in [Sessions -> BOOLEAN]
      BY <2>0 DEF Die
    <3> QED BY <2>0, <3>1, ExitEffect DEF Die
  <2>1. ASSUME NEW s \in Sessions, Launch(s) PROVE TypeOK'
    BY <2>1 DEF Launch
  <2>2. ASSUME NEW s \in Sessions, StartRelay(s) PROVE TypeOK'
    <3>1. relay' \in [Sessions -> [Relays -> RelayStates]]
      BY <2>2, StartEffect, RelaySet DEF RelayStates
    <3>2. CASE Proceed(s, "check relay")
      BY <2>2, <3>1, <3>2 DEF StartRelay
    <3>3. CASE Die(s)
      BY <2>0, <2>2, <3>1, <3>3 DEF StartRelay
    <3> QED BY <2>2, <3>2, <3>3 DEF StartRelay
  <2>3. ASSUME NEW s \in Sessions, CheckRelay(s) PROVE TypeOK'
    <3>1. Active(s) \subseteq Relays
      <4>1. next[s] \in Relays /\ reported[s] \subseteq Relays
        OBVIOUS
      <4> QED BY <4>1 DEF Active
    <3>2. CASE MoreRelays(s)
      <4>1. next[s] + 1 \in Relays
        <5>1. next[s] \in Relays
          OBVIOUS
        <5> HIDE DEF TypeOK
        <5> QED BY <3>2, <5>1, SomePort DEF MoreRelays, Relays
      <4>2. /\ pc' = [pc EXCEPT ![s] = "start relay"]
            /\ next' = [next EXCEPT ![s] = next[s] + 1]
            /\ reported' = [reported EXCEPT ![s] = Active(s)]
            /\ UNCHANGED <<relay, zmq, failed, stranger>>
        <5> HIDE DEF TypeOK, Steps
        <5> QED BY <2>3, <3>2 DEF CheckRelay
      <4>3. next' \in [Sessions -> Relays]
        BY <4>1, <4>2
      <4>4. reported' \in [Sessions -> SUBSET Relays]
        BY <3>1, <4>2
      <4> QED BY <4>2, <4>3, <4>4
    <3>3. CASE ~ MoreRelays(s)
      <4>1. /\ pc' = [pc EXCEPT ![s] = "prepare"]
            /\ reported' = [reported EXCEPT ![s] = Active(s)]
            /\ UNCHANGED <<next, relay, zmq, failed, stranger>>
        <5> HIDE DEF TypeOK, Steps
        <5> QED BY <2>3, <3>3 DEF CheckRelay
      <4>2. reported' \in [Sessions -> SUBSET Relays]
        BY <3>1, <4>1
      <4> QED BY <4>1, <4>2
    <3> QED BY <3>2, <3>3
  <2>4. ASSUME NEW s \in Sessions, QuietStep(s) PROVE TypeOK'
    <3>1. CASE Die(s)
      BY <2>0, <2>4, <3>1, QuietEffect
    <3>2. CASE ~ Die(s)
      <4>1. PICK where \in {"work", "close transport", "close zmq", "teardown"} :
                pc' = [pc EXCEPT ![s] = where]
        BY <2>4, <3>2, QuietEffect
      <4>2. pc' \in [Sessions -> Steps]
        BY <4>1
      <4>3. zmq' \in [Sessions -> {"none", "connected", "unsent"}]
        BY <2>4, <3>2, QuietEffect
      <4>4. UNCHANGED <<next, relay, reported, failed, stranger>>
        BY <2>4, <3>2, QuietEffect
      <4> QED BY <4>2, <4>3, <4>4
    <3> QED BY <3>1, <3>2
  <2>5. ASSUME NEW s \in Sessions, ZmqDemo(s) \/ Deliver(s) PROVE TypeOK'
    BY <2>5 DEF ZmqDemo, Deliver
  <2>6. ASSUME NEW s \in Sessions, Teardown(s) PROVE TypeOK'
    BY <2>6, TeardownEffect, ExitEffect DEF Teardown
  <2>7. ASSUME NEW s \in Sessions, NEW i \in Relays, Bind(s, i) PROVE TypeOK'
    <3>1. relay' \in [Sessions -> [Relays -> RelayStates]]
      BY <2>7, RelaySet DEF Bind, RelayStates
    <3> QED BY <2>7, <3>1 DEF Bind
  <2>8. ASSUME NEW s \in Sessions, Interrupt(s) PROVE TypeOK'
    BY <2>8, InterruptEffect DEF Interrupt
  <2>9. ASSUME NEW i \in Relays, StrangerListens(i) \/ StrangerLeaves(i) PROVE TypeOK'
    <3>1. stranger' \in [Relays -> {"absent", "listening", "gone"}]
      BY <2>9 DEF StrangerListens, StrangerLeaves
    <3> QED BY <2>9, <3>1 DEF StrangerListens, StrangerLeaves
  <2>10. CASE UNCHANGED vars
    BY <2>10 DEF vars
  <2> HIDE DEF TypeOK
  <2> QED
    BY <2>1, <2>2, <2>3, <2>4, <2>5, <2>6, <2>7, <2>8, <2>9, <2>10
       DEF Next, SessionStep, QuietStep
<1> QED BY <1>1, <1>2, PTL DEF Spec

\* A session that ends in order leaves no relay running.
THEOREM LeftRelaysHaveCauseHolds == Spec => []LeftRelaysHaveCause
<1>1. Init => LeftRelaysHaveCause
  BY DEF Init, LeftRelaysHaveCause
<1>2. TypeOK /\ LeftRelaysHaveCause /\ [Next]_vars => LeftRelaysHaveCause'
  <2> SUFFICES ASSUME TypeOK, LeftRelaysHaveCause, [Next]_vars,
                      NEW t \in Sessions, pc'[t] = "over", ~ failed'[t],
                      NEW j \in Relays
               PROVE  relay'[t][j] \notin Running
    BY DEF LeftRelaysHaveCause
  <2> DEFINE Goal == relay'[t][j] \notin Running
  <2>0. pc[t] = "over" /\ ~ failed[t] => relay[t][j] \notin Running
    BY DEF LeftRelaysHaveCause
  <2>1. pc \in [Sessions -> Steps] /\ failed \in [Sessions -> BOOLEAN]
    BY DEF TypeOK
  <2>2. ASSUME NEW s \in Sessions, Die(s), UNCHANGED relay PROVE Goal
    <3>1. t # s
      BY <2>1, <2>2 DEF Die
    <3> QED BY <2>0, <2>1, <2>2, <3>1 DEF Die, Exit, Go
  <2>3. ASSUME NEW s \in Sessions, StartRelay(s) PROVE Goal
    <3>1. CASE Die(s) /\ UNCHANGED relay
      BY <2>2, <3>1
    <3>2. CASE Proceed(s, "check relay") /\ relay' = [relay EXCEPT ![s][next[s]] = "starting"]
      <4>1. t # s /\ pc[t] = "over" /\ ~ failed[t]
        BY <2>1, <3>2 DEF Proceed, Go
      <4>2. relay'[t] = relay[t]
        BY <3>2, <4>1 DEF TypeOK
      <4> QED BY <2>0, <4>1, <4>2
    <3> QED BY <2>3, <3>1, <3>2 DEF StartRelay
  <2>4. ASSUME NEW s \in Sessions, Launch(s) \/ CheckRelay(s) PROVE Goal
    <3>1. t # s /\ pc[t] = "over" /\ ~ failed[t] /\ relay' = relay
      BY <2>1, <2>4 DEF Launch, CheckRelay, Go
    <3> QED BY <2>0, <3>1
  <2>5. ASSUME NEW s \in Sessions, QuietStep(s) PROVE Goal
    <3>1. CASE Die(s)
      BY <2>2, <2>5, <3>1, QuietEffect
    <3>2. CASE ~ Die(s)
      <4>1. PICK where \in {"work", "close transport", "close zmq", "teardown"} :
               pc' = [pc EXCEPT ![s] = where]
        BY <2>5, <3>2, QuietEffect
      <4>2. relay' = relay /\ failed' = failed
        BY <2>5, <3>2, QuietEffect
      <4>3. pc[t] = "over"
        BY <2>1, <4>1
      <4> QED BY <2>0, <4>2, <4>3
    <3> QED BY <3>1, <3>2
  <2>6. ASSUME NEW s \in Sessions, ZmqDemo(s) \/ Deliver(s) PROVE Goal
    BY <2>0, <2>6 DEF ZmqDemo, Deliver
  <2>7. ASSUME NEW s \in Sessions, Teardown(s) PROVE Goal
    <3>1. \A u \in Sessions, i \in Relays :
              relay'[u][i] = IF u = s /\ relay[u][i] \in Running THEN "stopped" ELSE relay[u][i]
      BY <2>7, TeardownEffect
    <3>2. CASE t = s
      BY <3>1, <3>2 DEF Running
    <3>3. CASE t # s
      <4>1. pc[t] = "over" /\ ~ failed[t]
        BY <2>7, <3>3, ExitEffect DEF Teardown
      <4> QED BY <2>0, <3>1, <3>3, <4>1
    <3> QED BY <3>2, <3>3
  <2>8. ASSUME NEW s \in Sessions, Interrupt(s) PROVE Goal
    <3>1. relay'[t][j] = relay[t][j] \/ relay'[t][j] = "interrupted"
      BY <2>8, InterruptEffect
    <3>2. pc' = pc /\ failed' = failed
      BY <2>8 DEF Interrupt
    <3> QED BY <2>0, <3>1, <3>2 DEF Running
  <2>9. ASSUME NEW s \in Sessions, NEW i \in Relays, Bind(s, i) PROVE Goal
    <3>1. relay'[t][j] \in Running => relay[t][j] \in Running
      BY <2>9, RelaySet DEF Bind, Running, RelayStates
    <3> QED BY <2>0, <2>9, <3>1 DEF Bind
  <2>10. ASSUME NEW i \in Relays, StrangerListens(i) \/ StrangerLeaves(i) PROVE Goal
    BY <2>0, <2>10 DEF StrangerListens, StrangerLeaves
  <2>11. CASE UNCHANGED vars
    BY <2>0, <2>11 DEF vars
  <2> QED
    BY <2>3, <2>4, <2>5, <2>6, <2>7, <2>8, <2>9, <2>10, <2>11,
       StepCases
<1> QED BY <1>1, <1>2, LauncherTypeCorrect, PTL DEF Spec

\* start_all starts each relay once.
THEOREM NotStartedYetHolds == Spec => []NotStartedYet
<1>1. Init => NotStartedYet
  BY DEF Init, NotStartedYet
<1>2. TypeOK /\ NotStartedYet /\ [Next]_vars => NotStartedYet'
  <2> SUFFICES ASSUME TypeOK, NotStartedYet, [Next]_vars,
                      NEW t \in Sessions, NEW j \in Relays
               PROVE  /\ pc'[t] = "off" => relay'[t][j] = "none"
                      /\ pc'[t] = "start relay" /\ j >= next'[t] => relay'[t][j] = "none"
                      /\ pc'[t] = "check relay" /\ j > next'[t] => relay'[t][j] = "none"
    BY DEF NotStartedYet
  <2> DEFINE Now == /\ pc[t] = "off" => relay[t][j] = "none"
                    /\ pc[t] = "start relay" /\ j >= next[t] => relay[t][j] = "none"
                    /\ pc[t] = "check relay" /\ j > next[t] => relay[t][j] = "none"
  <2>0. Now
    BY Zenon DEF NotStartedYet
  <2>9. j \in Nat /\ j >= 1
    BY SomePort DEF Relays
  <2>10. pc \in [Sessions -> Steps] /\ next \in [Sessions -> Nat]
    BY SomePort DEF TypeOK, Relays
  <2>1. ASSUME NEW s \in Sessions, Launch(s) PROVE Now'
    BY <2>0, <2>10, <2>1, <2>9 DEF Launch, Go
  <2>2. ASSUME NEW s \in Sessions, StartRelay(s) PROVE Now'
    <3>1. relay'[t][j] = relay[t][j] \/ (t = s /\ j = next[s])
      <4>1. CASE relay' = relay
        BY <4>1
      <4>2. CASE relay' = [relay EXCEPT ![s][next[s]] = "starting"] /\ next[s] \in Relays
        BY <4>2, RelaySet DEF RelayStates
      <4> QED BY <2>2, <4>1, <4>2, StartEffect
    <3>2. /\ t # s => pc'[t] = pc[t]
          /\ t = s => pc'[t] \in {"check relay", "over"}
          /\ pc[s] = "start relay" /\ (pc'[t] # "over" => next'[t] = next[t])
      BY <2>2, <2>10, ExitEffect DEF StartRelay, Proceed, Go, Die
    <3>3. CASE t = s
      <4>1. j > next[t] => j >= next[t] /\ j # next[t]
        BY <2>9, <2>10
      <4> QED BY <2>0, <3>1, <3>2, <3>3, <4>1
    <3>4. CASE t # s
      BY <2>0, <3>1, <3>2, <3>4
    <3> QED BY <3>3, <3>4
  <2>3. ASSUME NEW s \in Sessions, CheckRelay(s) PROVE Now'
    <3>1. CASE MoreRelays(s)
      <4>1. pc'[t] = IF t = s THEN "start relay" ELSE pc[t]
        BY <2>10, <2>3, <3>1 DEF CheckRelay, Go
      <4>2. next'[t] = IF t = s THEN next[t] + 1 ELSE next[t]
        BY <2>10, <2>3, <3>1 DEF CheckRelay
      <4>3. pc[s] = "check relay" /\ relay' = relay /\ next[t] \in Nat
        BY <2>10, <2>3 DEF CheckRelay
      <4>4. CASE t = s
        <5>1. j > next[t] => relay[t][j] = "none"
          BY <2>0, <4>3, <4>4
        <5>2. j >= next'[t] => j > next[t]
          <6>1. next'[t] = next[t] + 1
            BY <4>2, <4>4
          <6>2. \A x, y \in Nat : y >= x + 1 => y > x
            OBVIOUS
          <6>3. next[t] \in Nat /\ j \in Nat
            BY <2>9, <4>3
          <6>4. j >= next[t] + 1 => j > next[t]
            BY <6>2, <6>3
          <6> QED BY <6>1, <6>4, Zenon
        <5> QED BY <4>1, <4>3, <4>4, <5>1, <5>2
      <4>5. CASE t # s
        BY <2>0, <4>1, <4>2, <4>3, <4>5
      <4> QED BY <4>4, <4>5
    <3>2. CASE ~ MoreRelays(s)
      BY <2>0, <2>10, <2>3, <3>2 DEF CheckRelay, Go
    <3> QED BY <3>1, <3>2
  <2>4. ASSUME NEW s \in Sessions, QuietStep(s) PROVE Now'
    <3>1. /\ relay' = relay /\ t # s => pc'[t] = pc[t] /\ next'[t] = next[t]
          /\ t = s => pc'[t] \notin {"off", "start relay", "check relay"}
      <4>1. CASE Die(s)
        BY <2>4, <4>1, QuietEffect, ExitEffect DEF Die
      <4>2. CASE ~ Die(s)
        BY <2>4, <2>10, <4>2, QuietEffect
      <4> QED BY <4>1, <4>2
    <3> QED BY <2>0, <2>4, <3>1, QuietEffect
  <2>5. ASSUME NEW s \in Sessions, ZmqDemo(s) \/ Deliver(s) PROVE Now'
    BY <2>0, <2>5 DEF ZmqDemo, Deliver
  <2>6. ASSUME NEW s \in Sessions, Teardown(s) PROVE Now'
    <3>1. relay'[t][j] = relay[t][j] \/ t = s
      BY <2>6, TeardownEffect
    <3> QED BY <2>0, <2>6, <3>1, ExitEffect DEF Teardown
  <2>7. ASSUME NEW s \in Sessions, NEW i \in Relays, Bind(s, i) PROVE Now'
    <3>1. relay[t][j] = "none" => relay'[t][j] = "none"
      BY <2>7, RelaySet DEF Bind, RelayStates
    <3> QED BY <2>0, <2>7, <3>1 DEF Bind
  <2>8. CASE UNCHANGED vars
    BY <2>0, <2>8 DEF vars
  <2>11. ASSUME NEW s \in Sessions, Interrupt(s) PROVE Now'
    <3>1. relay[t][j] = "none" => relay'[t][j] = "none"
      BY <2>11, InterruptEffect DEF Running
    <3> QED BY <2>0, <2>11, <3>1 DEF Interrupt
  <2>12. ASSUME NEW i \in Relays, StrangerListens(i) \/ StrangerLeaves(i) PROVE Now'
    BY <2>0, <2>12 DEF StrangerListens, StrangerLeaves
  <2> QED
    BY <2>1, <2>2, <2>3, <2>4, <2>5, <2>6, <2>7, <2>8, <2>11, <2>12, StepCases
<1> QED BY <1>1, <1>2, LauncherTypeCorrect, PTL DEF Spec

\* What a step does to the processes: a relay that listens goes on listening unless
\* its session tears it down, and is over with it, or Ctrl-C ends it; what has ended
\* in one of these ways stays so.
LEMMA RelayEffect ==
    ASSUME TypeOK, NotStartedYet, [Next]_vars, NEW t \in Sessions, NEW i \in Relays
    PROVE  /\ relay[t][i] = "listening" =>
                  \/ relay'[t][i] \in {"listening", "interrupted"}
                  \/ (relay'[t][i] = "stopped" /\ pc'[t] = "over")
           /\ relay[t][i] \in {"stopped", "interrupted"} => relay'[t][i] = relay[t][i]
<1>1. ASSUME NEW s \in Sessions, StartRelay(s)
      PROVE  relay'[t][i] = relay[t][i] \/ relay[t][i] = "none"
  <2>1. next[s] \in Relays /\ relay[s][next[s]] = "none"
    <3>1. next[s] \in Relays /\ next[s] >= next[s]
      BY SomePort DEF Relays, TypeOK
    <3> QED BY <1>1, <3>1 DEF StartRelay, NotStartedYet
  <2> QED BY <1>1, <2>1, StartEffect, RelaySet DEF RelayStates
<1>2. ASSUME NEW s \in Sessions, NEW j \in Relays, Bind(s, j)
      PROVE  relay[t][i] # "starting" => relay'[t][i] = relay[t][i]
  BY <1>2, RelaySet DEF Bind, RelayStates
<1>3. ASSUME NEW s \in Sessions, Teardown(s)
      PROVE  \/ relay'[t][i] = relay[t][i]
             \/ relay[t][i] \in Running /\ relay'[t][i] = "stopped" /\ pc'[t] = "over"
  BY <1>3, TeardownEffect, ExitEffect DEF Teardown
<1>4. ASSUME NEW s \in Sessions, Interrupt(s)
      PROVE  \/ relay'[t][i] = relay[t][i]
             \/ relay[t][i] \in Running /\ relay'[t][i] = "interrupted"
  BY <1>4, InterruptEffect
<1>5. CASE UNCHANGED relay
  BY <1>5
<1>6. ASSUME NEW s \in Sessions,
             Launch(s) \/ CheckRelay(s) \/ QuietStep(s) \/ ZmqDemo(s) \/ Deliver(s)
      PROVE  UNCHANGED relay
  BY <1>6, QuietEffect DEF Launch, CheckRelay, ZmqDemo, Deliver
<1>7. ASSUME NEW j \in Relays, StrangerListens(j) \/ StrangerLeaves(j)
      PROVE  UNCHANGED relay
  BY <1>7 DEF StrangerListens, StrangerLeaves
<1> QED
  BY <1>1, <1>2, <1>3, <1>4, <1>5, <1>6, <1>7
     DEF Next, SessionStep, QuietStep, Running, vars

\* Another program on a port stays there or leaves for good.
LEMMA StrangerEffect ==
    ASSUME TypeOK, [Next]_vars, NEW i \in Relays
    PROVE  /\ stranger[i] = "listening" => stranger'[i] \in {"listening", "gone"}
           /\ stranger[i] = "gone" => stranger'[i] = "gone"
<1>1. ASSUME NEW j \in Relays, StrangerListens(j) \/ StrangerLeaves(j)
      PROVE  /\ stranger[i] = "listening" => stranger'[i] \in {"listening", "gone"}
             /\ stranger[i] = "gone" => stranger'[i] = "gone"
  BY <1>1 DEF StrangerListens, StrangerLeaves, TypeOK
<1>2. ASSUME NEW s \in Sessions, QuietStep(s) PROVE UNCHANGED stranger
  BY <1>2, QuietEffect
<1>3. ASSUME NEW s \in Sessions,
             \/ Launch(s) \/ StartRelay(s) \/ CheckRelay(s) \/ Teardown(s)
             \/ ZmqDemo(s) \/ Deliver(s) \/ Interrupt(s)
             \/ \E j \in Relays : Bind(s, j)
      PROVE  UNCHANGED stranger
  BY <1>3 DEF Launch, StartRelay, CheckRelay, Teardown, ZmqDemo, Deliver, Interrupt, Bind
<1>4. CASE UNCHANGED vars
  BY <1>4 DEF vars
<1> QED BY <1>1, <1>2, <1>3, <1>4 DEF Next, SessionStep, QuietStep

\* What start_all may report: only a port somebody serves.
LEMMA ReportedEffect ==
    ASSUME TypeOK, [Next]_vars, NEW s \in Sessions, NEW i \in reported'[s], pc'[s] # "over"
    PROVE  i \in Relays /\ pc[s] # "over" /\ (i \in reported[s] \/ Served(i))
<1>1. /\ pc \in [Sessions -> Steps] /\ next \in [Sessions -> Relays]
      /\ reported \in [Sessions -> SUBSET Relays]
  BY DEF TypeOK
<1> DEFINE Goal == i \in Relays /\ pc[s] # "over" /\ (i \in reported[s] \/ Served(i))
<1>2. ASSUME pc'[s] = pc[s], reported'[s] = reported[s] PROVE Goal
  BY <1>1, <1>2
<1>3. ASSUME NEW u \in Sessions, CheckRelay(u) PROVE Goal
  <2>1. reported'[s] = IF s = u THEN Active(u) ELSE reported[s]
    BY <1>1, <1>3 DEF CheckRelay
  <2>2. pc[s] # "over"
    BY <1>1, <1>3 DEF CheckRelay, Go
  <2> QED BY <1>1, <2>1, <2>2 DEF Active
<1>4. ASSUME NEW u \in Sessions, Exit(u) PROVE Goal
  BY <1>2, <1>4, ExitEffect
<1>5. ASSUME NEW u \in Sessions, NEW where, pc[u] # "over", pc' = [pc EXCEPT ![u] = where],
             UNCHANGED reported
      PROVE  Goal
  BY <1>1, <1>5
<1>6. ASSUME NEW u \in Sessions, Launch(u) \/ StartRelay(u) \/ Teardown(u) PROVE Goal
  <2>1. CASE Launch(u)
    BY <1>5, <2>1 DEF Launch, Go
  <2>2. CASE StartRelay(u)
    BY <1>4, <1>5, <2>2 DEF StartRelay, Proceed, Die, Go
  <2>3. CASE Teardown(u)
    BY <1>4, <2>3 DEF Teardown
  <2> QED BY <1>6, <2>1, <2>2, <2>3
<1>7. ASSUME NEW u \in Sessions, QuietStep(u) PROVE Goal
  <2>1. CASE Die(u)
    BY <1>4, <2>1 DEF Die
  <2>2. CASE ~ Die(u)
    <3>1. PICK where \in {"work", "close transport", "close zmq", "teardown"} :
             pc' = [pc EXCEPT ![u] = where]
      BY <1>7, <2>2, QuietEffect
    <3>2. pc[u] # "over" /\ reported' = reported
      BY <1>7, <2>2, QuietEffect
    <3> QED BY <1>5, <3>1, <3>2
  <2> QED BY <2>1, <2>2
<1>8. ASSUME NEW u \in Sessions, \/ ZmqDemo(u) \/ Deliver(u) \/ Interrupt(u)
                                \/ \E j \in Relays : Bind(u, j)
      PROVE  Goal
  BY <1>2, <1>8 DEF ZmqDemo, Deliver, Interrupt, Bind
<1>9. ASSUME NEW j \in Relays, StrangerListens(j) \/ StrangerLeaves(j) PROVE Goal
  BY <1>2, <1>9 DEF StrangerListens, StrangerLeaves
<1>10. CASE UNCHANGED vars
  BY <1>2, <1>10 DEF vars
<1> QED
  BY <1>3, <1>6, <1>7, <1>8, <1>9, <1>10, StepCases

\* A port that start_all reported active is served until the session is over, unless
\* Ctrl-C ended its relay, or what answered was another session's relay or another
\* program, and that has ended.
THEOREM ActiveRelaysStayHolds == Spec => []ActiveRelaysStay
<1>1. Init => ActiveRelaysStay
  BY DEF Init, ActiveRelaysStay
<1>2. TypeOK /\ NotStartedYet /\ ActiveRelaysStay /\ [Next]_vars => ActiveRelaysStay'
  <2> SUFFICES ASSUME TypeOK, NotStartedYet, ActiveRelaysStay, [Next]_vars,
                      NEW s \in Sessions, NEW i \in reported'[s], pc'[s] # "over"
               PROVE  \/ Served(i)'
                      \/ relay'[s][i] = "interrupted"
                      \/ stranger'[i] = "gone"
                      \/ \E t \in Sessions \ {s} : relay'[t][i] \in {"stopped", "interrupted"}
    BY DEF ActiveRelaysStay
  <2>1. i \in Relays /\ pc[s] # "over" /\ (i \in reported[s] \/ Served(i))
    BY ReportedEffect
  <2>2. CASE \E t \in Sessions \ {s} : relay[t][i] \in {"stopped", "interrupted"}
    BY <2>1, <2>2, RelayEffect
  <2>3. CASE relay[s][i] = "interrupted" \/ stranger[i] = "gone"
    BY <2>1, <2>3, RelayEffect, StrangerEffect
  <2>4. CASE stranger[i] = "listening"
    BY <2>1, <2>4, StrangerEffect DEF Served
  <2>5. ASSUME NEW t \in Sessions, relay[t][i] = "listening"
        PROVE  \/ Served(i)'
               \/ relay'[s][i] = "interrupted"
               \/ \E u \in Sessions \ {s} : relay'[u][i] \in {"stopped", "interrupted"}
    <3>1. \/ relay'[t][i] \in {"listening", "interrupted"}
          \/ (relay'[t][i] = "stopped" /\ pc'[t] = "over")
      BY <2>1, <2>5, RelayEffect
    <3> QED BY <3>1 DEF Served
  <2> QED BY <2>1, <2>2, <2>3, <2>4, <2>5 DEF ActiveRelaysStay, Served
<1> QED BY <1>1, <1>2, LauncherTypeCorrect, NotStartedYetHolds, PTL DEF Spec
=============================================================================
