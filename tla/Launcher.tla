------------------------------ MODULE Launcher ------------------------------
(***************************************************************************)
(* launcher.py, SwarmLauncher and main, with the PortRelays of             *)
(* swarm/nvidia_swarm_proxy.py it starts: sessions of the launcher on one  *)
(* machine, one after the other or side by side.                           *)
(*                                                                         *)
(* A session starts one socat process per port, works, and in the end      *)
(* saves its metrics and closes the transport, the ZMQ engine and the      *)
(* relays, in this order. init is not covered by the try whose finally     *)
(* does so, the relays are processes that outlive the session, and whether *)
(* a relay is active is decided by whoever answers on its port.            *)
(*                                                                         *)
(* socat, the Jupyter kernel and the sockets are external, and so is who   *)
(* else listens on a relay's port. What the work computes is the matter of *)
(* the other modules: here it ends or raises.                              *)
(***************************************************************************)
EXTENDS Integers, FiniteSets

CONSTANTS Sessions,   \* runs of main
          Foreground, \* the sessions that Ctrl-C in their terminal can reach
          Ports,      \* number of relays, started in the order 1 .. Ports
          Contested   \* the ports that other programs may listen on

ASSUME SessionsFinite == IsFiniteSet(Sessions)
ASSUME SomePort == Ports \in Nat \ {0}

VARIABLES pc,        \* where each session is
          next,      \* the relay start_all starts next
          relay,     \* the socat process of each session's relay
          reported,  \* results of start_all: was the relay found active?
          zmq,       \* the ZMQ engine: "none", "connected", "unsent" (a request waits)
          failed,    \* did the session raise where nobody catches, or was it killed?
          stranger   \* on each port, a process that is no session's relay

vars == <<pc, next, relay, reported, zmq, failed, stranger>>

Relays == 1 .. Ports
Running == {"starting", "listening"}

Init == /\ pc = [s \in Sessions |-> "off"]
        /\ next = [s \in Sessions |-> 1]
        /\ relay = [s \in Sessions |-> [i \in Relays |-> "none"]]
        /\ reported = [s \in Sessions |-> {}]
        /\ zmq = [s \in Sessions |-> "none"]
        /\ failed = [s \in Sessions |-> FALSE]
        /\ stranger = [i \in Relays |-> "absent"]

Go(s, where) == pc' = [pc EXCEPT ![s] = where]

\* The session goes on, with what it has in memory.
Proceed(s, where) == Go(s, where) /\ UNCHANGED <<next, reported, zmq, failed>>

\* The process is over, and what it had in memory and its sockets are gone.
Exit(s) == /\ Go(s, "over")
           /\ next' = [next EXCEPT ![s] = 1]
           /\ reported' = [reported EXCEPT ![s] = {}]
           /\ zmq' = [zmq EXCEPT ![s] = "none"]

\* An exception nobody catches: the session ends where it is.
Die(s) == Exit(s) /\ failed' = [failed EXCEPT ![s] = TRUE]

\* PortRelay.is_active: somebody accepts connections on the port, whoever it is.
Served(i) == stranger[i] = "listening" \/ \E s \in Sessions : relay[s][i] = "listening"
-----------------------------------------------------------------------------
(* init.                                                                   *)

\* The engine connects to the kernel whose connection file is the newest, be it
\* gone; without such a file there is no engine.
Launch(s) ==
    /\ pc[s] = "off"
    /\ \E engine \in {"none", "connected"} : zmq' = [zmq EXCEPT ![s] = engine]
    /\ Go(s, "start relay")
    /\ UNCHANGED <<next, relay, reported, failed, stranger>>

\* PortRelay.start: Popen succeeds, whatever becomes of socat, or raises.
StartRelay(s) ==
    /\ pc[s] = "start relay"
    /\ \/ Proceed(s, "check relay") /\ relay' = [relay EXCEPT ![s][next[s]] = "starting"]
       \/ Die(s) /\ UNCHANGED relay
    /\ UNCHANGED stranger

\* socat binds its port, or exits because it may not or somebody else has it.
Bind(s, i) ==
    /\ relay[s][i] = "starting"
    /\ \/ ~ Served(i) /\ relay' = [relay EXCEPT ![s][i] = "listening"]
       \/ relay' = [relay EXCEPT ![s][i] = "exited"]
    /\ UNCHANGED <<pc, next, reported, zmq, failed, stranger>>

\* (mutant) a relay counts as active once it was started.
ActiveOnceStarted(s) == reported[s] \cup {next[s]}

Active(s) == IF Served(next[s]) THEN reported[s] \cup {next[s]} ELSE reported[s]

\* (mutant) an off-by-one in the loop over the relays.
MoreRelaysOffByOne(s) == next[s] <= Ports

MoreRelays(s) == next[s] < Ports

\* Half a second later: is it active? Then the next relay.
CheckRelay(s) ==
    /\ pc[s] = "check relay"
    /\ reported' = [reported EXCEPT ![s] = Active(s)]
    /\ IF MoreRelays(s)
       THEN Go(s, "start relay") /\ next' = [next EXCEPT ![s] = @ + 1]
       ELSE Go(s, "prepare") /\ UNCHANGED next
    /\ UNCHANGED <<relay, zmq, failed, stranger>>

\* The rest of init: GitPushHelper makes its workspace directory, or cannot.
Prepare(s) ==
    /\ pc[s] = "prepare"
    /\ Proceed(s, "work") \/ Die(s)
    /\ UNCHANGED <<relay, stranger>>
-----------------------------------------------------------------------------
(* The work, and the finally.                                              *)

\* run_zmq_demo: a request to a kernel that is gone stays in the socket.
ZmqDemo(s) ==
    /\ pc[s] = "work" /\ zmq[s] = "connected"
    /\ zmq' = [zmq EXCEPT ![s] = "unsent"]
    /\ UNCHANGED <<pc, next, relay, reported, failed, stranger>>

\* The work is done, raises, or is cancelled (see Interrupt). The finally runs in
\* any case, and begins with save_metrics, which may raise itself.
SaveMetrics(s) ==
    /\ pc[s] = "work"
    /\ Proceed(s, "close transport") \/ Die(s)
    /\ UNCHANGED <<relay, stranger>>

\* The only await of close: it may be cancelled, and the transport may raise.
CloseTransport(s) ==
    /\ pc[s] = "close transport"
    /\ Proceed(s, "close zmq") \/ Die(s)
    /\ UNCHANGED <<relay, stranger>>

\* (mutant) the sockets are not closed before ctx.term, which waits for that.
TermWaitsForSockets(s) == zmq[s] # "none"

\* ctx.term waits for what could not be sent, and blocks the event loop.
TermWaits(s) == zmq[s] = "unsent"

CloseZmq(s) ==
    /\ pc[s] = "close zmq"
    /\ ~ TermWaits(s)
    /\ Go(s, "teardown")
    /\ zmq' = [zmq EXCEPT ![s] = "none"]
    /\ UNCHANGED <<next, relay, reported, failed, stranger>>

\* A socket or the context may also raise.
CloseZmqRaises(s) ==
    /\ pc[s] = "close zmq" /\ zmq[s] # "none"
    /\ Die(s)
    /\ UNCHANGED <<relay, stranger>>

\* (mutant) the first relay is forgotten.
StoppedButFirst(s) == [relay EXCEPT ![s] = [i \in Relays |->
                          IF i > 1 /\ @[i] \in Running THEN "stopped" ELSE @[i]]]

\* stop_all: kill, by process id, what this session has started.
Stopped(s) == [relay EXCEPT ![s] = [i \in Relays |->
                  IF @[i] \in Running THEN "stopped" ELSE @[i]]]

Teardown(s) ==
    /\ pc[s] = "teardown"
    /\ relay' = Stopped(s)
    /\ Exit(s)
    /\ UNCHANGED <<failed, stranger>>
-----------------------------------------------------------------------------
(* The surroundings.                                                       *)

\* Ctrl-C, sent to the whole process group: Popen left socat in the launcher's. The
\* launcher only notes it, and its next await raises: that ends the work, or close.
Interrupt(s) ==
    /\ s \in Foreground /\ pc[s] \notin {"off", "over"}
    /\ relay' = [relay EXCEPT ![s] = [i \in Relays |->
                    IF @[i] \in Running THEN "interrupted" ELSE @[i]]]
    /\ UNCHANGED <<pc, next, reported, zmq, failed, stranger>>

\* The launcher alone is killed, or a second Ctrl-C raises where it is.
Kill(s) ==
    /\ pc[s] \notin {"off", "over"}
    /\ Die(s)
    /\ UNCHANGED <<relay, stranger>>

\* Another program takes a port that is free, or gives it up.
StrangerListens(i) ==
    /\ i \in Contested /\ ~ Served(i)
    /\ stranger[i] = "absent"
    /\ stranger' = [stranger EXCEPT ![i] = "listening"]
    /\ UNCHANGED <<pc, next, relay, reported, zmq, failed>>

StrangerLeaves(i) ==
    /\ stranger[i] = "listening"
    /\ stranger' = [stranger EXCEPT ![i] = "gone"]
    /\ UNCHANGED <<pc, next, relay, reported, zmq, failed>>

\* The kernel comes back and takes what waits for it.
Deliver(s) ==
    /\ zmq[s] = "unsent"
    /\ zmq' = [zmq EXCEPT ![s] = "connected"]
    /\ UNCHANGED <<pc, next, relay, reported, failed, stranger>>
-----------------------------------------------------------------------------
SessionStep(s) == \/ StartRelay(s) \/ CheckRelay(s) \/ Prepare(s) \/ SaveMetrics(s)
                  \/ CloseTransport(s) \/ CloseZmq(s) \/ Teardown(s)

Next == \/ \E s \in Sessions : \/ Launch(s) \/ SessionStep(s) \/ CloseZmqRaises(s)
                               \/ ZmqDemo(s) \/ Deliver(s)
                               \/ Interrupt(s) \/ Kill(s)
                               \/ \E i \in Relays : Bind(s, i)
        \/ \E i \in Relays : StrangerListens(i) \/ StrangerLeaves(i)

Spec == Init /\ [][Next]_vars

\* The process runs, its work ends (its requests have timeouts) and a socat that
\* was started binds its port or exits.
FairSpec == /\ Spec
            /\ \A s \in Sessions : /\ WF_vars(SessionStep(s))
                                   /\ \A i \in Relays : WF_vars(Bind(s, i))
-----------------------------------------------------------------------------
Steps == {"off", "start relay", "check relay", "prepare", "work",
          "close transport", "close zmq", "teardown", "over"}

RelayStates == {"none", "exited", "stopped", "interrupted", "starting", "listening"}

TypeOK ==
    /\ pc \in [Sessions -> Steps]
    /\ next \in [Sessions -> Relays]
    /\ relay \in [Sessions -> [Relays -> RelayStates]]
    /\ reported \in [Sessions -> SUBSET Relays]
    /\ zmq \in [Sessions -> {"none", "connected", "unsent"}]
    /\ failed \in [Sessions -> BOOLEAN]
    /\ stranger \in [Relays -> {"absent", "listening", "gone"}]

\* A session leaves no relay behind, also when its work raised or was cancelled,
\* unless it did not get to stop_all: init, save_metrics or an earlier close
\* raised, or it was killed.
LeftRelaysHaveCause ==
    \A s \in Sessions :
        pc[s] = "over" /\ (\E i \in Relays : relay[s][i] \in Running) =>
            failed[s]

\* What start_all has not come to yet was not started.
NotStartedYet ==
    \A s \in Sessions : \A i \in Relays :
        /\ pc[s] = "off" => relay[s][i] = "none"
        /\ pc[s] = "start relay" /\ i >= next[s] => relay[s][i] = "none"
        /\ pc[s] = "check relay" /\ i > next[s] => relay[s][i] = "none"

\* What start_all found active on a port goes on serving it until the session ends
\* or Ctrl-C ends its relay, unless it never was the session's own: another session's
\* relay, since torn down or interrupted, or another program, since gone.
ActiveRelaysStay ==
    \A s \in Sessions : \A i \in reported[s] :
        pc[s] # "over" =>
            \/ Served(i)
            \/ relay[s][i] = "interrupted"
            \/ stranger[i] = "gone"
            \/ \E t \in Sessions \ {s} : relay[t][i] \in {"stopped", "interrupted"}

\* Every session ends, whatever fails, except in ctx.term with a request to a
\* kernel that is gone.
SessionsEnd ==
    \A s \in Sessions : pc[s] # "off" ~> pc[s] = "over" \/ zmq[s] = "unsent"
=============================================================================
