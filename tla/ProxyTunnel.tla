---------------------------- MODULE ProxyTunnel ----------------------------
(***************************************************************************)
(* bin/proxy_daemon.py, handle_client: one connection of the proxy daemon. *)
(*                                                                         *)
(* main starts a thread per accepted connection and the threads share      *)
(* nothing, so one connection is all there is to see: a client, a server   *)
(* and a thread between them that makes blocking calls only. A CONNECT     *)
(* request makes a tunnel, relayed in both directions around select; any   *)
(* other request is sent on once and the reply is relayed until its end.   *)
(*                                                                         *)
(* The two ends and the kernel's sockets are external. A chunk is what one *)
(* recv returns; what an end shuts down or aborts is its connection to the *)
(* proxy. How a request is parsed and rewritten is left out.               *)
(***************************************************************************)
EXTENDS Integers, Sequences, FiniteSets, SequencesExt

CONSTANTS MaxChunks,  \* bound: chunks each end writes, the request included
          Capacity    \* bound: chunks a socket buffer holds

ASSUME BoundsArePositive == MaxChunks \in Nat \ {0} /\ Capacity \in Nat \ {0}

VARIABLES pc,      \* where the thread is
          kind,    \* what the request asked for
          todo,    \* the rest of `readable`
          hand,    \* `data`, on its way into sendall
          conn,    \* state of each end's connection, as the proxy's kernel knows it
          inbox,   \* what the proxy has not received yet from each end
          outbox,  \* what the proxy has sent and the end has not read yet
          got,     \* what each end has read
          wrote    \* number of chunks each end has written

thread == <<pc, kind, todo, hand>>
streams == <<inbox, outbox, got, wrote>>
vars == <<thread, conn, streams>>

Sides == {"client", "server"}
Peer(s) == IF s = "client" THEN "server" ELSE "client"

Established == <<"proxy", 200>>
BadGateway == <<"proxy", 502>>

Init == /\ pc = "request" /\ kind = "none"
        /\ todo = <<>> /\ hand = <<>>
        /\ conn = [client |-> "open", server |-> "none"]
        /\ inbox = [s \in Sides |-> <<>>]
        /\ outbox = [s \in Sides |-> <<>>]
        /\ got = [s \in Sides |-> <<>>]
        /\ wrote = [s \in Sides |-> 0]
-----------------------------------------------------------------------------
(* The two ends: write, read, shut down the sending side, or abort.        *)
Write(s) ==
    /\ conn[s] = "open" /\ pc # "closed"
    /\ wrote[s] < MaxChunks /\ Len(inbox[s]) < Capacity
    /\ wrote' = [wrote EXCEPT ![s] = @ + 1]
    /\ inbox' = [inbox EXCEPT ![s] = Append(@, <<s, wrote'[s]>>)]
    /\ UNCHANGED <<thread, conn, outbox, got>>

Read(s) ==
    /\ conn[s] # "reset" /\ outbox[s] # <<>>
    /\ got' = [got EXCEPT ![s] = Append(@, Head(outbox[s]))]
    /\ outbox' = [outbox EXCEPT ![s] = Tail(@)]
    /\ UNCHANGED <<thread, conn, inbox, wrote>>

ShutDown(s) ==
    /\ conn[s] = "open"
    /\ conn' = [conn EXCEPT ![s] = "eof"]
    /\ UNCHANGED <<thread, streams>>

Reset(s) ==
    /\ conn[s] \in {"open", "eof"} /\ pc # "closed"
    /\ conn' = [conn EXCEPT ![s] = "reset"]
    /\ UNCHANGED <<thread, streams>>

\* An end takes what it is sent, or is gone and aborts.
Consume(s) == Read(s) \/ (outbox[s] # <<>> /\ Reset(s))
-----------------------------------------------------------------------------
(* The thread.                                                             *)

\* sendall returns once the chunk is in the socket buffer.
HasRoom(s) == conn[s] # "reset" /\ Len(outbox[s]) < Capacity
Put(s, chunk) == outbox' = [outbox EXCEPT ![s] = Append(@, chunk)]

\* The first recv. A request that names no server the code understands (another
\* method without http://, a CONNECT without a port) ends the connection.
Request ==
    /\ pc = "request"
    /\ \/ /\ inbox["client"] # <<>>
          /\ \/ kind' = "tunnel" /\ pc' = "connect" /\ UNCHANGED hand
             \/ kind' = "http" /\ pc' = "connect" /\ hand' = Head(inbox["client"])
             \/ pc' = "closed" /\ UNCHANGED <<kind, hand>>
          /\ inbox' = [inbox EXCEPT !["client"] = Tail(@)]
       \/ /\ inbox["client"] = <<>> /\ conn["client"] \in {"eof", "reset"}
          /\ pc' = "closed"
          /\ UNCHANGED <<kind, hand, inbox>>
    /\ UNCHANGED <<todo, conn, outbox, got, wrote>>

\* An exception: inside the relay of a tunnel the client is told.
Fail == pc' = (IF kind = "tunnel" THEN "error" ELSE "closed") /\ todo' = <<>> /\ hand' = <<>>

\* server.connect, and the first sendall.
Connect ==
    /\ pc = "connect"
    /\ \/ /\ conn' = [conn EXCEPT !["server"] = "open"]
          /\ \/ /\ kind = "tunnel" /\ HasRoom("client")
                /\ Put("client", Established)
                /\ pc' = "select" /\ UNCHANGED <<todo, hand>>
             \/ /\ kind = "tunnel" /\ conn["client"] = "reset"
                /\ Fail /\ UNCHANGED outbox
             \/ /\ kind = "http"
                /\ Put("server", hand)
                /\ pc' = "reply" /\ hand' = <<>> /\ UNCHANGED todo
       \/ /\ Fail
          /\ UNCHANGED <<conn, outbox>>
    /\ UNCHANGED <<kind, inbox, got, wrote>>

Readable(s) == inbox[s] # <<>> \/ conn[s] \in {"eof", "reset"}

IfReadable(s) == IF Readable(s) THEN <<s>> ELSE <<>>

\* (mutant) the list in the other order.
ReadableServerFirst == IfReadable("server") \o IfReadable("client")

\* select.select([client_socket, server], [], [], 30), in the order of its list.
ReadableSides == IfReadable("client") \o IfReadable("server")

\* select returns, or thirty seconds pass in which neither end was readable.
Select ==
    /\ pc = "select"
    /\ IF ReadableSides = <<>> THEN pc' = "closed" /\ UNCHANGED todo
                               ELSE pc' = "serve" /\ todo' = ReadableSides
    /\ UNCHANGED <<kind, hand, conn, streams>>

\* recv in the relay loops: a chunk, the end of the stream, or an exception.
Receive(s) ==
    /\ inbox[s] # <<>>
    /\ hand' = Head(inbox[s])
    /\ inbox' = [inbox EXCEPT ![s] = Tail(@)]
    /\ pc' = "send"
    /\ UNCHANGED <<kind, conn, outbox, got, wrote>>

\* (mutants) an end of stream ends the tunnel; an exception is passed over.
ReachEndAndReturn(s, next) ==
    /\ inbox[s] = <<>> /\ conn[s] = "eof"
    /\ pc' = "closed" /\ todo' = <<>>
    /\ UNCHANGED <<kind, hand, conn, streams>>
BreakPassedOver(s) ==
    /\ conn[s] = "reset" /\ pc' = "select" /\ todo' = <<>>
    /\ UNCHANGED <<kind, hand, conn, streams>>

ReachEnd(s, next) ==
    /\ inbox[s] = <<>> /\ conn[s] = "eof"
    /\ pc' = next /\ todo' = <<>>
    /\ UNCHANGED <<kind, hand, conn, streams>>

Break(s) == conn[s] = "reset" /\ Fail /\ UNCHANGED <<kind, conn, streams>>

\* One turn of `for sock in readable` up to sendall. An end of stream leaves the
\* for loop only: the tunnel goes on.
Serve ==
    /\ pc = "serve"
    /\ \/ Receive(Head(todo)) /\ UNCHANGED todo
       \/ ReachEnd(Head(todo), "select")
       \/ Break(Head(todo))

\* The reply of a plain request: only the server is read from now on.
Reply ==
    /\ pc = "reply"
    /\ \/ Receive("server") /\ todo' = <<"server">>
       \/ ReachEnd("server", "closed")
       \/ Break("server")

\* On to the next readable socket, or around the loop.
GoOn == /\ hand' = <<>> /\ todo' = Tail(todo)
        /\ pc' = (IF kind = "http" THEN "reply" ELSE IF todo' = <<>> THEN "select" ELSE "serve")

\* (mutant) send in place of sendall: what does not fit is dropped.
SendWhatFits ==
    /\ pc = "send" /\ GoOn
    /\ LET to == Peer(Head(todo)) IN IF HasRoom(to) THEN Put(to, hand) ELSE UNCHANGED outbox
    /\ UNCHANGED <<kind, conn, inbox, got, wrote>>

\* sendall to the other end blocks while its buffer is full.
Send ==
    /\ pc = "send"
    /\ LET to == Peer(Head(todo))
       IN  \/ HasRoom(to) /\ Put(to, hand) /\ GoOn
           \/ conn[to] = "reset" /\ Fail /\ UNCHANGED outbox
    /\ UNCHANGED <<kind, conn, inbox, got, wrote>>

\* The handler of a tunnel's exceptions writes its answer to the client, in the
\* middle of whatever the tunnel carried.
SendError ==
    /\ pc = "error"
    /\ \/ HasRoom("client") /\ Put("client", BadGateway)
       \/ conn["client"] = "reset" /\ UNCHANGED outbox
    /\ pc' = "closed"
    /\ UNCHANGED <<kind, todo, hand, conn, inbox, got, wrote>>

Thread == Request \/ Connect \/ Select \/ Serve \/ Reply \/ Send \/ SendError

Next == \/ Thread
        \/ \E s \in Sides : Write(s) \/ Consume(s) \/ ShutDown(s) \/ Reset(s)

Spec == Init /\ [][Next]_vars

\* The thread is scheduled, connect and select's timeout come to an end, and both
\* ends read what they are sent or abort.
Fairness == WF_vars(Thread) /\ \A s \in Sides : WF_vars(Consume(s))

FairSpec == Spec /\ Fairness
-----------------------------------------------------------------------------
Chunks == {<<s, n>> : s \in Sides, n \in 1 .. MaxChunks}
Sent == Chunks \cup {Established, BadGateway}
Relaying == {"select", "serve", "send", "reply"}

TypeOK ==
    /\ pc \in {"request", "connect", "error", "closed"} \cup Relaying
    /\ kind \in {"none", "tunnel", "http"}
    /\ todo \in {<<>>, <<"client">>, <<"server">>, <<"client", "server">>}
    /\ hand \in Chunks \cup {<<>>}
    /\ conn \in [Sides -> {"none", "open", "eof", "reset"}]
    /\ inbox \in [Sides -> Seq(Chunks)] /\ \A s \in Sides : Len(inbox[s]) <= Capacity
    /\ outbox \in [Sides -> Seq(Sent)] /\ \A s \in Sides : Len(outbox[s]) <= Capacity
    /\ got \in [Sides -> Seq(Sent)]
    /\ wrote \in [Sides -> 0 .. MaxChunks]

\* What an end has read or can read, and what of s the thread has in its hand.
Delivered(e) == got[e] \o outbox[e]
InHand(s) == IF \/ pc = "send" /\ Head(todo) = s
                \/ pc = "connect" /\ kind = "http" /\ s = "client"
             THEN <<hand>> ELSE <<>>

\* The proxy keeps the head of a CONNECT request to itself, and says its 200
\* before it relays what the server says.
First(s) == IF s = "client" /\ kind = "tunnel" THEN 2 ELSE 1
ToRelay(s) == [i \in 1 .. wrote[s] - First(s) + 1 |-> <<s, First(s) + i - 1>>]
Announced(s) == IF s = "server" /\ kind = "tunnel" /\ pc # "connect"
                THEN <<Established>> ELSE <<>>
Due(s) == Announced(s) \o ToRelay(s)

\* Until the connection ends, all that is due to the other end is with it, in the
\* thread's hand or still to be received, once and in order.
NothingLost ==
    pc \notin {"error", "closed"} =>
        \A s \in Sides : Delivered(Peer(s)) \o InHand(s) \o inbox[s] = Due(s)

\* However it ended, each end was given a beginning of what was due to it, and the
\* 502 follows on that only if the relay was never up or an end has aborted.
CutOff == \E part \in Prefixes(Due("server")) :
              /\ Delivered("client") = Append(part, BadGateway)
              /\ pc = "closed" /\ kind = "tunnel"
              /\ part = <<>> \/ \E s \in Sides : conn[s] = "reset"

BeginningsArrive ==
    pc \in {"error", "closed"} =>
        /\ Delivered("server") \in Prefixes(Due("client"))
        /\ Delivered("client") \in Prefixes(Due("server")) \/ CutOff

\* The two streams hold what was written to them, whole and in order.
StreamsAreWhole == NothingLost /\ BeginningsArrive

\* A connection that ends although neither end aborted has passed on all that the
\* server wrote, and for a tunnel all that the client wrote.
CleanEndsAreComplete ==
    pc = "closed" /\ conn["server"] # "none" /\ (\A s \in Sides : conn[s] # "reset") =>
        \A s \in Sides : s = "server" \/ kind = "tunnel" => Delivered(Peer(s)) = Due(s)

\* Where the thread is and what it does: what the two properties above rest on.
ThreadInvariant ==
    /\ pc = "request" => kind = "none"
    /\ pc \in {"select", "serve", "error"} => kind = "tunnel"
    /\ pc = "reply" => kind = "http"
    /\ pc \in {"connect", "send"} => kind # "none"
    /\ pc = "send" /\ kind = "http" => todo = <<"server">>
    /\ pc \in {"serve", "send"} => todo # <<>>
    /\ pc = "send" \/ (pc = "connect" /\ kind = "http") => hand \in Chunks
    /\ pc \in {"request", "connect"} => conn["server"] = "none"
    /\ pc # "closed" /\ conn["server"] = "none" =>
           \A s \in Sides : got[s] = <<>> /\ outbox[s] = <<>>
    /\ pc \in Relaying => conn["server"] # "none"
    /\ conn["client"] # "none"
    /\ conn["server"] = "none" => wrote["server"] = 0 /\ inbox["server"] = <<>>
    /\ kind = "tunnel" => wrote["client"] >= 1
    /\ pc = "error" => conn["server"] = "none" \/ \E s \in Sides : conn[s] = "reset"

\* An aborted tunnel is given up, except that the thread does not look at the
\* server any more once the client has shut down.
AbortedTunnelsEnd ==
    \A s \in Sides :
        kind = "tunnel" /\ conn[s] = "reset" ~>
            pc = "closed" \/ (s = "server" /\ conn["client"] = "eof")

\* What an end wrote into the tunnel, or the server into its reply, reaches the
\* other end, unless that end aborts or the connection ends; but the thread does
\* not look at the server any more once the client of a tunnel has shut down.
ChunksArrive ==
    \A s \in Sides : \A n \in 1 .. MaxChunks :
        pc \in Relaying /\ (s = "server" \/ kind = "tunnel") /\ <<s, n>> \in ToSet(inbox[s])
            ~> \/ <<s, n>> \in ToSet(got[Peer(s)])
               \/ pc = "closed" \/ conn[Peer(s)] = "reset"
               \/ (s = "server" /\ kind = "tunnel" /\ conn["client"] = "eof")
-----------------------------------------------------------------------------
\* "Bidirectional relay" (the comment above the loop): what the server writes
\* reaches the client or the connection ends, whatever the client has shut down.
RelayIsBidirectional ==
    \A n \in 1 .. MaxChunks :
        kind = "tunnel" /\ pc \in Relaying /\ <<"server", n>> \in ToSet(inbox["server"])
            ~> <<"server", n>> \in ToSet(got["client"]) \/ pc = "closed"
=============================================================================
