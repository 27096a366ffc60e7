------------------------- MODULE ProxyTunnelProofs -------------------------
(***************************************************************************)
(* Theorems about ProxyTunnel, for any number of chunks and any capacity.  *)
(***************************************************************************)
EXTENDS ProxyTunnel, SequenceTheorems, TLAPS

Todos == {<<>>, <<"client">>, <<"server">>, <<"client", "server">>}
States == {"none", "open", "eof", "reset"}
Points == {"request", "connect", "error", "closed"} \cup Relaying

\* Chunks are pairs, and so are what the proxy says itself.
LEMMA ChunkTyped ==
    /\ Chunks \subseteq Sent /\ Established \in Sent /\ BadGateway \in Sent
    /\ \A s \in Sides, n \in 1 .. MaxChunks : <<s, n>> \in Chunks
BY DEF Chunks, Sent

LEMMA PeerTyped ==
    /\ "client" \in Sides /\ "server" \in Sides
    /\ Peer("client") = "server" /\ Peer("server") = "client"
    /\ \A s \in Sides : Peer(s) \in Sides /\ Peer(s) # s /\ Peer(Peer(s)) = s
BY DEF Sides, Peer

LEMMA TodoTyped ==
    ASSUME NEW list \in Todos, list # <<>>
    PROVE  Head(list) \in Sides /\ Tail(list) \in Todos
<1>1. CASE list = <<"client">>
  BY <1>1 DEF Todos, Sides
<1>2. CASE list = <<"server">>
  BY <1>2 DEF Todos, Sides
<1>3. CASE list = <<"client", "server">>
  BY <1>3 DEF Todos, Sides
<1> QED BY <1>1, <1>2, <1>3 DEF Todos

LEMMA ReadsAreListed ==
    /\ <<>> \o <<>> = <<>>
    /\ <<"client">> \o <<>> = <<"client">>
    /\ <<>> \o <<"server">> = <<"server">>
    /\ <<"client">> \o <<"server">> = <<"client", "server">>
    /\ <<"client">> \o <<"server">> # <<>>
<1> DEFINE both == <<"client">> \o <<"server">>
           list == <<"client", "server">>
<1>1. /\ <<"client">> \in Seq(Sides) /\ <<"server">> \in Seq(Sides)
      /\ list \in Seq(Sides) /\ Len(list) = 2 /\ list[1] = "client" /\ list[2] = "server"
  BY DEF Sides
<1>2. /\ both \in Seq(Sides) /\ Len(both) = 2
      /\ both[1] = "client" /\ both[2] = "server"
  BY <1>1, ConcatProperties
<1>3. <<>> \o <<>> = <<>> /\ <<"client">> \o <<>> = <<"client">> /\ <<>> \o <<"server">> = <<"server">>
  OBVIOUS
<1> HIDE DEF both, list
<1>4. both = list
  <2>1. \A i \in 1 .. Len(both) : both[i] = list[i]
    BY <1>1, <1>2
  <2> QED BY <1>1, <1>2, <2>1, SeqEqual
<1>5. both # <<>>
  BY <1>2, EmptySeq
<1> QED BY <1>3, <1>4, <1>5 DEF both, list

LEMMA ReadableTyped == ReadableSides \in Todos
<1>1. /\ IfReadable("client") \in {<<>>, <<"client">>}
      /\ IfReadable("server") \in {<<>>, <<"server">>}
  BY DEF IfReadable
<1> QED BY <1>1, ReadsAreListed DEF ReadableSides, Todos

\* A buffer that something is put into or taken from.
LEMMA BufferTyped ==
    ASSUME NEW S, NEW buffer \in [Sides -> Seq(S)],
           \A s \in Sides : Len(buffer[s]) <= Capacity, NEW s \in Sides
    PROVE  /\ buffer[s] # <<>> =>
                  LET rest == [buffer EXCEPT ![s] = Tail(@)]
                  IN  /\ Head(buffer[s]) \in S
                      /\ rest \in [Sides -> Seq(S)]
                      /\ \A t \in Sides : Len(rest[t]) <= Capacity
           /\ \A x \in S : Len(buffer[s]) < Capacity =>
                  LET more == [buffer EXCEPT ![s] = Append(@, x)]
                  IN  /\ more \in [Sides -> Seq(S)]
                      /\ \A t \in Sides : Len(more[t]) <= Capacity
<1>1. buffer[s] \in Seq(S) /\ Len(buffer[s]) \in Nat /\ Len(buffer[s]) <= Capacity
  BY LenProperties
<1>2. ASSUME buffer[s] # <<>>
      PROVE  LET rest == [buffer EXCEPT ![s] = Tail(@)]
             IN  /\ Head(buffer[s]) \in S
                 /\ rest \in [Sides -> Seq(S)]
                 /\ \A t \in Sides : Len(rest[t]) <= Capacity
  <2>1. /\ Head(buffer[s]) \in S /\ Tail(buffer[s]) \in Seq(S)
        /\ Len(Tail(buffer[s])) = Len(buffer[s]) - 1
    BY <1>1, <1>2, HeadTailProperties
  <2>2. Len(Tail(buffer[s])) <= Capacity
    BY <1>1, <2>1, BoundsArePositive
  <2> QED BY <2>1, <2>2
<1>3. ASSUME NEW x \in S, Len(buffer[s]) < Capacity
      PROVE  LET more == [buffer EXCEPT ![s] = Append(@, x)]
             IN  /\ more \in [Sides -> Seq(S)]
                 /\ \A t \in Sides : Len(more[t]) <= Capacity
  <2>1. Append(buffer[s], x) \in Seq(S) /\ Len(Append(buffer[s], x)) = Len(buffer[s]) + 1
    BY <1>1, AppendProperties
  <2>2. Len(Append(buffer[s], x)) <= Capacity
    BY <1>1, <1>3, <2>1, BoundsArePositive
  <2> QED BY <2>1, <2>2
<1> QED BY <1>2, <1>3

\* The type, by its parts.
LEMMA TypeParts ==
    TypeOK <=>
        /\ pc \in Points /\ kind \in {"none", "tunnel", "http"} /\ todo \in Todos
        /\ hand \in Chunks \cup {<<>>} /\ conn \in [Sides -> States]
        /\ inbox \in [Sides -> Seq(Chunks)] /\ \A s \in Sides : Len(inbox[s]) <= Capacity
        /\ outbox \in [Sides -> Seq(Sent)] /\ \A s \in Sides : Len(outbox[s]) <= Capacity
        /\ got \in [Sides -> Seq(Sent)] /\ wrote \in [Sides -> 0 .. MaxChunks]
BY DEF TypeOK, Points, Todos, States

LEMMA TypePartsPrimed ==
    TypeOK' <=>
        /\ pc' \in Points /\ kind' \in {"none", "tunnel", "http"} /\ todo' \in Todos
        /\ hand' \in Chunks \cup {<<>>} /\ conn' \in [Sides -> States]
        /\ inbox' \in [Sides -> Seq(Chunks)] /\ \A s \in Sides : Len(inbox'[s]) <= Capacity
        /\ outbox' \in [Sides -> Seq(Sent)] /\ \A s \in Sides : Len(outbox'[s]) <= Capacity
        /\ got' \in [Sides -> Seq(Sent)] /\ wrote' \in [Sides -> 0 .. MaxChunks]
BY DEF TypeOK, Points, Todos, States
-----------------------------------------------------------------------------
(* Where the thread is.                                                    *)

LEMMA WriteTyped ==
    ASSUME TypeOK, ThreadInvariant, NEW s \in Sides, Write(s)
    PROVE  /\ TypeOK' /\ ThreadInvariant'
           /\ <<s, wrote[s] + 1>> \in Chunks /\ wrote[s] \in Nat
           /\ wrote' = [wrote EXCEPT ![s] = wrote[s] + 1]
           /\ inbox' = [inbox EXCEPT ![s] = Append(@, <<s, wrote[s] + 1>>)]
<1>1. wrote[s] \in Nat /\ wrote[s] + 1 \in 1 .. MaxChunks
  BY BoundsArePositive DEF Write, TypeOK
<1>2. <<s, wrote[s] + 1>> \in Chunks
  BY <1>1, ChunkTyped
<1>3. wrote' = [wrote EXCEPT ![s] = wrote[s] + 1] /\ wrote' \in [Sides -> 0 .. MaxChunks]
  BY <1>1 DEF Write, TypeOK
<1>4. wrote'[s] = wrote[s] + 1
  BY <1>3 DEF TypeOK
<1>5. inbox' = [inbox EXCEPT ![s] = Append(@, <<s, wrote[s] + 1>>)]
  BY <1>4 DEF Write
<1>6. inbox' \in [Sides -> Seq(Chunks)] /\ \A t \in Sides : Len(inbox'[t]) <= Capacity
  <2>1. /\ inbox \in [Sides -> Seq(Chunks)] /\ \A t \in Sides : Len(inbox[t]) <= Capacity
        /\ Len(inbox[s]) < Capacity
    BY DEF Write, TypeOK
  <2> HIDE DEF Chunks
  <2>2. LET more == [inbox EXCEPT ![s] = Append(@, <<s, wrote[s] + 1>>)]
        IN  /\ more \in [Sides -> Seq(Chunks)]
            /\ \A t \in Sides : Len(more[t]) <= Capacity
    BY <1>2, <2>1, BufferTyped
  <2> QED BY <1>5, <2>2
<1>7. TypeOK'
  BY <1>3, <1>6, TypeParts, TypePartsPrimed DEF Write, thread
<1>8. ThreadInvariant'
  <2>1. s # "server" => wrote'["server"] = wrote["server"] /\ inbox'["server"] = inbox["server"]
    BY <1>3, <1>5, PeerTyped DEF TypeOK
  <2>2. wrote["client"] >= 1 => wrote'["client"] >= 1
    BY <1>1, <1>3, PeerTyped DEF TypeOK
  <2>3. conn["server"] = "none" => s # "server"
    BY DEF Write
  <2> QED BY <2>1, <2>2, <2>3 DEF ThreadInvariant, Write, thread
<1> QED BY <1>1, <1>2, <1>3, <1>5, <1>7, <1>8

LEMMA ReadTyped ==
    ASSUME TypeOK, ThreadInvariant, NEW s \in Sides, Read(s)
    PROVE  TypeOK' /\ ThreadInvariant'
<1>1. /\ Head(outbox[s]) \in Sent
      /\ outbox' \in [Sides -> Seq(Sent)] /\ \A t \in Sides : Len(outbox'[t]) <= Capacity
  BY BufferTyped DEF Read, TypeOK
<1>2. got' \in [Sides -> Seq(Sent)]
  <2>1. Append(got[s], Head(outbox[s])) \in Seq(Sent)
    BY <1>1, AppendProperties DEF TypeOK
  <2> QED BY <2>1 DEF Read, TypeOK
<1>3. TypeOK'
  BY <1>1, <1>2, TypeParts, TypePartsPrimed DEF Read, thread
<1>4. ThreadInvariant'
  BY DEF ThreadInvariant, Read, thread
<1> QED BY <1>3, <1>4

LEMMA EndsTyped ==
    ASSUME TypeOK, ThreadInvariant, NEW s \in Sides, ShutDown(s) \/ Reset(s)
    PROVE  TypeOK' /\ ThreadInvariant'
<1>1. conn' \in [Sides -> States] /\ UNCHANGED <<thread, streams>>
  BY DEF ShutDown, Reset, TypeOK, States
<1>2. TypeOK'
  BY <1>1, TypeParts, TypePartsPrimed DEF thread, streams
<1>3. \A t \in Sides : /\ conn[t] = "none" <=> conn'[t] = "none"
                       /\ conn[t] = "reset" => conn'[t] = "reset"
  BY DEF ShutDown, Reset, TypeOK
<1>4. ThreadInvariant'
  BY <1>1, <1>3, PeerTyped DEF ThreadInvariant, thread, streams
<1> QED BY <1>2, <1>4

LEMMA RequestTyped ==
    ASSUME TypeOK, ThreadInvariant, Request, inbox["client"] # <<>> => wrote["client"] >= 1
    PROVE  TypeOK' /\ ThreadInvariant'
<1>1. CASE /\ inbox["client"] # <<>>
           /\ \/ kind' = "tunnel" /\ pc' = "connect" /\ UNCHANGED hand
              \/ kind' = "http" /\ pc' = "connect" /\ hand' = Head(inbox["client"])
              \/ pc' = "closed" /\ UNCHANGED <<kind, hand>>
           /\ inbox' = [inbox EXCEPT !["client"] = Tail(@)]
           /\ UNCHANGED <<todo, conn, outbox, got, wrote>> /\ pc = "request"
  <2>1. /\ inbox \in [Sides -> Seq(Chunks)] /\ \A t \in Sides : Len(inbox[t]) <= Capacity
        /\ "client" \in Sides
    BY PeerTyped DEF TypeOK
  <2>2. LET rest == [inbox EXCEPT !["client"] = Tail(@)]
        IN  /\ Head(inbox["client"]) \in Chunks
            /\ rest \in [Sides -> Seq(Chunks)]
            /\ \A t \in Sides : Len(rest[t]) <= Capacity
    BY <1>1, <2>1, BufferTyped
  <2>3. TypeOK'
    BY <1>1, <2>2, TypeParts, TypePartsPrimed DEF Points
  <2>4. inbox'["server"] = inbox["server"]
    BY <1>1, <2>1, PeerTyped
  <2>5. ThreadInvariant'
    BY <1>1, <2>2, <2>4 DEF ThreadInvariant, Relaying
  <2> QED BY <2>3, <2>5
<1>2. CASE pc' = "closed" /\ UNCHANGED <<kind, hand, inbox, todo, conn, outbox, got, wrote>>
  <2>1. TypeOK'
    BY <1>2, TypeParts, TypePartsPrimed DEF Points
  <2>2. ThreadInvariant'
    BY <1>2 DEF ThreadInvariant, Relaying
  <2> QED BY <2>1, <2>2
<1> QED BY <1>1, <1>2 DEF Request

\* An exception ends the relay with a cause: an end has aborted, or there was no
\* server to connect to.
LEMMA FailTyped ==
    ASSUME TypeOK, ThreadInvariant, Fail, pc \notin {"closed", "error"},
           UNCHANGED <<kind, inbox, outbox, got, wrote>>,
           conn' \in [Sides -> States],
           \A s \in Sides : conn[s] # "none" => conn'[s] # "none",
           conn'["server"] = "none" \/ \E s \in Sides : conn'[s] = "reset"
    PROVE  TypeOK' /\ ThreadInvariant'
<1>1. pc' \in {"error", "closed"} /\ (pc' = "error" => kind = "tunnel") /\ todo' = <<>> /\ hand' = <<>>
  BY DEF Fail
<1>2. TypeOK'
  BY <1>1, TypeParts, TypePartsPrimed DEF Points, Todos
<1>3. ThreadInvariant'
  BY <1>1, PeerTyped DEF ThreadInvariant, Relaying
<1> QED BY <1>2, <1>3

LEMMA ConnectTyped ==
    ASSUME TypeOK, ThreadInvariant, Connect
    PROVE  TypeOK' /\ ThreadInvariant'
<1>1. /\ outbox \in [Sides -> Seq(Sent)] /\ \A t \in Sides : Len(outbox[t]) <= Capacity
      /\ outbox["client"] = <<>> /\ outbox["server"] = <<>> /\ Len(<<>>) < Capacity
  BY PeerTyped, BoundsArePositive DEF TypeOK, ThreadInvariant, Connect
<1>2. CASE /\ kind = "tunnel" /\ Put("client", Established)
           /\ conn' = [conn EXCEPT !["server"] = "open"]
           /\ pc' = "select" /\ UNCHANGED <<todo, hand, kind, inbox, got, wrote>>
  <2>1. LET more == [outbox EXCEPT !["client"] = Append(@, Established)]
        IN  /\ more \in [Sides -> Seq(Sent)]
            /\ \A t \in Sides : Len(more[t]) <= Capacity
    BY <1>1, PeerTyped, ChunkTyped, BufferTyped
  <2>2. TypeOK'
    BY <1>2, <2>1, TypeParts, TypePartsPrimed DEF Points, Put, States, Relaying
  <2>3. ThreadInvariant'
    BY <1>2, PeerTyped DEF ThreadInvariant, Relaying, TypeOK
  <2> QED BY <2>2, <2>3
<1>3. CASE /\ kind = "http" /\ Put("server", hand) /\ pc = "connect"
           /\ conn' = [conn EXCEPT !["server"] = "open"]
           /\ pc' = "reply" /\ hand' = <<>> /\ UNCHANGED <<todo, kind, inbox, got, wrote>>
  <2>1. hand \in Sent
    BY <1>3, ChunkTyped DEF ThreadInvariant
  <2>2. LET more == [outbox EXCEPT !["server"] = Append(@, hand)]
        IN  /\ more \in [Sides -> Seq(Sent)]
            /\ \A t \in Sides : Len(more[t]) <= Capacity
    BY <1>1, <2>1, PeerTyped, BufferTyped
  <2>3. TypeOK'
    BY <1>3, <2>2, TypeParts, TypePartsPrimed DEF Points, Put, States, Relaying
  <2>4. ThreadInvariant'
    BY <1>3, PeerTyped DEF ThreadInvariant, Relaying, TypeOK
  <2> QED BY <2>3, <2>4
<1>4. CASE /\ kind = "tunnel" /\ conn["client"] = "reset" /\ pc = "connect"
           /\ conn' = [conn EXCEPT !["server"] = "open"]
           /\ Fail /\ UNCHANGED <<outbox, kind, inbox, got, wrote>>
  <2>1. conn' \in [Sides -> States] /\ conn'["client"] = "reset" /\ conn'["server"] = "open"
    BY <1>4, PeerTyped DEF TypeOK, States
  <2> QED BY <1>4, <2>1, PeerTyped, FailTyped DEF Sides
<1>5. CASE Fail /\ pc = "connect" /\ UNCHANGED <<conn, outbox, kind, inbox, got, wrote>>
  <2>1. conn["server"] = "none" /\ conn' \in [Sides -> States]
    BY <1>5 DEF ThreadInvariant, TypeOK, States
  <2> QED BY <1>5, <2>1, FailTyped
<1> QED BY <1>2, <1>3, <1>4, <1>5 DEF Connect

LEMMA SelectTyped ==
    ASSUME TypeOK, ThreadInvariant, Select
    PROVE  TypeOK' /\ ThreadInvariant'
<1>1. /\ pc = "select" /\ kind = "tunnel" /\ UNCHANGED <<kind, hand, conn, streams>>
      /\ \/ pc' = "closed" /\ todo' = todo
         \/ pc' = "serve" /\ todo' = ReadableSides /\ ReadableSides # <<>>
  BY DEF Select, ThreadInvariant
<1>2. TypeOK'
  BY <1>1, ReadableTyped, TypeParts, TypePartsPrimed DEF Points, Relaying, streams
<1>3. ThreadInvariant'
  BY <1>1 DEF ThreadInvariant, Relaying, streams
<1> QED BY <1>2, <1>3

\* recv in either loop.
LEMMA ReceiveTyped ==
    ASSUME TypeOK, ThreadInvariant, NEW s \in Sides, Receive(s),
           todo' \in Todos, Head(todo') = s, todo' # <<>>,
           kind # "none", kind = "http" => todo' = <<"server">>, pc \in Relaying
    PROVE  TypeOK' /\ ThreadInvariant'
<1>1. /\ inbox \in [Sides -> Seq(Chunks)] /\ \A t \in Sides : Len(inbox[t]) <= Capacity
      /\ inbox[s] # <<>>
  BY DEF TypeOK, Receive
<1>2. LET rest == [inbox EXCEPT ![s] = Tail(@)]
      IN  /\ Head(inbox[s]) \in Chunks
          /\ rest \in [Sides -> Seq(Chunks)]
          /\ \A t \in Sides : Len(rest[t]) <= Capacity
  BY <1>1, BufferTyped
<1>3. TypeOK'
  BY <1>2, TypeParts, TypePartsPrimed DEF Receive, Points, Relaying
<1>4. conn["server"] # "none"
  BY DEF ThreadInvariant
<1>5. ThreadInvariant'
  BY <1>2, <1>4 DEF ThreadInvariant, Receive, Relaying
<1> QED BY <1>3, <1>5

LEMMA ReachEndTyped ==
    ASSUME TypeOK, ThreadInvariant, NEW s, NEW next, ReachEnd(s, next), pc \in Relaying,
           \/ next = "select" /\ kind = "tunnel"
           \/ next = "closed"
    PROVE  TypeOK' /\ ThreadInvariant'
<1>1. TypeOK'
  BY TypeParts, TypePartsPrimed DEF ReachEnd, Points, Relaying, Todos, streams
<1>2. ThreadInvariant'
  BY DEF ThreadInvariant, ReachEnd, Relaying, streams
<1> QED BY <1>1, <1>2

LEMMA BreakTyped ==
    ASSUME TypeOK, ThreadInvariant, NEW s \in Sides, Break(s), pc \in Relaying
    PROVE  TypeOK' /\ ThreadInvariant'
<1>1. conn' \in [Sides -> States] /\ conn' = conn /\ conn[s] = "reset"
  BY DEF Break, TypeOK, States
<1> QED BY <1>1, FailTyped DEF Break, streams, Relaying

LEMMA ServeTyped ==
    ASSUME TypeOK, ThreadInvariant, Serve
    PROVE  TypeOK' /\ ThreadInvariant'
<1>1. /\ todo \in Todos /\ todo # <<>> /\ Head(todo) \in Sides /\ kind = "tunnel"
      /\ pc \in Relaying
  BY TodoTyped, TypeParts DEF Serve, ThreadInvariant, Relaying
<1>2. CASE Receive(Head(todo)) /\ UNCHANGED todo
  BY <1>1, <1>2, ReceiveTyped
<1>3. CASE ReachEnd(Head(todo), "select")
  BY <1>1, <1>3, ReachEndTyped
<1>4. CASE Break(Head(todo))
  BY <1>1, <1>4, BreakTyped
<1> QED BY <1>2, <1>3, <1>4 DEF Serve

LEMMA ReplyTyped ==
    ASSUME TypeOK, ThreadInvariant, Reply
    PROVE  TypeOK' /\ ThreadInvariant'
<1>1. kind = "http" /\ pc \in Relaying
  BY DEF Reply, ThreadInvariant, Relaying
<1>2. CASE Receive("server") /\ todo' = <<"server">>
  BY <1>1, <1>2, PeerTyped, ReceiveTyped DEF Todos
<1>3. CASE ReachEnd("server", "closed")
  BY <1>1, <1>3, ReachEndTyped
<1>4. CASE Break("server")
  BY <1>1, <1>4, PeerTyped, BreakTyped
<1> QED BY <1>2, <1>3, <1>4 DEF Reply

LEMMA SendTyped ==
    ASSUME TypeOK, ThreadInvariant, Send
    PROVE  /\ TypeOK' /\ ThreadInvariant'
           /\ Head(todo) \in Sides /\ hand \in Chunks /\ hand \in Sent
<1>1. /\ todo \in Todos /\ todo # <<>> /\ Head(todo) \in Sides /\ Tail(todo) \in Todos
      /\ pc = "send" /\ kind \in {"tunnel", "http"} /\ hand \in Chunks
      /\ conn["server"] # "none"
  BY TodoTyped, TypeParts DEF Send, ThreadInvariant, Relaying
<1> DEFINE to == Peer(Head(todo))
<1>2. hand \in Sent /\ to \in Sides
  BY <1>1, ChunkTyped, PeerTyped
<1>3. CASE HasRoom(to) /\ Put(to, hand) /\ GoOn
  <2>1. /\ outbox \in [Sides -> Seq(Sent)] /\ \A t \in Sides : Len(outbox[t]) <= Capacity
        /\ Len(outbox[to]) < Capacity
    BY <1>3 DEF TypeOK, HasRoom
  <2>2. LET more == [outbox EXCEPT ![to] = Append(@, hand)]
        IN  /\ more \in [Sides -> Seq(Sent)]
            /\ \A t \in Sides : Len(more[t]) <= Capacity
    BY <1>2, <2>1, BufferTyped
  <2>3. UNCHANGED <<kind, conn, inbox, got, wrote>>
    BY DEF Send
  <2>4. TypeOK'
    BY <1>1, <1>3, <2>2, <2>3, TypeParts, TypePartsPrimed DEF Put, GoOn, Points, Relaying
  <2>5. ThreadInvariant'
    BY <1>1, <1>3, <2>3 DEF ThreadInvariant, GoOn, Relaying
  <2> QED BY <1>1, <1>2, <2>4, <2>5
<1>4. CASE conn[to] = "reset" /\ Fail /\ UNCHANGED outbox
  <2>1. UNCHANGED <<kind, conn, inbox, got, wrote>> /\ conn' \in [Sides -> States]
    BY DEF Send, TypeOK, States
  <2>2. TypeOK' /\ ThreadInvariant'
    BY <1>1, <1>2, <1>4, <2>1, FailTyped
  <2> QED BY <1>1, <1>2, <2>2
<1> QED BY <1>3, <1>4 DEF Send

LEMMA SendErrorTyped ==
    ASSUME TypeOK, ThreadInvariant, SendError
    PROVE  TypeOK' /\ ThreadInvariant'
<1>1. /\ outbox \in [Sides -> Seq(Sent)] /\ \A t \in Sides : Len(outbox[t]) <= Capacity
  BY DEF TypeOK
<1>2. Len(outbox["client"]) < Capacity =>
          LET more == [outbox EXCEPT !["client"] = Append(@, BadGateway)]
          IN  /\ more \in [Sides -> Seq(Sent)]
              /\ \A t \in Sides : Len(more[t]) <= Capacity
  BY <1>1, ChunkTyped, PeerTyped, BufferTyped
<1>3. outbox' \in [Sides -> Seq(Sent)] /\ \A t \in Sides : Len(outbox'[t]) <= Capacity
  BY <1>1, <1>2 DEF SendError, HasRoom, Put
<1>4. TypeOK'
  BY <1>3, TypeParts, TypePartsPrimed DEF SendError, Points
<1>5. ThreadInvariant'
  BY DEF ThreadInvariant, SendError, Relaying
<1> QED BY <1>4, <1>5
-----------------------------------------------------------------------------
(* Sequences that are taken from at the head and put to at the end.        *)

LEMMA HeadMoves ==
    ASSUME NEW S, NEW a \in Seq(S), NEW b \in Seq(S), b # <<>>
    PROVE  /\ Append(a, Head(b)) \o Tail(b) = a \o b
           /\ <<Head(b)>> \o Tail(b) = b
<1>1. /\ Head(b) \in S /\ Tail(b) \in Seq(S) /\ Len(Tail(b)) = Len(b) - 1
      /\ \A i \in 1 .. Len(Tail(b)) : Tail(b)[i] = b[i + 1]
      /\ Len(b) \in Nat \ {0} /\ Len(a) \in Nat /\ Head(b) = b[1]
  BY HeadTailProperties, LenProperties, EmptySeq
<1>2. /\ <<Head(b)>> \in Seq(S) /\ Len(<<Head(b)>>) = 1 /\ <<Head(b)>>[1] = Head(b)
      /\ Append(a, Head(b)) = a \o <<Head(b)>>
  BY <1>1, AppendIsConcat
<1>3. <<Head(b)>> \o Tail(b) = b
  <2> DEFINE whole == <<Head(b)>> \o Tail(b)
  <2>1. /\ whole \in Seq(S) /\ Len(whole) = Len(b)
        /\ \A i \in 1 .. Len(b) : whole[i] = IF i <= 1 THEN Head(b) ELSE Tail(b)[i - 1]
    <3>1. /\ whole \in Seq(S) /\ Len(whole) = 1 + Len(Tail(b))
          /\ \A i \in 1 .. 1 + Len(Tail(b)) :
                 whole[i] = IF i <= 1 THEN <<Head(b)>>[i] ELSE Tail(b)[i - 1]
      BY <1>1, <1>2, ConcatProperties
    <3> QED BY <1>1, <1>2, <3>1
  <2>2. \A i \in 1 .. Len(b) : whole[i] = b[i]
    BY <1>1, <2>1
  <2> HIDE DEF whole
  <2> QED BY <2>1, <2>2, SeqEqual DEF whole
<1>4. Append(a, Head(b)) \o Tail(b) = a \o (<<Head(b)>> \o Tail(b))
  BY <1>1, <1>2, ConcatAssociative
<1> QED BY <1>3, <1>4

LEMMA AppendMoves ==
    ASSUME NEW S, NEW a \in Seq(S), NEW b \in Seq(S), NEW x \in S
    PROVE  /\ a \o Append(b, x) = Append(a \o b, x)
           /\ Append(a, x) \o b = (a \o <<x>>) \o b
           /\ a \o b \in Seq(S) /\ Append(a, x) \in Seq(S) /\ <<x>> \in Seq(S)
<1>1. <<x>> \in Seq(S) /\ a \o b \in Seq(S) /\ Append(a, x) \in Seq(S)
  BY ConcatProperties, AppendProperties
<1>2. Append(a, x) = a \o <<x>> /\ Append(b, x) = b \o <<x>> /\ Append(a \o b, x) = (a \o b) \o <<x>>
  BY <1>1, AppendIsConcat
<1> QED BY <1>1, <1>2, ConcatAssociative

LEMMA PrefixesOfConcat ==
    ASSUME NEW S, NEW a \in Seq(S), NEW b \in Seq(S)
    PROVE  a \in Prefixes(a \o b) /\ a \in Prefixes(a) /\ <<>> \in Prefixes(a)
<1>1. /\ Len(a) \in Nat /\ Len(b) \in Nat /\ a \o b \in Seq(S) /\ Len(a \o b) = Len(a) + Len(b)
      /\ \A i \in 1 .. Len(a) + Len(b) : (a \o b)[i] = IF i <= Len(a) THEN a[i] ELSE b[i - Len(a)]
  BY LenProperties, ConcatProperties
<1>2. SubSeq(a \o b, 1, Len(a)) = a
  <2>1. \A i \in 1 .. Len(a) : (a \o b)[i] = a[i] /\ (a \o b)[i] \in S
    BY <1>1, ElementOfSeq
  <2>2. /\ SubSeq(a \o b, 1, Len(a)) \in Seq(S)
        /\ Len(SubSeq(a \o b, 1, Len(a))) = Len(a)
        /\ \A i \in 1 .. Len(a) : SubSeq(a \o b, 1, Len(a))[i] = (a \o b)[i]
    BY <1>1, <2>1, SubSeqProperties
  <2> QED BY <2>1, <2>2, SeqEqual
<1>3. SubSeq(a, 1, Len(a)) = a /\ SubSeq(a, 1, 0) = <<>>
  BY <1>1, SubSeqFull, SubSeqEmpty
<1>4. Len(a) \in 0 .. Len(a \o b) /\ Len(a) \in 0 .. Len(a) /\ 0 \in 0 .. Len(a)
  BY <1>1
<1> QED BY <1>2, <1>3, <1>4 DEF Prefixes

LEMMA PrefixGrows ==
    ASSUME NEW S, NEW whole \in Seq(S), NEW x \in S, NEW part \in Prefixes(whole)
    PROVE  part \in Seq(S) /\ part \in Prefixes(Append(whole, x))
<1>1. PICK k \in 0 .. Len(whole) : part = SubSeq(whole, 1, k)
  BY DEF Prefixes
<1>2. /\ Len(whole) \in Nat /\ Append(whole, x) \in Seq(S)
      /\ Len(Append(whole, x)) = Len(whole) + 1
      /\ \A i \in 1 .. Len(whole) : Append(whole, x)[i] = whole[i] /\ whole[i] \in S
  BY LenProperties, AppendProperties, ElementOfSeq
<1>3. \A i \in 1 .. k : whole[i] \in S /\ Append(whole, x)[i] \in S /\ Append(whole, x)[i] = whole[i]
  BY <1>2
<1>4. /\ part \in Seq(S) /\ Len(part) = k /\ \A i \in 1 .. k : part[i] = whole[i]
  BY <1>1, <1>3, SubSeqProperties
<1> DEFINE same == SubSeq(Append(whole, x), 1, k)
<1>5. /\ same \in Seq(S) /\ Len(same) = k
      /\ \A i \in 1 .. k : same[i] = whole[i]
  BY <1>1, <1>3, SubSeqProperties
<1> HIDE DEF same
<1>6. part = same
  BY <1>4, <1>5, SeqEqual
<1>7. k \in 0 .. Len(Append(whole, x))
  BY <1>2
<1> QED BY <1>4, <1>6, <1>7 DEF Prefixes, same
-----------------------------------------------------------------------------
(* The streams.                                                            *)

Whole(s) == (Delivered(Peer(s)) \o InHand(s)) \o inbox[s] = Due(s)

LEMMA StreamsTyped ==
    ASSUME TypeOK, ThreadInvariant, NEW s \in Sides
    PROVE  /\ Delivered(s) \in Seq(Sent) /\ InHand(s) \in Seq(Sent) /\ inbox[s] \in Seq(Sent)
           /\ inbox[s] \in Seq(Chunks) /\ outbox[s] \in Seq(Sent) /\ got[s] \in Seq(Sent)
           /\ ToRelay(s) \in Seq(Sent) /\ Announced(s) \in Seq(Sent) /\ Due(s) \in Seq(Sent)
           /\ wrote[s] \in Nat /\ Len(ToRelay(s)) = wrote[s] - First(s) + 1
           /\ First(s) \in {1, 2} /\ Len(ToRelay(s)) \in Nat
           /\ \A i \in 1 .. Len(ToRelay(s)) : ToRelay(s)[i] = <<s, First(s) + i - 1>>
           /\ <<Established>> \in Seq(Sent) /\ <<>> \in Seq(Sent)
<1>1. /\ inbox[s] \in Seq(Chunks) /\ outbox[s] \in Seq(Sent) /\ got[s] \in Seq(Sent)
      /\ wrote[s] \in 0 .. MaxChunks /\ wrote[s] \in Nat
  BY BoundsArePositive DEF TypeOK
<1>2. inbox[s] \in Seq(Sent) /\ Delivered(s) \in Seq(Sent)
  BY <1>1, ChunkTyped, SeqMonotonic, ConcatProperties DEF Delivered
<1>3. InHand(s) \in Seq(Sent)
  <2>1. hand \in Sent => <<hand>> \in Seq(Sent)
    OBVIOUS
  <2>2. <<>> \in Seq(Sent)
    BY EmptySeq
  <2>3. pc = "send" \/ (pc = "connect" /\ kind = "http") => hand \in Sent
    BY ChunkTyped DEF ThreadInvariant
  <2> QED BY <2>1, <2>2, <2>3 DEF InHand
<1>4. First(s) \in {1, 2} /\ wrote[s] - First(s) + 1 \in Nat
  BY <1>1 DEF First, ThreadInvariant
<1> DEFINE k == wrote[s] - First(s) + 1
           list == [i \in 1 .. k |-> <<s, First(s) + i - 1>>]
<1>5. \A i \in 1 .. k : <<s, First(s) + i - 1>> \in Sent
  <2> TAKE i \in 1 .. k
  <2>1. First(s) + i - 1 \in 1 .. MaxChunks
    BY <1>1, <1>4, BoundsArePositive
  <2> QED BY <2>1, ChunkTyped
<1>6. /\ list \in Seq(Sent) /\ Len(list) = k /\ \A i \in 1 .. k : list[i] = <<s, First(s) + i - 1>>
  <2>1. list \in [1 .. k -> Sent]
    BY <1>5
  <2> HIDE DEF k
  <2>2. k \in Nat
    BY <1>4 DEF k
  <2> QED BY <2>1, <2>2
<1>7. Announced(s) \in Seq(Sent) /\ <<Established>> \in Seq(Sent) /\ <<>> \in Seq(Sent)
  <2>1. Established \in Sent => <<Established>> \in Seq(Sent)
    OBVIOUS
  <2> QED BY <2>1, ChunkTyped, EmptySeq DEF Announced
<1>8. ToRelay(s) = list
  BY DEF ToRelay
<1> HIDE DEF list
<1>9. Due(s) \in Seq(Sent)
  BY <1>6, <1>7, <1>8, ConcatProperties DEF Due
<1> QED BY <1>1, <1>2, <1>3, <1>4, <1>6, <1>7, <1>8, <1>9

\* As long as the connection lasts, what an end was given is a beginning of what
\* is due to it.
LEMMA BeginningGiven ==
    ASSUME TypeOK, ThreadInvariant, NEW s \in Sides, Whole(s)
    PROVE  Delivered(Peer(s)) \in Prefixes(Due(s))
<1> DEFINE d == Delivered(Peer(s))
           h == InHand(s)
           i == inbox[s]
<1>1. d \in Seq(Sent) /\ h \in Seq(Sent) /\ i \in Seq(Sent)
  BY StreamsTyped, PeerTyped
<1>2. (d \o h) \o i = Due(s)
  BY DEF Whole
<1> HIDE DEF d, h, i
<1>3. h \o i \in Seq(Sent) /\ (d \o h) \o i = d \o (h \o i)
  BY <1>1, ConcatProperties, ConcatAssociative
<1>4. d \in Prefixes(d \o (h \o i))
  BY <1>1, <1>3, PrefixesOfConcat
<1> QED BY <1>2, <1>3, <1>4 DEF d

LEMMA WholeWhileOpen == NothingLost <=> (pc \notin {"error", "closed"} => \A s \in Sides : Whole(s))
BY DEF NothingLost, Whole

LEMMA WholeWhileOpenPrimed ==
    NothingLost' <=> (pc' \notin {"error", "closed"} => \A s \in Sides : Whole(s)')
BY DEF NothingLost, Whole

\* What the properties say, and what an end and the thread may rely on.
StreamProperties == StreamsAreWhole /\ CleanEndsAreComplete

\* Reading, shutting down and aborting leave the streams as they are.
LEMMA EndsKeepStreams ==
    ASSUME TypeOK, ThreadInvariant, StreamProperties,
           UNCHANGED <<thread, inbox, wrote>>,
           \A s \in Sides : /\ Delivered(s)' = Delivered(s)
                            /\ conn'[s] = "none" <=> conn[s] = "none"
                            /\ conn[s] = "reset" => conn'[s] = "reset"
    PROVE  StreamProperties'
<1>1. \A s \in Sides : Due(s)' = Due(s) /\ InHand(s)' = InHand(s)
  BY DEF Due, Announced, ToRelay, First, InHand, thread
<1>2. \A s \in Sides : Whole(s)' <=> Whole(s)
  BY <1>1, PeerTyped DEF Whole, Delivered
<1>3. NothingLost'
  BY <1>2, WholeWhileOpen, WholeWhileOpenPrimed DEF StreamProperties, StreamsAreWhole, thread
<1>4. CutOff => CutOff'
  BY <1>1, PeerTyped DEF CutOff, thread
<1>5. BeginningsArrive'
  BY <1>1, <1>4, PeerTyped DEF BeginningsArrive, StreamProperties, StreamsAreWhole, thread
<1>6. CleanEndsAreComplete'
  BY <1>1, PeerTyped DEF CleanEndsAreComplete, StreamProperties, thread
<1> QED BY <1>3, <1>5, <1>6 DEF StreamProperties, StreamsAreWhole

LEMMA ReadKeepsStreams ==
    ASSUME TypeOK, ThreadInvariant, StreamProperties, NEW s \in Sides, Read(s)
    PROVE  StreamProperties'
<1>1. /\ got[s] \in Seq(Sent) /\ outbox[s] \in Seq(Sent) /\ outbox[s] # <<>>
      /\ got' = [got EXCEPT ![s] = Append(got[s], Head(outbox[s]))]
      /\ outbox' = [outbox EXCEPT ![s] = Tail(outbox[s])]
  BY StreamsTyped DEF Read
<1>2. got'[s] \o outbox'[s] = got[s] \o outbox[s]
  <2> DEFINE a == got[s]
             b == outbox[s]
  <2>1. got'[s] = Append(a, Head(b)) /\ outbox'[s] = Tail(b)
    BY <1>1 DEF TypeOK
  <2>2. a \in Seq(Sent) /\ b \in Seq(Sent) /\ b # <<>>
    BY <1>1
  <2> HIDE DEF a, b
  <2>3. Append(a, Head(b)) \o Tail(b) = a \o b
    BY <2>2, HeadMoves
  <2> QED BY <2>1, <2>3 DEF a, b
<1>3. \A t \in Sides : Delivered(t)' = Delivered(t)
  BY <1>1, <1>2 DEF Delivered, TypeOK
<1> QED BY <1>3, EndsKeepStreams DEF Read

LEMMA WriteKeepsStreams ==
    ASSUME TypeOK, ThreadInvariant, StreamProperties, NEW s \in Sides, Write(s)
    PROVE  StreamProperties'
<1> DEFINE chunk == <<s, wrote[s] + 1>>
<1>1. /\ chunk \in Chunks /\ wrote[s] \in Nat /\ chunk \in Sent
      /\ wrote' = [wrote EXCEPT ![s] = wrote[s] + 1]
      /\ inbox' = [inbox EXCEPT ![s] = Append(@, chunk)]
      /\ pc # "closed" /\ UNCHANGED <<thread, conn, outbox, got>>
  BY WriteTyped, ChunkTyped DEF Write
<1>2. /\ inbox'[s] = Append(inbox[s], chunk)
      /\ \A t \in Sides \ {s} : inbox'[t] = inbox[t] /\ wrote'[t] = wrote[t]
      /\ wrote'[s] = wrote[s] + 1
  BY <1>1 DEF TypeOK
<1>3. \A t \in Sides : /\ InHand(t)' = InHand(t) /\ Delivered(t)' = Delivered(t)
                       /\ Announced(t)' = Announced(t) /\ First(t)' = First(t)
  BY <1>1 DEF InHand, Delivered, Announced, First, thread
<1>4. ToRelay(s)' = Append(ToRelay(s), chunk)
  <2> DEFINE k == wrote[s] - First(s) + 1
             more == [i \in 1 .. k + 1 |-> <<s, First(s) + i - 1>>]
  <2>1. /\ ToRelay(s) \in Seq(Sent) /\ Len(ToRelay(s)) = k /\ k \in Nat /\ First(s) \in {1, 2}
        /\ \A i \in 1 .. k : ToRelay(s)[i] = <<s, First(s) + i - 1>>
    BY StreamsTyped
  <2>2. ToRelay(s)' = more
    <3>1. wrote'[s] - First(s) + 1 = k + 1
      BY <1>1, <1>2, <2>1
    <3> QED BY <1>3, <3>1 DEF ToRelay
  <2>3. First(s) + (k + 1) - 1 = wrote[s] + 1
    BY <1>1, <2>1
  <2> HIDE DEF k
  <2>4. /\ Append(ToRelay(s), chunk) \in Seq(Sent) /\ Len(Append(ToRelay(s), chunk)) = k + 1
        /\ \A i \in 1 .. k : Append(ToRelay(s), chunk)[i] = <<s, First(s) + i - 1>>
        /\ Append(ToRelay(s), chunk)[k + 1] = chunk
    <3> DEFINE t == ToRelay(s)
    <3>1. t \in Seq(Sent) /\ Len(t) = k /\ \A i \in 1 .. k : t[i] = <<s, First(s) + i - 1>>
      BY <2>1
    <3> HIDE DEF t, chunk
    <3>2. /\ Append(t, chunk) \in Seq(Sent) /\ Len(Append(t, chunk)) = k + 1
          /\ \A i \in 1 .. k : Append(t, chunk)[i] = t[i]
          /\ Append(t, chunk)[k + 1] = chunk
      BY <1>1, <3>1, AppendProperties
    <3> QED BY <3>1, <3>2 DEF t
  <2>5. \A i \in 1 .. k + 1 : Append(ToRelay(s), chunk)[i] = more[i]
    <3> TAKE i \in 1 .. k + 1
    <3>1. CASE i = k + 1
      BY <2>3, <2>4, <3>1
    <3>2. CASE i \in 1 .. k
      BY <2>4, <3>2
    <3> QED BY <2>1, <3>1, <3>2
  <2>6. more \in Seq(Sent) /\ Len(more) = k + 1
    <3>1. \A i \in 1 .. k + 1 : more[i] \in Sent
      BY <2>1, <2>4, <2>5, ElementOfSeq
    <3>2. more \in [1 .. k + 1 -> Sent] /\ k + 1 \in Nat
      BY <2>1, <3>1
    <3> HIDE DEF more
    <3> QED BY <3>2
  <2> HIDE DEF more
  <2> QED BY <2>2, <2>4, <2>5, <2>6, SeqEqual
<1>5. Due(s)' = Append(Due(s), chunk)
  <2> DEFINE a == Announced(s)
             b == ToRelay(s)
  <2>1. a \in Seq(Sent) /\ b \in Seq(Sent) /\ Due(s) = a \o b
    BY StreamsTyped DEF Due
  <2>2. Due(s)' = a \o Append(b, chunk)
    BY <1>3, <1>4 DEF Due
  <2> HIDE DEF a, b, chunk
  <2>3. a \o Append(b, chunk) = Append(a \o b, chunk)
    BY <1>1, <2>1, AppendMoves
  <2> QED BY <2>1, <2>2, <2>3
<1>6. \A t \in Sides \ {s} : Due(t)' = Due(t)
  BY <1>2, <1>3 DEF Due, ToRelay
<1>7. Whole(s) => Whole(s)'
  <2> DEFINE a == Delivered(Peer(s)) \o InHand(s)
             b == inbox[s]
  <2>1. a \in Seq(Sent) /\ b \in Seq(Sent) /\ (Whole(s) <=> a \o b = Due(s))
    <3>1. Delivered(Peer(s)) \in Seq(Sent) /\ InHand(s) \in Seq(Sent) /\ b \in Seq(Sent)
      BY StreamsTyped, PeerTyped
    <3> QED BY <3>1, ConcatProperties DEF Whole
  <2>2. Delivered(Peer(s))' = Delivered(Peer(s))
    BY <1>3, PeerTyped
  <2>3. Whole(s)' <=> a \o Append(b, chunk) = Append(Due(s), chunk)
    BY <1>2, <1>3, <1>5, <2>2 DEF Whole
  <2> HIDE DEF a, b, chunk
  <2>4. a \o Append(b, chunk) = Append(a \o b, chunk)
    BY <1>1, <2>1, AppendMoves
  <2> QED BY <2>1, <2>3, <2>4
<1>8. \A t \in Sides \ {s} : Whole(t) => Whole(t)'
  <2> TAKE t \in Sides \ {s}
  <2>1. Whole(t)' <=> (Delivered(Peer(t))' \o InHand(t)') \o inbox'[t] = Due(t)'
    BY DEF Whole
  <2> QED BY <1>2, <1>3, <1>6, <2>1, PeerTyped DEF Whole
<1>9. NothingLost'
  BY <1>1, <1>7, <1>8, WholeWhileOpen, WholeWhileOpenPrimed
     DEF StreamProperties, StreamsAreWhole, thread
<1>10. BeginningsArrive'
  <2>1. ASSUME NEW t \in Sides, NEW part \in Prefixes(Due(t)) PROVE part \in Prefixes(Due(t)')
    <3>1. Due(t) \in Seq(Sent) /\ chunk \in Sent
      BY <1>1, StreamsTyped
    <3> HIDE DEF chunk
    <3>2. part \in Prefixes(Append(Due(t), chunk))
      BY <3>1, PrefixGrows
    <3>3. Due(t)' = Due(t) \/ Due(t)' = Append(Due(t), chunk)
      BY <1>5, <1>6
    <3> QED BY <3>2, <3>3
  <2>2. ~ CutOff
    BY <1>1 DEF CutOff
  <2> QED BY <1>1, <1>3, <2>1, <2>2, PeerTyped
          DEF BeginningsArrive, StreamProperties, StreamsAreWhole, thread
<1>11. CleanEndsAreComplete'
  BY <1>1 DEF CleanEndsAreComplete, thread
<1> QED BY <1>9, <1>10, <1>11 DEF StreamProperties, StreamsAreWhole

LEMMA NothingGivenYet ==
    ASSUME TypeOK, ThreadInvariant, pc \in {"request", "connect"}, NEW s \in Sides
    PROVE  Delivered(s) = <<>> /\ Announced(s) = <<>> /\ Due(s) = ToRelay(s)
<1>1. got[s] = <<>> /\ outbox[s] = <<>> /\ <<>> \o <<>> = <<>>
  BY DEF ThreadInvariant
<1>2. Announced(s) = <<>>
  BY DEF Announced, ThreadInvariant
<1>3. ToRelay(s) \in Seq(Sent)
  BY StreamsTyped
<1> HIDE DEF ToRelay
<1>4. <<>> \o ToRelay(s) = ToRelay(s)
  BY <1>3, ConcatEmptySeq
<1> QED BY <1>1, <1>2, <1>4 DEF Delivered, Due

\* The thread gives up: what it has passed on is a beginning of what was due.
LEMMA StoppingCutsOff ==
    ASSUME TypeOK, ThreadInvariant, StreamProperties,
           pc \notin {"error", "closed"}, pc' \in {"error", "closed"},
           UNCHANGED <<got, outbox, wrote, kind>>
    PROVE  StreamsAreWhole'
<1>1. \A s \in Sides : Delivered(s)' = Delivered(s)
  BY DEF Delivered
<1>2. \A s \in Sides : Whole(s)
  BY WholeWhileOpen DEF StreamProperties, StreamsAreWhole
<1>3. ASSUME NEW s \in Sides PROVE Delivered(Peer(s)) \in Prefixes(Due(s)')
  <2>1. CASE pc # "connect"
    <3>1. Due(s)' = Due(s)
      BY <2>1 DEF Due, Announced, ToRelay, First
    <3> QED BY <1>2, <3>1, BeginningGiven
  <2>2. CASE pc = "connect"
    <3>1. Delivered(Peer(s)) = <<>>
      BY <2>2, NothingGivenYet, PeerTyped
    <3>2. Announced(s)' \in Seq(Sent) /\ ToRelay(s)' = ToRelay(s) /\ ToRelay(s) \in Seq(Sent)
      BY StreamsTyped DEF Announced, ToRelay, First
    <3>3. Due(s)' \in Seq(Sent)
      BY <3>2, ConcatProperties DEF Due
    <3> QED BY <3>1, <3>3, PrefixesOfConcat
  <2> QED BY <2>1, <2>2
<1>4. BeginningsArrive'
  <2>1. Delivered("server") \in Prefixes(Due("client")') /\ Delivered("client") \in Prefixes(Due("server")')
    BY <1>3, PeerTyped
  <2>2. Delivered("server")' = Delivered("server") /\ Delivered("client")' = Delivered("client")
    BY <1>1, PeerTyped
  <2> QED BY <2>1, <2>2 DEF BeginningsArrive
<1>5. NothingLost'
  BY DEF NothingLost
<1> QED BY <1>4, <1>5 DEF StreamsAreWhole

\* An end of the connection that has a cause need not be complete.
LEMMA CauseExcuses ==
    ASSUME pc' # "closed" \/ conn'["server"] = "none" \/ \E s \in Sides : conn'[s] = "reset"
    PROVE  CleanEndsAreComplete'
BY DEF CleanEndsAreComplete

LEMMA RequestKeepsStreams ==
    ASSUME TypeOK, ThreadInvariant, StreamProperties, Request
    PROVE  StreamProperties' /\ (inbox["client"] # <<>> => wrote["client"] >= 1)
<1>0. /\ pc = "request" /\ kind = "none" /\ conn["server"] = "none"
      /\ UNCHANGED <<todo, conn, outbox, got, wrote>>
  BY DEF Request, ThreadInvariant
<1>1. CleanEndsAreComplete'
  BY <1>0, CauseExcuses
<1>2. ASSUME NEW s \in Sides PROVE inbox[s] = ToRelay(s) /\ InHand(s) = <<>>
  <2>1. Whole(s)
    BY <1>0, WholeWhileOpen DEF StreamProperties, StreamsAreWhole
  <2>2. /\ Delivered(Peer(s)) = <<>> /\ Due(s) = ToRelay(s) /\ InHand(s) = <<>>
        /\ inbox[s] \in Seq(Sent)
    BY <1>0, NothingGivenYet, StreamsTyped, PeerTyped DEF InHand
  <2> DEFINE i == inbox[s]
  <2> HIDE DEF i
  <2>3. (<<>> \o <<>>) \o i = i
    BY <2>2, ConcatEmptySeq DEF i
  <2> QED BY <2>1, <2>2, <2>3 DEF Whole, i
<1>3. /\ First("client") = 1 /\ Len(ToRelay("client")) = wrote["client"]
      /\ wrote["client"] \in Nat /\ inbox["client"] = ToRelay("client")
      /\ inbox["client"] \in Seq(Chunks) /\ inbox["client"] \in Seq(Sent)
      /\ \A i \in 1 .. wrote["client"] : ToRelay("client")[i] = <<"client", i>>
  <2>1. First("client") = 1
    BY <1>0 DEF First
  <2>2. Len(ToRelay("client")) = wrote["client"] - 1 + 1 /\ wrote["client"] \in Nat
    BY <2>1, StreamsTyped, PeerTyped
  <2>3. \A i \in 1 .. wrote["client"] : ToRelay("client")[i] = <<"client", 1 + i - 1>>
    <3>1. Len(ToRelay("client")) = wrote["client"]
      BY <2>2
    <3>2. \A i \in 1 .. Len(ToRelay("client")) :
              ToRelay("client")[i] = <<"client", First("client") + i - 1>>
      BY StreamsTyped, PeerTyped
    <3> DEFINE n == wrote["client"]
    <3>3. \A i \in 1 .. n : ToRelay("client")[i] = <<"client", First("client") + i - 1>>
      BY <3>1, <3>2
    <3> QED BY <2>1, <3>3
  <2>4. wrote["client"] - 1 + 1 = wrote["client"] /\ \A i \in 1 .. wrote["client"] : 1 + i - 1 = i
    BY <2>2
  <2>5. Len(ToRelay("client")) = wrote["client"]
    BY <2>2, <2>4
  <2>6. \A i \in 1 .. wrote["client"] : ToRelay("client")[i] = <<"client", i>>
    BY <2>3, <2>4
  <2> QED BY <1>2, <2>1, <2>2, <2>5, <2>6, StreamsTyped, PeerTyped
<1>4. inbox["client"] # <<>> => wrote["client"] >= 1
  BY <1>3, EmptySeq
<1>5. CASE /\ inbox["client"] # <<>> /\ pc' = "connect"
           /\ \/ kind' = "tunnel" /\ UNCHANGED hand
              \/ kind' = "http" /\ hand' = Head(inbox["client"])
           /\ inbox' = [inbox EXCEPT !["client"] = Tail(@)]
  <2>1. /\ inbox'["client"] = Tail(inbox["client"]) /\ inbox'["server"] = inbox["server"]
    BY <1>5, PeerTyped DEF TypeOK
  <2>2. \A s \in Sides : Delivered(s)' = <<>> /\ Delivered(s) = <<>> /\ Announced(s)' = <<>>
    BY <1>0, <1>5, NothingGivenYet DEF Delivered, Announced
  <2>3. Whole("server")'
    <3>1. /\ InHand("server")' = <<>> /\ Due("server")' = Due("server") /\ InHand("server") = <<>>
      BY <1>0, <1>2, <1>5, PeerTyped DEF InHand, Due, Announced, ToRelay, First
    <3>2. Whole("server")
      BY <1>0, WholeWhileOpen, PeerTyped DEF StreamProperties, StreamsAreWhole
    <3> QED BY <2>1, <2>2, <3>1, <3>2, PeerTyped DEF Whole
  <2> DEFINE i == inbox["client"]
             d == ToRelay("client")'
  <2>4. /\ Head(i) \in Chunks /\ Head(i) \in Sent /\ Tail(i) \in Seq(Sent)
        /\ Len(Tail(i)) = wrote["client"] - 1
        /\ \A j \in 1 .. wrote["client"] - 1 : Tail(i)[j] = <<"client", j + 1>>
    <3>1. /\ Head(i) \in Chunks /\ Tail(i) \in Seq(Sent) /\ Len(Tail(i)) = Len(i) - 1
          /\ \A j \in 1 .. Len(Tail(i)) : Tail(i)[j] = i[j + 1]
      BY <1>3, <1>5, HeadTailProperties
    <3> QED BY <1>3, <3>1, ChunkTyped
  <2>5. ASSUME kind' = "tunnel" PROVE Whole("client")'
    <3>1. d = Tail(i)
      <4>1. First("client")' = 2 /\ wrote' = wrote
        BY <1>0, <2>5 DEF First
      <4> DEFINE k == wrote["client"] - 1
                 list == [j \in 1 .. k |-> <<"client", 2 + j - 1>>]
      <4>2. d = list
        <5>1. wrote["client"] - 2 + 1 = k
          BY <1>3
        <5> QED BY <4>1, <5>1 DEF ToRelay
      <4>3. \A j \in 1 .. k : list[j] = Tail(i)[j] /\ list[j] \in Sent
        <5> TAKE j \in 1 .. k
        <5>1. 2 + j - 1 = j + 1 /\ k = Len(Tail(i))
          BY <1>3, <2>4
        <5>2. list[j] = <<"client", j + 1>>
          BY <5>1
        <5>3. Tail(i)[j] = <<"client", j + 1>>
          BY <2>4
        <5> HIDE DEF i, list
        <5>4. Tail(i)[j] \in Sent
          BY <2>4, <5>1, ElementOfSeq
        <5> QED BY <5>2, <5>3, <5>4
      <4>4. k \in Nat /\ list \in [1 .. k -> Sent]
        <5>1. k \in Nat
          BY <1>3, <1>4, <1>5
        <5> HIDE DEF k
        <5> QED BY <4>3, <5>1
      <4> HIDE DEF list, k, i
      <4>5. list \in Seq(Sent) /\ Len(list) = k /\ Len(Tail(i)) = k
        <5>1. list \in Seq(Sent) /\ Len(list) = k
          BY <4>4
        <5>2. Len(Tail(i)) = k
          BY <2>4 DEF k
        <5> QED BY <5>1, <5>2
      <4> QED BY <2>4, <4>2, <4>3, <4>5, SeqEqual
    <3>2. InHand("client")' = <<>>
      BY <1>5, <2>5 DEF InHand
    <3>3. Due("client")' = <<>> \o d
      BY <2>2, PeerTyped DEF Due
    <3>4. Whole("client")' <=> (<<>> \o <<>>) \o Tail(i) = <<>> \o d
      BY <2>1, <2>2, <3>2, <3>3, PeerTyped DEF Whole
    <3> HIDE DEF i, d
    <3> QED BY <2>4, <3>1, <3>4, ConcatEmptySeq
  <2>6. ASSUME kind' = "http", hand' = Head(i) PROVE Whole("client")'
    <3>1. d = i
      BY <1>0, <1>3, <2>6 DEF ToRelay, First
    <3>2. InHand("client")' = <<Head(i)>>
      BY <1>5, <2>6 DEF InHand
    <3>3. Due("client")' = <<>> \o d
      BY <2>2, PeerTyped DEF Due
    <3>4. Whole("client")' <=> (<<>> \o <<Head(i)>>) \o Tail(i) = <<>> \o d
      BY <2>1, <2>2, <3>2, <3>3, PeerTyped DEF Whole
    <3>5. i \in Seq(Sent) /\ i # <<>>
      BY <1>3, <1>5
    <3> HIDE DEF i, d
    <3>6. <<Head(i)>> \o Tail(i) = i /\ <<Head(i)>> \in Seq(Sent)
      BY <2>4, <3>5, HeadMoves
    <3>7. <<>> \o <<Head(i)>> = <<Head(i)>> /\ <<>> \o i = i
      BY <3>5, <3>6, ConcatEmptySeq
    <3> QED BY <3>1, <3>4, <3>6, <3>7
  <2>7. NothingLost'
    BY <1>5, <2>3, <2>5, <2>6, WholeWhileOpenPrimed DEF Sides
  <2>8. BeginningsArrive'
    BY <1>5 DEF BeginningsArrive
  <2> QED BY <1>1, <1>4, <2>7, <2>8 DEF StreamProperties, StreamsAreWhole
<1>6. CASE pc' = "closed" /\ kind' = kind
  BY <1>0, <1>1, <1>4, <1>6, StoppingCutsOff DEF StreamProperties
<1> QED BY <1>5, <1>6 DEF Request

LEMMA EndingKeepsStreams ==
    ASSUME TypeOK, ThreadInvariant, StreamProperties, NEW s \in Sides, ShutDown(s) \/ Reset(s)
    PROVE  StreamProperties'
<1>1. UNCHANGED <<thread, inbox, wrote, got, outbox>>
  BY DEF ShutDown, Reset, streams
<1>2. \A t \in Sides : /\ Delivered(t)' = Delivered(t)
                       /\ (conn'[t] = "none" <=> conn[t] = "none")
                       /\ conn[t] = "reset" => conn'[t] = "reset"
  BY <1>1 DEF Delivered, ShutDown, Reset, TypeOK
<1> QED BY <1>1, <1>2, EndsKeepStreams

LEMMA ConnectKeepsStreams ==
    ASSUME TypeOK, ThreadInvariant, StreamProperties, Connect
    PROVE  StreamProperties'
<1>0. /\ pc = "connect" /\ conn["server"] = "none"
      /\ inbox["server"] = <<>> /\ wrote["server"] = 0
      /\ UNCHANGED <<kind, inbox, got, wrote>>
  BY DEF Connect, ThreadInvariant
<1>1. \A s \in Sides : /\ Whole(s) /\ Delivered(s) = <<>> /\ Due(s) = ToRelay(s)
                       /\ got[s] = <<>> /\ outbox[s] = <<>>
                       /\ ToRelay(s)' = ToRelay(s) /\ ToRelay(s) \in Seq(Sent)
                       /\ inbox[s] \in Seq(Sent)
  BY <1>0, WholeWhileOpen, NothingGivenYet, StreamsTyped
     DEF StreamProperties, StreamsAreWhole, ThreadInvariant, ToRelay, First
<1>2. ToRelay("server") = <<>>
  <2>1. First("server") = 1
    BY DEF First
  <2>2. Len(ToRelay("server")) = 0 - 1 + 1
    BY <1>0, <2>1, StreamsTyped, PeerTyped
  <2>3. Len(ToRelay("server")) = 0
    BY <2>2
  <2> QED BY <1>1, <2>3, PeerTyped, EmptySeq
<1>3. CASE /\ kind = "tunnel" /\ Put("client", Established) /\ pc' = "select"
  <2>1. outbox'["client"] = <<Established>> /\ outbox'["server"] = <<>>
    <3>1. outbox \in [Sides -> Seq(Sent)]
      BY DEF TypeOK
    <3>2. Append(<<>>, Established) = <<Established>>
      OBVIOUS
    <3> QED BY <1>1, <1>3, <3>1, <3>2, PeerTyped DEF Put
  <2>2. \A s \in Sides : InHand(s) = <<>> /\ InHand(s)' = <<>>
    BY <1>0, <1>3 DEF InHand
  <2>3. /\ Announced("server")' = <<Established>> /\ Announced("client")' = <<>>
    BY <1>0, <1>3 DEF Announced
  <2> DEFINE t == ToRelay("client")
             i == inbox["client"]
  <2>4. t \in Seq(Sent) /\ i \in Seq(Sent) /\ (<<>> \o <<>>) \o i = t
    BY <1>1, <2>2, PeerTyped DEF Whole
  <2>5. Whole("client")'
    <3>1. Whole("client")' <=> ((<<>> \o <<>>) \o <<>>) \o i = <<>> \o t
      BY <1>0, <1>1, <2>1, <2>2, <2>3, PeerTyped DEF Whole, Delivered, Due
    <3> HIDE DEF t, i
    <3>2. <<>> \o t = t /\ <<>> \o <<>> = <<>>
      BY <2>4, ConcatEmptySeq
    <3> QED BY <2>4, <3>1, <3>2
  <2>6. Whole("server")'
    <3>1. Whole("server")' <=>
              ((<<>> \o <<Established>>) \o <<>>) \o <<>> = <<Established>> \o <<>>
      BY <1>0, <1>1, <1>2, <2>1, <2>2, <2>3, PeerTyped DEF Whole, Delivered, Due
    <3> DEFINE e == <<Established>>
    <3>2. e \in Seq(Sent)
      BY ChunkTyped
    <3> HIDE DEF e
    <3>3. <<>> \o e = e /\ e \o <<>> = e
      BY <3>2, ConcatEmptySeq
    <3>4. ((<<>> \o e) \o <<>>) \o <<>> = e \o <<>>
      BY <3>3
    <3> QED BY <3>1, <3>4 DEF e
  <2>7. NothingLost'
    BY <2>5, <2>6, WholeWhileOpenPrimed DEF Sides
  <2>8. BeginningsArrive' /\ CleanEndsAreComplete'
    BY <1>3 DEF BeginningsArrive, CleanEndsAreComplete
  <2> QED BY <2>7, <2>8 DEF StreamProperties, StreamsAreWhole
<1>4. CASE /\ kind = "http" /\ Put("server", hand) /\ pc' = "reply"
  <2>1. outbox'["server"] = <<hand>> /\ outbox'["client"] = <<>>
    <3>1. outbox \in [Sides -> Seq(Sent)]
      BY DEF TypeOK
    <3>2. Append(<<>>, hand) = <<hand>>
      OBVIOUS
    <3> QED BY <1>1, <1>4, <3>1, <3>2, PeerTyped DEF Put
  <2>2. /\ InHand("client") = <<hand>> /\ InHand("server") = <<>>
        /\ InHand("client")' = <<>> /\ InHand("server")' = <<>>
    BY <1>0, <1>4 DEF InHand
  <2>3. Announced("server")' = <<>> /\ Announced("client")' = <<>>
    BY <1>0, <1>4 DEF Announced
  <2> DEFINE t == ToRelay("client")
             i == inbox["client"]
             h == <<hand>>
  <2>4. t \in Seq(Sent) /\ i \in Seq(Sent) /\ h \in Seq(Sent) /\ (<<>> \o h) \o i = t
    <3>1. hand \in Sent => h \in Seq(Sent)
      OBVIOUS
    <3>2. hand \in Sent
      BY <1>0, <1>4, ChunkTyped DEF ThreadInvariant
    <3>3. (<<>> \o h) \o i = t
      BY <1>1, <2>2, PeerTyped DEF Whole
    <3> QED BY <1>1, <3>1, <3>2, <3>3, PeerTyped
  <2>5. Whole("client")'
    <3>1. Whole("client")' <=> ((<<>> \o h) \o <<>>) \o i = <<>> \o t
      BY <1>0, <1>1, <2>1, <2>2, <2>3, PeerTyped DEF Whole, Delivered, Due
    <3> HIDE DEF t, i, h
    <3>2. <<>> \o t = t /\ <<>> \o h = h /\ h \o <<>> = h
      BY <2>4, ConcatEmptySeq
    <3> QED BY <2>4, <3>1, <3>2
  <2>6. Whole("server")'
    <3>1. Whole("server")' <=> ((<<>> \o <<>>) \o <<>>) \o <<>> = <<>> \o <<>>
      BY <1>0, <1>1, <1>2, <2>1, <2>2, <2>3, PeerTyped DEF Whole, Delivered, Due
    <3>2. <<>> \o <<>> = <<>>
      OBVIOUS
    <3> QED BY <3>1, <3>2
  <2>7. NothingLost'
    BY <2>5, <2>6, WholeWhileOpenPrimed DEF Sides
  <2>8. BeginningsArrive' /\ CleanEndsAreComplete'
    BY <1>4 DEF BeginningsArrive, CleanEndsAreComplete
  <2> QED BY <2>7, <2>8 DEF StreamProperties, StreamsAreWhole
<1>5. CASE /\ Fail /\ UNCHANGED outbox
           /\ conn'["server"] = "none" \/ \E s \in Sides : conn'[s] = "reset"
  <2>1. pc' \in {"error", "closed"} /\ pc \notin {"error", "closed"}
    BY <1>0, <1>5 DEF Fail
  <2>2. CleanEndsAreComplete'
    BY <1>5, CauseExcuses
  <2> QED BY <1>0, <1>5, <2>1, <2>2, StoppingCutsOff DEF StreamProperties
<1>6. conn["client"] = "reset" /\ conn' = [conn EXCEPT !["server"] = "open"] =>
          conn'["client"] = "reset" /\ "client" \in Sides
  BY PeerTyped DEF TypeOK
<1>7. CASE Fail /\ UNCHANGED <<conn, outbox>>
  BY <1>0, <1>5, <1>7
<1>8. CASE Fail /\ UNCHANGED outbox /\ conn["client"] = "reset" /\ conn' = [conn EXCEPT !["server"] = "open"]
  BY <1>5, <1>6, <1>8
<1> QED BY <1>3, <1>4, <1>7, <1>8 DEF Connect

\* Between two chunks nothing is in the thread's hand.
LEMMA NothingInHand ==
    ASSUME TypeOK, ThreadInvariant, StreamProperties,
           pc \in {"select", "serve", "reply"}, pc' \in {"select", "serve", "reply"},
           UNCHANGED <<kind, inbox, outbox, got, wrote>>
    PROVE  StreamProperties'
<1>1. \A s \in Sides : Whole(s)'
  <2> TAKE s \in Sides
  <2>1. Whole(s)' <=> (Delivered(Peer(s))' \o InHand(s)') \o inbox'[s] = Due(s)'
    BY DEF Whole
  <2>2. InHand(s)' = <<>> /\ InHand(s) = <<>> /\ Due(s)' = Due(s)
    BY DEF InHand, Due, Announced, ToRelay, First
  <2>3. Delivered(Peer(s))' = Delivered(Peer(s))
    BY DEF Delivered
  <2>4. (Delivered(Peer(s)) \o InHand(s)) \o inbox[s] = Due(s)
    BY WholeWhileOpen DEF Whole, StreamProperties, StreamsAreWhole
  <2> QED BY <2>1, <2>2, <2>3, <2>4
<1> QED BY <1>1, WholeWhileOpenPrimed
        DEF StreamProperties, StreamsAreWhole, BeginningsArrive, CleanEndsAreComplete

LEMMA SelectKeepsStreams ==
    ASSUME TypeOK, ThreadInvariant, StreamProperties, Select
    PROVE  StreamProperties'
<1>1. /\ pc = "select" /\ kind = "tunnel" /\ UNCHANGED <<kind, hand, conn, streams>>
      /\ \/ pc' = "closed" /\ ReadableSides = <<>>
         \/ pc' = "serve"
      /\ UNCHANGED <<got, outbox, wrote, inbox>>
  BY DEF Select, ThreadInvariant, streams
<1>2. \A s \in Sides : /\ Delivered(s)' = Delivered(s) /\ Due(s)' = Due(s)
                       /\ Whole(s) /\ InHand(s) = <<>>
                       /\ Delivered(Peer(s)) \in Seq(Sent)
  BY <1>1, WholeWhileOpen, StreamsTyped, PeerTyped
     DEF Delivered, Due, Announced, ToRelay, First, InHand, StreamProperties, StreamsAreWhole
<1>3. CASE pc' = "serve"
  BY <1>1, <1>3, NothingInHand
<1>4. CASE pc' = "closed" /\ ReadableSides = <<>>
  <2>1. \A s \in Sides : inbox[s] = <<>>
    <3>1. /\ IfReadable("client") \in {<<>>, <<"client">>}
          /\ IfReadable("server") \in {<<>>, <<"server">>}
          /\ \A s \in Sides : inbox[s] # <<>> => IfReadable(s) = <<s>>
      BY DEF IfReadable, Readable
    <3>2. /\ <<"client">> \o <<>> = <<"client">> /\ <<>> \o <<"server">> = <<"server">>
          /\ <<"client">> \o <<"server">> # <<>>
      BY ReadsAreListed
    <3> QED BY <1>4, <3>1, <3>2, PeerTyped DEF ReadableSides, Sides
  <2>2. \A s \in Sides : Delivered(Peer(s)) = Due(s)
    <3> TAKE s \in Sides
    <3> DEFINE d == Delivered(Peer(s))
    <3>1. (d \o <<>>) \o <<>> = Due(s) /\ d \in Seq(Sent)
      BY <1>2, <2>1 DEF Whole
    <3> HIDE DEF d
    <3>2. d \o <<>> = d
      BY <3>1, ConcatEmptySeq
    <3> QED BY <3>1, <3>2 DEF d
  <2>3. CleanEndsAreComplete'
    BY <1>2, <2>2, PeerTyped DEF CleanEndsAreComplete
  <2>4. StreamsAreWhole'
    BY <1>1, <1>4, StoppingCutsOff
  <2> QED BY <2>3, <2>4 DEF StreamProperties
<1> QED BY <1>1, <1>3, <1>4

LEMMA ReceiveKeepsStreams ==
    ASSUME TypeOK, ThreadInvariant, StreamProperties, NEW s \in Sides, Receive(s),
           pc \in {"serve", "reply"}, Head(todo') = s
    PROVE  StreamProperties'
<1>1. /\ inbox[s] # <<>> /\ hand' = Head(inbox[s]) /\ pc' = "send"
      /\ inbox' = [inbox EXCEPT ![s] = Tail(@)]
      /\ UNCHANGED <<kind, conn, outbox, got, wrote>>
  BY DEF Receive
<1>2. inbox'[s] = Tail(inbox[s]) /\ \A t \in Sides \ {s} : inbox'[t] = inbox[t]
  BY <1>1 DEF TypeOK
<1>3. \A t \in Sides : /\ Delivered(t)' = Delivered(t) /\ Due(t)' = Due(t)
                       /\ InHand(t) = <<>> /\ Whole(t)
  BY <1>1, WholeWhileOpen
     DEF Delivered, Due, Announced, ToRelay, First, InHand, StreamProperties, StreamsAreWhole
<1>4. InHand(s)' = <<Head(inbox[s])>> /\ \A t \in Sides \ {s} : InHand(t)' = <<>>
  BY <1>1 DEF InHand
<1>5. Whole(s)'
  <2> DEFINE d == Delivered(Peer(s))
             i == inbox[s]
             h == <<Head(i)>>
  <2>1. d \in Seq(Sent) /\ i \in Seq(Sent) /\ i # <<>> /\ (d \o <<>>) \o i = Due(s)
    BY <1>1, <1>3, StreamsTyped, PeerTyped DEF Whole
  <2>2. d' = d
    BY <1>3, PeerTyped
  <2>3. Whole(s)' <=> (d \o h) \o Tail(i) = Due(s)
    BY <1>2, <1>3, <1>4, <2>2 DEF Whole
  <2> HIDE DEF d, i
  <2>4. h \o Tail(i) = i /\ h \in Seq(Sent) /\ Tail(i) \in Seq(Sent)
    <3>1. Head(i) \in Sent /\ Tail(i) \in Seq(Sent)
      BY <2>1, HeadTailProperties
    <3>2. h \in Seq(Sent)
      BY <3>1
    <3>3. h \o Tail(i) = i
      BY <2>1, HeadMoves
    <3> QED BY <3>1, <3>2, <3>3
  <2> DEFINE r == Tail(i)
  <2> HIDE DEF h, r
  <2>5. (d \o h) \o r = d \o (h \o r) /\ d \o <<>> = d
    <3>1. r \in Seq(Sent) /\ h \in Seq(Sent) /\ d \in Seq(Sent)
      BY <2>1, <2>4 DEF r
    <3>2. (d \o h) \o r = d \o (h \o r)
      BY <3>1, ConcatAssociative
    <3>3. d \o <<>> = d
      BY <3>1, ConcatEmptySeq
    <3> QED BY <3>2, <3>3
  <2> USE DEF r
  <2> QED BY <2>1, <2>3, <2>4, <2>5
<1>6. \A t \in Sides \ {s} : Whole(t)'
  <2> TAKE t \in Sides \ {s}
  <2>1. Delivered(Peer(t))' = Delivered(Peer(t))
    BY <1>3, PeerTyped
  <2>2. Whole(t)' <=> (Delivered(Peer(t))' \o InHand(t)') \o inbox'[t] = Due(t)'
    BY DEF Whole
  <2>3. (Delivered(Peer(t)) \o InHand(t)) \o inbox[t] = Due(t)
    BY <1>3 DEF Whole
  <2> QED BY <1>2, <1>3, <1>4, <2>1, <2>2, <2>3
<1>7. NothingLost'
  BY <1>5, <1>6, WholeWhileOpenPrimed
<1> QED BY <1>1, <1>7 DEF StreamProperties, StreamsAreWhole, BeginningsArrive, CleanEndsAreComplete

LEMMA BreakKeepsStreams ==
    ASSUME TypeOK, ThreadInvariant, StreamProperties, NEW s \in Sides, Break(s), pc \in Relaying
    PROVE  StreamProperties'
<1>1. /\ pc \notin {"error", "closed"} /\ pc' \in {"error", "closed"} /\ conn'[s] = "reset"
      /\ UNCHANGED <<got, outbox, wrote, kind>>
  BY DEF Break, Fail, Relaying, streams
<1> QED BY <1>1, StoppingCutsOff, CauseExcuses DEF StreamProperties

LEMMA ServeKeepsStreams ==
    ASSUME TypeOK, ThreadInvariant, StreamProperties, Serve
    PROVE  StreamProperties'
<1>1. Head(todo) \in Sides /\ pc = "serve" /\ pc \in Relaying
  BY TodoTyped, TypeParts DEF Serve, ThreadInvariant, Relaying
<1>2. CASE Receive(Head(todo)) /\ UNCHANGED todo
  BY <1>1, <1>2, ReceiveKeepsStreams
<1>3. CASE ReachEnd(Head(todo), "select")
  BY <1>1, <1>3, NothingInHand DEF ReachEnd, streams
<1>4. CASE Break(Head(todo))
  BY <1>1, <1>4, BreakKeepsStreams
<1> QED BY <1>2, <1>3, <1>4 DEF Serve

LEMMA ReplyKeepsStreams ==
    ASSUME TypeOK, ThreadInvariant, StreamProperties, Reply
    PROVE  StreamProperties'
<1>1. pc = "reply" /\ kind = "http" /\ pc \in Relaying
  BY DEF Reply, ThreadInvariant, Relaying
<1>2. CASE Receive("server") /\ todo' = <<"server">>
  BY <1>1, <1>2, PeerTyped, ReceiveKeepsStreams
<1>3. CASE ReachEnd("server", "closed")
  <2>1. /\ inbox["server"] = <<>> /\ pc' = "closed"
        /\ UNCHANGED <<kind, got, outbox, wrote, conn>>
    BY <1>3 DEF ReachEnd, streams
  <2>2. StreamsAreWhole'
    BY <1>1, <2>1, StoppingCutsOff
  <2> DEFINE d == Delivered("client")
  <2>3. (d \o <<>>) \o <<>> = Due("server") /\ d \in Seq(Sent)
    <3>1. Whole("server") /\ InHand("server") = <<>>
      BY <1>1, WholeWhileOpen, PeerTyped DEF InHand, StreamProperties, StreamsAreWhole
    <3> QED BY <2>1, <3>1, StreamsTyped, PeerTyped DEF Whole
  <2>4. d = Due("server")
    <3> HIDE DEF d
    <3>1. d \o <<>> = d
      BY <2>3, ConcatEmptySeq
    <3> QED BY <2>3, <3>1
  <2>5. Delivered("client")' = Due("server")'
    BY <1>1, <2>1, <2>4 DEF Delivered, Due, Announced, ToRelay, First
  <2>6. CleanEndsAreComplete'
    BY <1>1, <2>1, <2>5, PeerTyped DEF CleanEndsAreComplete, Sides
  <2> QED BY <2>2, <2>6 DEF StreamProperties
<1>4. CASE Break("server")
  BY <1>1, <1>4, PeerTyped, BreakKeepsStreams
<1> QED BY <1>2, <1>3, <1>4 DEF Reply

LEMMA SendKeepsStreams ==
    ASSUME TypeOK, ThreadInvariant, StreamProperties, Send
    PROVE  StreamProperties'
<1>0. PICK s \in Sides : s = Head(todo)
  BY SendTyped
<1> DEFINE to == Peer(s)
<1>1. /\ to \in Sides /\ to # s /\ Peer(to) = s
      /\ hand \in Sent /\ pc = "send" /\ kind # "none"
      /\ UNCHANGED <<kind, conn, inbox, got, wrote>>
  BY <1>0, SendTyped, PeerTyped DEF Send, ThreadInvariant
<1>2. CASE conn[to] = "reset" /\ Fail /\ UNCHANGED outbox
  <2>1. /\ pc \notin {"error", "closed"} /\ pc' \in {"error", "closed"} /\ conn'[to] = "reset"
        /\ UNCHANGED <<got, outbox, wrote, kind>>
    BY <1>1, <1>2 DEF Fail
  <2> QED BY <1>1, <2>1, StoppingCutsOff, CauseExcuses DEF StreamProperties
<1>3. CASE Put(to, hand) /\ GoOn
  <2> HIDE DEF to
  <2>1. /\ outbox'[to] = Append(outbox[to], hand) /\ \A t \in Sides \ {to} : outbox'[t] = outbox[t]
    BY <1>1, <1>3 DEF Put, TypeOK
  <2>2. pc' \in {"select", "serve", "reply"}
    BY <1>3 DEF GoOn
  <2>3. \A t \in Sides : /\ Whole(t) /\ Due(t)' = Due(t) /\ InHand(t)' = <<>>
                         /\ Delivered(t) \in Seq(Sent) /\ inbox[t] \in Seq(Sent)
    BY <1>1, <2>2, WholeWhileOpen, StreamsTyped
       DEF Due, Announced, ToRelay, First, InHand, StreamProperties, StreamsAreWhole
  <2>4. InHand(s) = <<hand>> /\ InHand(to) = <<>>
    BY <1>0, <1>1 DEF InHand
  <2>5. Delivered(s)' = Delivered(s) /\ Delivered(to)' = Append(Delivered(to), hand)
    <3>1. Delivered(s)' = Delivered(s)
      BY <1>1, <2>1 DEF Delivered
    <3> DEFINE a == got[to]
               b == outbox[to]
    <3>2. a \in Seq(Sent) /\ b \in Seq(Sent)
      BY <1>1, StreamsTyped
    <3>3. Delivered(to)' = a \o Append(b, hand) /\ Delivered(to) = a \o b
      BY <1>1, <2>1 DEF Delivered
    <3> HIDE DEF a, b
    <3>4. a \o Append(b, hand) = Append(a \o b, hand)
      BY <1>1, <3>2, AppendMoves
    <3> QED BY <3>1, <3>3, <3>4
  <2>6. Whole(s)'
    <3> DEFINE d == Delivered(to)
               i == inbox[s]
               h == <<hand>>
    <3>1. d \in Seq(Sent) /\ i \in Seq(Sent) /\ h \in Seq(Sent) /\ Append(d, hand) = d \o h
      <4>1. d \in Seq(Sent) /\ i \in Seq(Sent)
        BY <1>1, <2>3
      <4> HIDE DEF d, i
      <4> QED BY <1>1, <4>1, AppendIsConcat
    <3>2. (d \o h) \o i = Due(s)
      BY <1>1, <2>3, <2>4 DEF Whole, to
    <3>3. Whole(s)' <=> ((d \o h) \o <<>>) \o i = Due(s)
      <4>1. Delivered(Peer(s))' = Append(d, hand)
        BY <2>5 DEF to
      <4> QED BY <1>1, <2>3, <3>1, <4>1 DEF Whole
    <3> HIDE DEF d, i, h
    <3>4. d \o h \in Seq(Sent) /\ (d \o h) \o <<>> = d \o h
      BY <3>1, ConcatProperties, ConcatEmptySeq
    <3> QED BY <3>2, <3>3, <3>4
  <2>7. Whole(to)'
    <3>1. Whole(to)' <=> (Delivered(Peer(to))' \o InHand(to)') \o inbox'[to] = Due(to)'
      BY DEF Whole
    <3>2. (Delivered(s) \o InHand(to)) \o inbox[to] = Due(to)
      BY <1>1, <2>3 DEF Whole
    <3> QED BY <1>1, <2>3, <2>4, <2>5, <3>1, <3>2
  <2>8. NothingLost'
    BY <1>1, <2>6, <2>7, WholeWhileOpenPrimed DEF Sides
  <2> QED BY <2>2, <2>8 DEF StreamProperties, StreamsAreWhole, BeginningsArrive, CleanEndsAreComplete
<1> QED BY <1>0, <1>2, <1>3 DEF Send

LEMMA SendErrorKeepsStreams ==
    ASSUME TypeOK, ThreadInvariant, StreamProperties, SendError
    PROVE  StreamProperties'
<1>1. /\ pc = "error" /\ pc' = "closed" /\ kind = "tunnel"
      /\ UNCHANGED <<kind, conn, inbox, got, wrote>>
      /\ conn["server"] = "none" \/ \E s \in Sides : conn[s] = "reset"
      /\ conn["server"] = "none" => got["client"] = <<>> /\ outbox["client"] = <<>>
      /\ \/ Put("client", BadGateway)
         \/ UNCHANGED outbox
  BY PeerTyped DEF SendError, ThreadInvariant
<1>2. \A s \in Sides : Due(s)' = Due(s)
  BY <1>1 DEF Due, Announced, ToRelay, First
<1>3. /\ Delivered("server") \in Prefixes(Due("client"))
      /\ Delivered("client") \in Prefixes(Due("server"))
  BY <1>1 DEF StreamProperties, StreamsAreWhole, BeginningsArrive, CutOff
<1>4. CASE UNCHANGED outbox
  BY <1>1, <1>2, <1>3, <1>4, PeerTyped
     DEF StreamProperties, StreamsAreWhole, NothingLost, BeginningsArrive, CleanEndsAreComplete, Delivered
<1>5. CASE Put("client", BadGateway)
  <2>1. outbox'["client"] = Append(outbox["client"], BadGateway) /\ outbox'["server"] = outbox["server"]
    BY <1>5, PeerTyped DEF Put, TypeOK
  <2> DEFINE a == got["client"]
             b == outbox["client"]
  <2>2. a \in Seq(Sent) /\ b \in Seq(Sent)
    BY StreamsTyped, PeerTyped
  <2>3. Delivered("client")' = a \o Append(b, BadGateway) /\ Delivered("client") = a \o b
    BY <1>1, <2>1 DEF Delivered
  <2>4. a \o Append(b, BadGateway) = Append(a \o b, BadGateway)
    <3> HIDE DEF a, b
    <3> QED BY <2>2, ChunkTyped, AppendMoves
  <2>5. conn["server"] = "none" => Delivered("client") = <<>>
    <3>1. <<>> \o <<>> = <<>>
      OBVIOUS
    <3> QED BY <1>1, <3>1 DEF Delivered
  <2>6. CutOff'
    <3>1. Delivered("client") \in Prefixes(Due("server")')
      BY <1>2, <1>3, PeerTyped
    <3>2. Delivered("client")' = Append(Delivered("client"), BadGateway)
      BY <2>3, <2>4
    <3>3. Delivered("client") = <<>> \/ \E s \in Sides : conn'[s] = "reset"
      BY <1>1, <2>5
    <3> QED BY <1>1, <3>1, <3>2, <3>3 DEF CutOff
  <2>7. Delivered("server")' \in Prefixes(Due("client")')
    BY <1>1, <1>2, <1>3, <2>1, PeerTyped DEF Delivered
  <2> QED BY <1>1, <2>6, <2>7
          DEF StreamProperties, StreamsAreWhole, NothingLost, BeginningsArrive, CleanEndsAreComplete
<1> QED BY <1>1, <1>4, <1>5
-----------------------------------------------------------------------------
(* The theorems.                                                           *)

ProxyInvariant == TypeOK /\ ThreadInvariant /\ StreamProperties

LEMMA ProxyInvariantInit == Init => ProxyInvariant
<1> SUFFICES ASSUME Init PROVE ProxyInvariant
  OBVIOUS
<1>1. \A s \in Sides : /\ inbox[s] = <<>> /\ outbox[s] = <<>> /\ got[s] = <<>> /\ wrote[s] = 0
                       /\ conn[s] \in {"open", "none"}
  BY DEF Init, Sides
<1>2. TypeOK
  <2>1. 0 \in 0 .. MaxChunks /\ Len(<<>>) <= Capacity
    BY BoundsArePositive
  <2>2. conn \in [Sides -> {"none", "open", "eof", "reset"}]
    BY DEF Init, Sides
  <2>3. /\ inbox \in [Sides -> Seq(Chunks)] /\ outbox \in [Sides -> Seq(Sent)]
        /\ got \in [Sides -> Seq(Sent)] /\ wrote \in [Sides -> 0 .. MaxChunks]
    <3> HIDE DEF Chunks, Sent, Sides
    <3> QED BY <2>1 DEF Init
  <2> QED BY <1>1, <2>1, <2>2, <2>3 DEF Init, TypeOK
<1>3. ThreadInvariant
  BY <1>1, PeerTyped DEF Init, ThreadInvariant, Relaying
<1>4. \A s \in Sides : Whole(s)
  <2> TAKE s \in Sides
  <2>1. Delivered(Peer(s)) = <<>> /\ Due(s) = ToRelay(s)
    BY <1>2, <1>3, NothingGivenYet, PeerTyped DEF Init
  <2>2. InHand(s) = <<>> /\ First(s) = 1
    BY DEF Init, InHand, First
  <2>3. Len(ToRelay(s)) = 0 - 1 + 1 /\ ToRelay(s) \in Seq(Sent)
    BY <1>1, <1>2, <1>3, <2>2, StreamsTyped
  <2>4. Len(ToRelay(s)) = 0
    BY <2>3
  <2>5. ToRelay(s) = <<>> /\ (<<>> \o <<>>) \o <<>> = <<>>
    BY <2>3, <2>4, EmptySeq
  <2> QED BY <1>1, <2>1, <2>2, <2>5 DEF Whole
<1>5. StreamProperties
  BY <1>4, WholeWhileOpen
     DEF Init, StreamProperties, StreamsAreWhole, BeginningsArrive, CleanEndsAreComplete
<1> QED BY <1>2, <1>3, <1>5 DEF ProxyInvariant

LEMMA ProxyInvariantKept == ProxyInvariant /\ [Next]_vars => ProxyInvariant'
<1> SUFFICES ASSUME TypeOK, ThreadInvariant, StreamProperties, [Next]_vars
             PROVE  TypeOK' /\ ThreadInvariant' /\ StreamProperties'
  BY DEF ProxyInvariant
<1>1. CASE Request
  BY <1>1, RequestTyped, RequestKeepsStreams
<1>2. CASE Connect
  BY <1>2, ConnectTyped, ConnectKeepsStreams
<1>3. CASE Select
  BY <1>3, SelectTyped, SelectKeepsStreams
<1>4. CASE Serve
  BY <1>4, ServeTyped, ServeKeepsStreams
<1>5. CASE Reply
  BY <1>5, ReplyTyped, ReplyKeepsStreams
<1>6. CASE Send
  BY <1>6, SendTyped, SendKeepsStreams
<1>7. CASE SendError
  BY <1>7, SendErrorTyped, SendErrorKeepsStreams
<1>8. CASE \E s \in Sides : Write(s)
  BY <1>8, WriteTyped, WriteKeepsStreams
<1>9. CASE \E s \in Sides : Read(s)
  BY <1>9, ReadTyped, ReadKeepsStreams
<1>10. CASE \E s \in Sides : ShutDown(s) \/ Reset(s)
  BY <1>10, EndsTyped, EndingKeepsStreams
<1>11. CASE UNCHANGED vars
  <2>1. UNCHANGED <<thread, conn, inbox, outbox, got, wrote>>
    BY <1>11 DEF vars, streams
  <2>2. TypeOK' /\ ThreadInvariant'
    BY <2>1, TypeParts, TypePartsPrimed DEF ThreadInvariant, thread
  <2>3. \A s \in Sides : Delivered(s)' = Delivered(s)
    BY <2>1 DEF Delivered
  <2> QED BY <2>1, <2>2, <2>3, EndsKeepStreams
<1> QED BY <1>1, <1>2, <1>3, <1>4, <1>5, <1>6, <1>7, <1>8, <1>9, <1>10, <1>11
        DEF Next, Thread, Consume

LEMMA ProxyInvariantHolds == Spec => []ProxyInvariant
BY ProxyInvariantInit, ProxyInvariantKept, PTL DEF Spec

\* What the thread holds in `readable` and `data`, and what the two sockets hold, is
\* always of its type; no socket buffer holds more than its capacity.
THEOREM ProxyTypeCorrect == Spec => []TypeOK
BY ProxyInvariantHolds, PTL DEF ProxyInvariant

\* Where the thread of a connection is tells what it has in hand, whether there is
\* a server yet, and why the exception handler of a tunnel was entered.
THEOREM ThreadInvariantHolds == Spec => []ThreadInvariant
BY ProxyInvariantHolds, PTL DEF ProxyInvariant

\* handle_client loses, repeats and reorders nothing of the two streams it relays,
\* and a connection that is given up has passed on a beginning of each.
THEOREM StreamsAreWholeHolds == Spec => []StreamsAreWhole
BY ProxyInvariantHolds, PTL DEF ProxyInvariant, StreamProperties

\* A connection that handle_client closes while neither end has aborted has passed
\* on everything: the thirty seconds of silence and the end of a reply cut nothing.
THEOREM CleanEndsAreCompleteHolds == Spec => []CleanEndsAreComplete
BY ProxyInvariantHolds, PTL DEF ProxyInvariant, StreamProperties
=============================================================================
