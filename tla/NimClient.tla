----------------------------- MODULE NimClient -----------------------------
(***************************************************************************)
(* swarm/nvidia_swarm_transport.py: NvidiaNIMClient over one               *)
(* PersistentConnectionPool and one TritonTransport, used by concurrent    *)
(* coroutines of one event loop.                                           *)
(*                                                                         *)
(* get_session hands out the pooled aiohttp session and makes a new one    *)
(* when there is none or it was closed; close shuts it. Both run under     *)
(* self._lock, but only close awaits while it holds it, so a caller that   *)
(* gets the lock takes the session and starts its POST in one step.        *)
(*                                                                         *)
(* With Triton enabled, chat_completion goes over a gRPC channel instead.  *)
(* The first call to find no stub makes the channel and awaits that the    *)
(* server is ready; the others go on without. The channel is never         *)
(* replaced, and no call over it has a deadline.                           *)
(*                                                                         *)
(* aiohttp, gRPC and the servers are external: a closing session breaks    *)
(* its requests at once, and a request made with stream=true is answered   *)
(* with server-sent events, as stream_completion expects.                  *)
(***************************************************************************)
EXTENDS Integers, FiniteSets

CONSTANTS Callers,   \* coroutines that make one request each
          Closers    \* coroutines that call close() once each

ASSUME CallersFinite == IsFiniteSet(Callers)

VARIABLES lock,      \* the coroutine awaiting inside `async with self._lock`, or NoOne
          current,   \* self._session: a session, or None
          session,   \* state of every aiohttp session the pool has made or will make
          call,      \* what each caller is doing
          mode,      \* which request it makes
          via,       \* the session its request runs on
          outcome,   \* what its call gave it
          closer,    \* what each closer is doing
          triton,    \* is there a TritonTransport (enable_triton)?
          channel,   \* its _channel: "none", "open", "closed"
          channels,  \* how many it has made
          ready      \* has ServerReady been answered?

clientVars == <<call, mode, via, outcome>>
poolVars == <<lock, current, session, closer>>
tritonVars == <<triton, channel, channels, ready>>
vars == <<clientVars, poolVars, tritonVars>>

NoOne == "no one"
None == 0

ASSUME NoOneIsNoCloser == NoOne \notin Closers

Sessions == 1 .. Cardinality(Callers)    \* a caller makes at most one

\* chat_completion as NvidiaSwarm calls it (stream defaults to enable_streaming,
\* TRUE), chat_completion(stream=False), and stream_completion.
Modes == {"chat", "chat plain", "stream"}
Chats == {"chat", "chat plain"}

\* The server's answers to a request of each mode; "no JSON" is an empty body, or one
\* that is neither JSON nor events, with status 200.
Answers(m) == {"status", "empty choices", "no JSON"} \cup
              IF m = "chat plain" THEN {"message", "tool call"} ELSE {"events"}

\* (mutant) the body that could not be parsed is the answer.
DecodeRaw(m, answer) ==
    CASE answer \in {"status", "empty choices"} -> "error"
      [] answer = "no JSON" -> "empty"
      [] answer = "message" -> "content"
      [] answer = "tool call" -> "null"
      [] answer = "events" -> IF m = "stream" THEN "content" ELSE "raw"

\* What the code makes of an answer. A body that is no JSON has no choices, which
\* reads as an empty message; without "data: " lines a stream ends with nothing. The
\* caller cannot tell that ("empty") from events that were not understood ("blank").
Decode(m, answer) ==
    CASE answer \in {"status", "empty choices"} -> "error"
      [] answer = "no JSON" -> "empty"
      [] answer = "message" -> "content"
      [] answer = "tool call" -> "null"
      [] answer = "events" /\ m = "stream" -> "content"
      [] answer = "events" /\ m # "stream" -> "blank"

Init == /\ lock = NoOne
        /\ current = None
        /\ session = [s \in Sessions |-> "unmade"]
        /\ call = [c \in Callers |-> "idle"]
        /\ mode = [c \in Callers |-> "chat"]
        /\ via = [c \in Callers |-> None]
        /\ outcome = [c \in Callers |-> "none"]
        /\ closer = [k \in Closers |-> "idle"]
        /\ triton \in BOOLEAN
        /\ channel = "none" /\ channels = 0 /\ ready = FALSE

\* (mutants) no lock is taken; a lock is never given back.
LockIgnored == TRUE
LockKept(k) == lock

\* `async with self._lock`, on entry and on every way out.
LockFree == lock = NoOne
Unlocked(k) == IF lock = k THEN NoOne ELSE lock

\* `if self._triton and self.enable_triton`; a stream never goes there.
OverTriton(c) == triton /\ mode[c] \in Chats

Awaiting == {"calling", "posted", "connecting", "inferring"}

Usable == current # None /\ session[current] = "open"

\* chat_completion or stream_completion is called and awaits the lock.
Call(c, m) ==
    /\ call[c] = "idle"
    /\ call' = [call EXCEPT ![c] = "calling"]
    /\ mode' = [mode EXCEPT ![c] = m]
    /\ UNCHANGED <<via, outcome, poolVars, tritonVars>>

\* The session a caller gets: the pooled one if it may be kept, else a new one.
TakeSession(keep) ==
    IF keep
    THEN UNCHANGED <<current, session>>
    ELSE \E s \in Sessions :
            /\ session[s] = "unmade" /\ \A earlier \in 1 .. s - 1 : session[earlier] # "unmade"
            /\ current' = s
            /\ session' = [session EXCEPT ![s] = "open"]

\* (mutant) get_session without its `.closed` test.
GetSessionUntested == TakeSession(current # None)

GetSession == TakeSession(Usable)

\* get_session, and the start of session.post.
Post(c) ==
    /\ call[c] = "calling" /\ ~ OverTriton(c)
    /\ LockFree
    /\ GetSession
    /\ call' = [call EXCEPT ![c] = "posted"]
    /\ via' = [via EXCEPT ![c] = current']
    /\ UNCHANGED <<lock, mode, outcome, closer, tritonVars>>

Finish(c, what) ==
    /\ call' = [call EXCEPT ![c] = "done"]
    /\ outcome' = [outcome EXCEPT ![c] = what]
    /\ UNCHANGED <<mode, via, poolVars, triton, channel, channels>>

\* The server answers.
Answer(c, answer) ==
    /\ call[c] = "posted"
    /\ session[via[c]] = "open"
    /\ Finish(c, Decode(mode[c], answer)) /\ UNCHANGED ready

\* The connection breaks, the 120 s of the session's timeout are over, or the
\* session was closed under the request.
Break(c) ==
    /\ call[c] = "posted"
    /\ Finish(c, "error")
    /\ UNCHANGED ready

\* The caller's task is cancelled at one of its awaits.
CancelCall(c) ==
    /\ call[c] \in Awaiting
    /\ Finish(c, "cancelled")
    /\ UNCHANGED ready
-----------------------------------------------------------------------------
(* TritonTransport.                                                        *)

\* (mutant) the stub is only there once the server is ready.
NeedsReadyServer == ~ ready

\* infer's `if not self._stub`: connect sets it before it awaits ServerReady.
NeedsConnect == channel = "none"

\* Before the channel is made: tritonclient cannot be imported. No stub is set, so
\* the next call tries again. Or the request cannot be built.
InferRaises(c) ==
    /\ call[c] = "calling" /\ OverTriton(c)
    /\ Finish(c, "error")
    /\ UNCHANGED ready

\* connect up to its await, or straight to ModelInfer.
Infer(c) ==
    /\ call[c] = "calling" /\ OverTriton(c)
    /\ IF NeedsConnect
       THEN /\ channel' = "open" /\ channels' = channels + 1
            /\ call' = [call EXCEPT ![c] = "connecting"]
       ELSE call' = [call EXCEPT ![c] = "inferring"] /\ UNCHANGED <<channel, channels>>
    /\ UNCHANGED <<mode, via, outcome, poolVars, triton, ready>>

Connected(c) ==
    /\ call[c] = "connecting" /\ channel = "open"
    /\ call' = [call EXCEPT ![c] = "inferring"]
    /\ ready' = TRUE
    /\ UNCHANGED <<mode, via, outcome, poolVars, triton, channel, channels>>

\* ModelInfer is answered.
Inferred(c) ==
    /\ call[c] = "inferring" /\ channel = "open"
    /\ Finish(c, "content")
    /\ UNCHANGED ready

\* The server is not there or refuses. A call whose channel is closed under it ends
\* in a CancelledError, one made after that in an error.
TritonFails(c) ==
    /\ call[c] \in {"connecting", "inferring"}
    /\ \E what \in {"error", "cancelled"} :
          /\ what = "cancelled" => channel = "closed"
          /\ Finish(c, what)
    /\ UNCHANGED ready
-----------------------------------------------------------------------------
(* close(): the pool first, then Triton.                                   *)
CallClose(k) ==
    /\ closer[k] = "idle"
    /\ closer' = [closer EXCEPT ![k] = "calling"]
    /\ UNCHANGED <<lock, current, session, clientVars, tritonVars>>

\* (mutant) the channel is left to the garbage collector.
ChannelLeft == UNCHANGED channel

\* TritonTransport.close marks the channel closed at once, and keeps it.
CloseTriton == channel' = IF channel = "open" THEN "closed" ELSE channel

\* session.close() marks the session closed at once and then awaits. Without a
\* session to close, close() goes on to Triton in the same step.
CloseBegin(k) ==
    /\ closer[k] = "calling"
    /\ LockFree
    /\ IF Usable
       THEN /\ session' = [session EXCEPT ![current] = "closed"]
            /\ closer' = [closer EXCEPT ![k] = "closing"]
            /\ lock' = k
            /\ UNCHANGED channel
       ELSE /\ closer' = [closer EXCEPT ![k] = "closed"]
            /\ CloseTriton
            /\ UNCHANGED <<lock, session>>
    /\ UNCHANGED <<current, clientVars, triton, channels, ready>>

CloseEnd(k) ==
    /\ closer[k] = "closing"
    /\ closer' = [closer EXCEPT ![k] = "closed"]
    /\ current' = None
    /\ lock' = Unlocked(k)
    /\ CloseTriton
    /\ UNCHANGED <<session, clientVars, triton, channels, ready>>

\* close() is cancelled: the lock is given back, but self._session stays, and
\* the channel stays open.
CancelClose(k) ==
    /\ closer[k] \in {"calling", "closing"}
    /\ closer' = [closer EXCEPT ![k] = "cancelled"]
    /\ lock' = Unlocked(k)
    /\ UNCHANGED <<current, session, clientVars, tritonVars>>
-----------------------------------------------------------------------------
Reply(c) == Break(c) \/ \E answer \in Answers(mode[c]) : Answer(c, answer)
TritonReply(c) == Connected(c) \/ Inferred(c) \/ TritonFails(c)
CloseStep(k) == CloseBegin(k) \/ CloseEnd(k)

Next == \/ \E c \in Callers : \/ \E m \in Modes : Call(c, m)
                              \/ Post(c) \/ Reply(c) \/ CancelCall(c)
                              \/ InferRaises(c) \/ Infer(c) \/ TritonReply(c)
        \/ \E k \in Closers : CallClose(k) \/ CloseStep(k) \/ CancelClose(k)

\* The loop runs what is ready, and ClientTimeout(total=120) ends every request
\* over HTTP. Nothing but a closed channel ends a call to Triton that is not
\* answered.
Fairness == /\ \A c \in Callers : /\ WF_vars(Post(c)) /\ WF_vars(Reply(c))
                                  /\ WF_vars(Infer(c))
                                  /\ WF_vars(channel = "closed" /\ TritonFails(c))
            /\ \A k \in Closers : WF_vars(CloseStep(k))

Spec == Init /\ [][Next]_vars

FairSpec == Spec /\ Fairness
-----------------------------------------------------------------------------
TypeOK ==
    /\ lock \in Closers \cup {NoOne}
    /\ current \in Sessions \cup {None}
    /\ session \in [Sessions -> {"unmade", "open", "closed"}]
    /\ call \in [Callers -> {"idle", "done"} \cup Awaiting]
    /\ mode \in [Callers -> Modes]
    /\ via \in [Callers -> Sessions \cup {None}]
    /\ outcome \in [Callers ->
                       {"none", "content", "null", "blank", "empty", "error", "cancelled"}]
    /\ closer \in [Closers -> {"idle", "calling", "closing", "closed", "cancelled"}]
    /\ triton \in BOOLEAN /\ ready \in BOOLEAN
    /\ channel \in {"none", "open", "closed"}
    /\ channels \in 0 .. Cardinality(Callers)

\* The lock is held by whoever awaits the closing of the session, and while it is
\* held no session is open; at most one channel is made.
LockInvariant ==
    /\ \A k \in Closers : closer[k] = "closing" <=> lock = k
    /\ lock # NoOne => \A s \in Sessions : session[s] # "open"
    /\ \A s \in Sessions : session[s] = "open" => current = s
    /\ channels = IF channel = "none" THEN 0 ELSE 1

\* No connection leaks: an open session is always the pooled one, so that the
\* next close() reaches it, and Triton's channel is never replaced by another,
\* however calls, closes and their cancellations interleave.
NoLostConnection ==
    /\ \A s \in Sessions : session[s] = "open" => current = s
    /\ channels <= 1

\* No request is started on a session that is already closed.
PostsOnOpenSession ==
    [][\A c \in Callers : call[c] = "calling" /\ call'[c] = "posted" =>
           session'[via'[c]] = "open"]_vars

\* A close() that ran to its end left no session and no channel open.
CloseClosesAll ==
    [][\A k \in Closers : closer[k] # "closed" /\ closer'[k] = "closed" =>
           channel' # "open" /\ \A s \in Sessions : session'[s] # "open"]_vars

\* Every call and every close ends; but a call over a channel that is not closed
\* waits for Triton as long as Triton likes.
CallsEnd ==
    /\ \A c \in Callers :
           call[c] # "idle" ~>
               \/ call[c] = "done"
               \/ call[c] \in {"connecting", "inferring"} /\ channel = "open"
    /\ \A k \in Closers : closer[k] # "idle" ~> closer[k] \in {"closed", "cancelled"}
-----------------------------------------------------------------------------
\* A chat completion the server answered gives its caller what the server said,
\* if the server said something.
AnswersAreDelivered == \A c \in Callers : outcome[c] # "blank"
=============================================================================
