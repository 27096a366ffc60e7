----------------------------- MODULE ZmqEngine -----------------------------
(***************************************************************************)
(* swarm/nvidia_swarm_zmq.py: ZMQEngine.execute against a Jupyter kernel.  *)
(*                                                                         *)
(* execute sends a request on the shell socket and polls the shell and     *)
(* the iopub socket until an "ok" reply has come or its deadline is over.  *)
(* Both sockets outlive the call, and a message is never matched with the  *)
(* request it belongs to: what one call leaves unread, the next one reads. *)
(*                                                                         *)
(* The kernel and ZeroMQ are external: requests are served one at a time,  *)
(* in order; the output of a request is published on iopub before its      *)
(* reply is sent on shell; the two sockets are not ordered with one        *)
(* another; what is published before the subscription is up is lost.       *)
(***************************************************************************)
EXTENDS Integers, Sequences

CONSTANTS MaxExecutes,   \* bound: calls of execute
          MaxOutputs     \* bound: stream messages one request prints

ASSUME BoundsArePositive == MaxExecutes \in Nat \ {0} /\ MaxOutputs \in Nat \ {0}

VARIABLES execCount,   \* self.exec_count; it also numbers the requests
          polling,     \* is a call of execute in its loop?
          result,      \* results of each call
          requests,    \* shell socket, towards the kernel
          replies,     \* shell socket, towards the engine
          iopub,       \* iopub socket: the output it carries
          subscribed,  \* has the kernel seen the subscription?
          kernel,      \* the request the kernel is executing, or 0
          printed      \* how many messages each request has published

engineVars == <<execCount, polling, result>>
kernelVars == <<subscribed, kernel, printed>>
vars == <<engineVars, requests, replies, iopub, kernelVars>>

Requests == 1 .. MaxExecutes

\* results of execute: the last reply's status and the request it answers (the
\* code does not know it), the output it collected, and whether the call ran into
\* its deadline. An output message is the request that printed it and its number
\* among the messages of that request.
NoResult == [status |-> "none", replyOf |-> 0, output |-> <<>>, late |-> FALSE]

Init == /\ execCount = 0
        /\ polling = FALSE
        /\ result = [n \in Requests |-> NoResult]
        /\ requests = <<>>
        /\ replies = <<>>
        /\ iopub = <<>>
        /\ subscribed = FALSE
        /\ kernel = 0
        /\ printed = [n \in Requests |-> 0]
-----------------------------------------------------------------------------
(* The engine.                                                             *)
\* (mutant) `self.exec_count += 1` forgotten.
SameCount == execCount

NextCount == execCount + 1

Execute ==
    /\ ~ polling
    /\ execCount < MaxExecutes
    /\ execCount' = NextCount
    /\ polling' = TRUE
    /\ requests' = Append(requests, execCount')
    /\ UNCHANGED <<result, replies, iopub, kernelVars>>

\* One turn of the loop takes at most one reply ...
Replied == [result EXCEPT ![execCount].status = Head(replies).status,
                          ![execCount].replyOf = Head(replies).of]

\* (mutant) the message is looked at, not taken.
PeekOutput(results) ==
    /\ UNCHANGED iopub
    /\ result' = IF iopub = <<>> THEN results
                 ELSE [results EXCEPT ![execCount].output = Append(@, Head(iopub))]

\* ... and then at most one output message.
TakeOutput(results) ==
    IF iopub = <<>>
    THEN result' = results /\ UNCHANGED iopub
    ELSE /\ iopub' = Tail(iopub)
         /\ result' = [results EXCEPT ![execCount].output = Append(@, Head(iopub))]

\* (mutant) output ends the loop as well.
StopPolling == polling' = FALSE

KeepPolling == UNCHANGED polling

\* An "ok" reply ends the loop; iopub is not looked at any more.
PollOk ==
    /\ polling
    /\ replies # <<>>
    /\ Head(replies).status = "ok"
    /\ replies' = Tail(replies)
    /\ result' = Replied
    /\ polling' = FALSE
    /\ UNCHANGED <<execCount, requests, iopub, kernelVars>>

\* An "error" reply does not.
PollError ==
    /\ polling
    /\ replies # <<>>
    /\ Head(replies).status = "error"
    /\ replies' = Tail(replies)
    /\ TakeOutput(Replied)
    /\ KeepPolling
    /\ UNCHANGED <<execCount, requests, kernelVars>>

PollOutput ==
    /\ polling
    /\ replies = <<>>
    /\ iopub # <<>>
    /\ TakeOutput(result)
    /\ KeepPolling
    /\ UNCHANGED <<execCount, requests, replies, kernelVars>>

\* The while condition fails: status is that of the last reply, or "timeout".
Deadline ==
    /\ polling
    /\ polling' = FALSE
    /\ result' = [result EXCEPT ![execCount].late = TRUE]
    /\ UNCHANGED <<execCount, requests, replies, iopub, kernelVars>>
-----------------------------------------------------------------------------
(* The kernel.                                                             *)
Start ==
    /\ kernel = 0
    /\ requests # <<>>
    /\ kernel' = Head(requests)
    /\ requests' = Tail(requests)
    /\ UNCHANGED <<engineVars, replies, iopub, subscribed, printed>>

Publish ==
    /\ kernel # 0
    /\ printed[kernel] < MaxOutputs
    /\ printed' = [printed EXCEPT ![kernel] = @ + 1]
    /\ iopub' = IF subscribed THEN Append(iopub, <<kernel, printed'[kernel]>>) ELSE iopub
    /\ UNCHANGED <<engineVars, requests, replies, subscribed, kernel>>

Answer(status) ==
    /\ kernel # 0
    /\ replies' = Append(replies, [of |-> kernel, status |-> status])
    /\ kernel' = 0
    /\ UNCHANGED <<engineVars, requests, iopub, subscribed, printed>>

Subscribe ==
    /\ ~ subscribed
    /\ subscribed' = TRUE
    /\ UNCHANGED <<engineVars, requests, replies, iopub, kernel, printed>>
-----------------------------------------------------------------------------
Poll == PollOk \/ PollError \/ PollOutput

Next == \/ Execute \/ Poll \/ Deadline
        \/ Start \/ Publish \/ Subscribe
        \/ \E status \in {"ok", "error"} : Answer(status)

Spec == Init /\ [][Next]_vars
-----------------------------------------------------------------------------
Returned(n) == n < execCount \/ (n = execCount /\ ~ polling)

Statuses == {"none", "ok", "error"}
Messages == (1 .. execCount) \X (1 .. MaxOutputs)

TypeOK ==
    /\ execCount \in 0 .. MaxExecutes
    /\ polling \in BOOLEAN
    /\ polling => execCount > 0
    /\ result \in [Requests -> [status : Statuses, replyOf : 0 .. execCount,
                                output : Seq(Messages), late : BOOLEAN]]
    /\ requests \in Seq(1 .. execCount)
    /\ replies \in Seq([of : 1 .. execCount, status : Statuses \ {"none"}])
    /\ iopub \in Seq(Messages)
    /\ subscribed \in BOOLEAN
    /\ kernel \in 0 .. execCount
    /\ printed \in [Requests -> 0 .. MaxOutputs]

\* The engine only falls out of step with the kernel at a deadline: a call that
\* is given the reply of an earlier request follows one that got no reply in time.
StaleReplyHasCause ==
    \A n \in Requests : result[n].replyOf \notin {0, n} =>
        \E m \in 1 .. n - 1 : Returned(m) /\ result[m].late /\ result[m].replyOf = 0

\* Only an "ok" reply ends a call in time, failing code always takes the whole
\* timeout; and a call that came back in time leaves no request and no reply
\* behind, unless it was already out of step.
OnTimeLeavesShellClean ==
    /\ \A n \in Requests : Returned(n) /\ ~ result[n].late => result[n].status = "ok"
    /\ ~ polling /\ (\A n \in 1 .. execCount : ~ result[n].late) =>
           requests = <<>> /\ kernel = 0 /\ replies = <<>>

\* What each call has captured, and what the next ones will.
Captured(n) == IF n \in Requests THEN result[n].output ELSE iopub

\* Of two numbers the first counts more: calls and places in their output, requests
\* and messages they print.
Earlier(x, y) == x[1] < y[1] \/ (x[1] = y[1] /\ x[2] < y[2])

\* The output of the kernel is captured in the order it was printed in and each
\* message once, however the calls and their timeouts fall; a call may be given
\* the output of earlier requests, never that of a later one.
OutputOnceInOrder ==
    \A m, n \in 1 .. MaxExecutes + 1 :
        \A i \in DOMAIN Captured(m), j \in DOMAIN Captured(n) :
            /\ Earlier(<<m, i>>, <<n, j>>) => Earlier(Captured(m)[i], Captured(n)[j])
            /\ Captured(m)[i][1] <= m /\ Captured(m)[i][2] <= printed[Captured(m)[i][1]]

\* What that rests on: the output is that of requests the kernel has begun.
OutputInvariant ==
    /\ OutputOnceInOrder
    /\ \A n \in 1 .. MaxExecutes + 1 : \A i \in DOMAIN Captured(n) :
           Captured(n)[i][1] <= execCount - Len(requests)
-----------------------------------------------------------------------------
(* Why calls and replies stay in step: the shell socket loses nothing.     *)

\* How many requests are answered, and how many replies the engine has taken.
Answered == execCount - Len(requests) - IF kernel = 0 THEN 0 ELSE 1
Taken == Answered - Len(replies)

\* The replies, the kernel and the requests hold, in this order, every number
\* from the first reply not taken to the last request sent.
ShellInOrder ==
    /\ Taken >= 0
    /\ \A i \in DOMAIN replies : replies[i].of = Taken + i
    /\ kernel # 0 => kernel = execCount - Len(requests)
    /\ \A i \in DOMAIN requests : requests[i] = execCount - Len(requests) + i

\* As long as every call has got a reply, the calls are not behind the kernel.
CallsKeepUp ==
    \A n \in 1 .. execCount : (\A m \in 1 .. n : result[m].replyOf # 0) => Taken >= n

ResultsAgree ==
    \A n \in Requests :
        /\ n > execCount => result[n] = NoResult
        /\ result[n].status = "ok" => result[n].replyOf # 0
        /\ Returned(n) /\ ~ result[n].late => result[n].status = "ok"
        /\ (\A m \in 1 .. n - 1 : result[m].replyOf # 0) => result[n].replyOf \in {0, n}

\* What StaleReplyHasCause and OnTimeLeavesShellClean rest on.
ShellInvariant == ShellInOrder /\ CallsKeepUp /\ ResultsAgree
-----------------------------------------------------------------------------
\* An "ok" result is the result of the code that was passed in.
ReplyIsOwn ==
    \A n \in Requests : Returned(n) /\ result[n].status = "ok" => result[n].replyOf = n
=============================================================================
