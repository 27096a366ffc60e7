-------------------------- MODULE ZmqEngineProofs --------------------------
(***************************************************************************)
(* Theorems about ZmqEngine, for any number of calls and of messages.      *)
(***************************************************************************)
EXTENDS ZmqEngine, SequenceTheorems, TLAPS

MessagesOf(n) == (1 .. n) \X (1 .. MaxOutputs)
Results(n) == [status : Statuses, replyOf : 0 .. n, output : Seq(MessagesOf(n)), late : BOOLEAN]
Replies(n) == [of : 1 .. n, status : Statuses \ {"none"}]

LEMMA NumbersWiden ==
    ASSUME NEW n \in Nat
    PROVE  /\ 0 .. n \subseteq 0 .. n + 1 /\ 1 .. n \subseteq 1 .. n + 1
           /\ \A s \in Seq(1 .. n) : s \in Seq(1 .. n + 1)
           /\ \A s \in Seq(MessagesOf(n)) : s \in Seq(MessagesOf(n + 1))
           /\ \A r \in Results(n) : r \in Results(n + 1)
           /\ \A s \in Seq(Replies(n)) : s \in Seq(Replies(n + 1))
<1>1. 0 .. n \subseteq 0 .. n + 1 /\ 1 .. n \subseteq 1 .. n + 1
  OBVIOUS
<1>2. \A s \in Seq(1 .. n) : s \in Seq(1 .. n + 1)
  BY <1>1, SeqMonotonic
<1>3. Replies(n) \subseteq Replies(n + 1)
  BY <1>1 DEF Replies
<1>4. \A s \in Seq(Replies(n)) : s \in Seq(Replies(n + 1))
  BY <1>3, SeqMonotonic
<1>5. MessagesOf(n) \subseteq MessagesOf(n + 1)
  BY <1>1 DEF MessagesOf
<1>6. \A s \in Seq(MessagesOf(n)) : s \in Seq(MessagesOf(n + 1))
  BY <1>5, SeqMonotonic
<1>7. \A r \in Results(n) : r \in Results(n + 1)
  BY <1>1, <1>6 DEF Results
<1> QED BY <1>1, <1>2, <1>4, <1>6, <1>7

\* What one turn of the polling loop does to the results.
LEMMA RepliedTyped ==
    ASSUME TypeOK, polling, replies # <<>>
    PROVE  /\ Replied \in [Requests -> Results(execCount)]
           /\ execCount \in Requests
           /\ Head(replies) \in Replies(execCount)
           /\ Tail(replies) \in Seq(Replies(execCount))
<1>1. execCount \in Requests /\ execCount \in Nat
  BY BoundsArePositive DEF TypeOK, Requests
<1>2. replies \in Seq(Replies(execCount))
  BY DEF TypeOK, Replies
<1>3. Head(replies) \in Replies(execCount) /\ Tail(replies) \in Seq(Replies(execCount))
  BY <1>2, HeadTailProperties
<1>4. /\ Head(replies).of \in 0 .. execCount
      /\ Head(replies).status \in Statuses
  BY <1>1, <1>3 DEF Replies
<1>5. result \in [Requests -> Results(execCount)]
  BY DEF TypeOK, Results, Messages, MessagesOf
<1>6. Replied \in [Requests -> Results(execCount)]
  BY <1>1, <1>4, <1>5 DEF Replied, Results
<1> QED BY <1>1, <1>3, <1>6

LEMMA TakeOutputTyped ==
    ASSUME TypeOK, polling, UNCHANGED execCount,
           NEW R \in [Requests -> Results(execCount)], TakeOutput(R)
    PROVE  /\ result' \in [Requests -> Results(execCount)]
           /\ iopub' \in Seq(MessagesOf(execCount))
<1>1. execCount \in Requests /\ execCount \in Nat
  BY BoundsArePositive DEF TypeOK, Requests
<1>2. iopub \in Seq(MessagesOf(execCount))
  BY DEF TypeOK, Messages, MessagesOf
<1>3. CASE iopub = <<>>
  BY <1>2, <1>3 DEF TakeOutput
<1>4. CASE iopub # <<>>
  <2>1. Head(iopub) \in MessagesOf(execCount) /\ Tail(iopub) \in Seq(MessagesOf(execCount))
    BY <1>2, <1>4, HeadTailProperties
  <2>2. R[execCount] \in Results(execCount)
    BY <1>1
  <2>3. Append(R[execCount].output, Head(iopub)) \in Seq(MessagesOf(execCount))
    BY <2>1, <2>2, AppendProperties DEF Results
  <2>4. result' = [R EXCEPT ![execCount].output = Append(@, Head(iopub))]
    BY <1>4 DEF TakeOutput
  <2>5. result' \in [Requests -> Results(execCount)]
    BY <1>1, <2>2, <2>3, <2>4 DEF Results
  <2> QED BY <1>4, <2>1, <2>5 DEF TakeOutput
<1> QED BY <1>3, <1>4

LEMMA TypeKept ==
    ASSUME TypeOK, [Next]_vars
    PROVE  TypeOK'
<1>0. /\ execCount \in Nat /\ MaxExecutes \in Nat /\ execCount <= MaxExecutes
      /\ result \in [Requests -> Results(execCount)]
      /\ replies \in Seq(Replies(execCount))
      /\ polling => execCount \in Requests
  <2>1. /\ execCount \in Nat /\ MaxExecutes \in Nat /\ execCount <= MaxExecutes
        /\ polling => execCount \in Requests
    BY BoundsArePositive DEF TypeOK, Requests
  <2>2. result \in [Requests -> Results(execCount)] /\ replies \in Seq(Replies(execCount))
    BY DEF TypeOK, Results, Replies, Messages, MessagesOf
  <2> QED BY <2>1, <2>2
<1>1. CASE Execute
  <2>1. execCount' = execCount + 1 /\ execCount' \in 0 .. MaxExecutes
    BY <1>0, <1>1 DEF Execute, NextCount
  <2>2. /\ requests \in Seq(1 .. execCount') /\ iopub \in Seq(MessagesOf(execCount'))
        /\ result \in [Requests -> Results(execCount')]
        /\ replies \in Seq(Replies(execCount'))
        /\ kernel \in 0 .. execCount'
    <3>1. \A r \in Requests : result[r] \in Results(execCount')
      BY <1>0, <2>1, NumbersWiden
    <3>2. result \in [Requests -> Results(execCount')]
      BY <1>0, <3>1
    <3> QED BY <1>0, <2>1, <3>2, NumbersWiden DEF TypeOK, Messages, MessagesOf
  <2>3. requests' \in Seq(1 .. execCount')
    <3>1. execCount' \in 1 .. execCount'
      BY <1>0, <2>1
    <3> QED BY <1>1, <2>2, <3>1, AppendProperties DEF Execute
  <2>4. /\ result' = result /\ replies' = replies /\ iopub' = iopub /\ polling' = TRUE
        /\ subscribed' = subscribed /\ kernel' = kernel /\ printed' = printed
    BY <1>1 DEF Execute, kernelVars
  <2> QED BY <1>0, <2>1, <2>2, <2>3, <2>4 DEF TypeOK, Results, Replies, Messages, MessagesOf
<1>2. CASE PollOk
  <2>1. /\ result' \in [Requests -> Results(execCount)]
        /\ replies' \in Seq(Replies(execCount))
    BY <1>2, RepliedTyped DEF PollOk
  <2> QED BY <1>2, <2>1 DEF PollOk, TypeOK, Results, Replies, Messages, MessagesOf, kernelVars
<1>3. CASE PollError
  <2>1. /\ result' \in [Requests -> Results(execCount)]
        /\ iopub' \in Seq(MessagesOf(execCount))
        /\ replies' \in Seq(Replies(execCount))
    BY <1>3, RepliedTyped, TakeOutputTyped DEF PollError
  <2> QED BY <1>3, <2>1 DEF PollError, KeepPolling, TypeOK, Results, Replies, Messages, MessagesOf, kernelVars
<1>4. CASE PollOutput
  <2>1. /\ result' \in [Requests -> Results(execCount)]
        /\ iopub' \in Seq(MessagesOf(execCount))
    BY <1>0, <1>4, TakeOutputTyped DEF PollOutput
  <2> QED BY <1>4, <2>1 DEF PollOutput, KeepPolling, TypeOK, Results, Replies, Messages, MessagesOf, kernelVars
<1>5. CASE Deadline
  <2>1. result' \in [Requests -> Results(execCount)]
    BY <1>0, <1>5 DEF Deadline, Results
  <2> QED BY <1>5, <2>1 DEF Deadline, TypeOK, Results, Replies, Messages, MessagesOf, kernelVars
<1>6. CASE Start
  <2>1. kernel' \in 1 .. execCount /\ requests' \in Seq(1 .. execCount)
    BY <1>6, HeadTailProperties DEF Start, TypeOK
  <2> QED BY <1>0, <1>6, <2>1 DEF Start, TypeOK, Messages, engineVars
<1>7. CASE Publish
  <2>1. kernel \in 1 .. execCount /\ kernel \in Requests
    BY <1>0, <1>7 DEF Publish, TypeOK, Requests
  <2>2. /\ printed \in [Requests -> 0 .. MaxOutputs] /\ printed[kernel] < MaxOutputs
        /\ printed' = [printed EXCEPT ![kernel] = printed[kernel] + 1]
        /\ printed[kernel] + 1 \in 1 .. MaxOutputs
    <3>1. /\ printed \in [Requests -> 0 .. MaxOutputs] /\ printed[kernel] < MaxOutputs
          /\ printed' = [printed EXCEPT ![kernel] = printed[kernel] + 1]
      BY <1>7 DEF Publish, TypeOK
    <3>2. printed[kernel] \in 0 .. MaxOutputs /\ MaxOutputs \in Nat
      BY <2>1, <3>1, BoundsArePositive
    <3>3. printed[kernel] + 1 \in 1 .. MaxOutputs
      BY <3>1, <3>2
    <3> QED BY <3>1, <3>3
  <2>3. printed' \in [Requests -> 0 .. MaxOutputs] /\ printed'[kernel] = printed[kernel] + 1
    BY <2>1, <2>2, BoundsArePositive
  <2>4. iopub' \in Seq(MessagesOf(execCount))
    <3>1. <<kernel, printed'[kernel]>> \in MessagesOf(execCount)
      BY <2>1, <2>2, <2>3 DEF MessagesOf
    <3>2. iopub \in Seq(MessagesOf(execCount))
      BY DEF TypeOK, Messages, MessagesOf
    <3> QED BY <1>7, <3>1, <3>2, AppendProperties DEF Publish
  <2> QED BY <1>7, <2>3, <2>4 DEF Publish, TypeOK, engineVars, Messages, MessagesOf
<1>8. ASSUME NEW status \in {"ok", "error"}, Answer(status) PROVE TypeOK'
  <2>1. [of |-> kernel, status |-> status] \in Replies(execCount)
    BY <1>0, <1>8 DEF Answer, TypeOK, Replies, Statuses
  <2>2. replies' \in Seq(Replies(execCount))
    BY <1>0, <1>8, <2>1, AppendProperties DEF Answer
  <2>3. kernel' \in 0 .. execCount
    BY <1>0, <1>8 DEF Answer
  <2> QED BY <1>8, <2>2, <2>3 DEF Answer, TypeOK, Messages, Replies, engineVars
<1>9. CASE Subscribe
  BY <1>9 DEF Subscribe, TypeOK, Messages, engineVars
<1>10. CASE UNCHANGED vars
  BY <1>10 DEF TypeOK, Messages, vars, engineVars, kernelVars
<1> QED BY <1>1, <1>2, <1>3, <1>4, <1>5, <1>6, <1>7, <1>8, <1>9, <1>10 DEF Next, Poll

\* The state keeps its type: calls, results and messages carry the numbers of
\* requests already sent.
THEOREM ZmqTypeCorrect == Spec => []TypeOK
<1>1. Init => TypeOK
  <2> SUFFICES ASSUME Init PROVE TypeOK
    OBVIOUS
  <2>1. 0 \in 0 .. MaxExecutes /\ 0 \in 0 .. MaxOutputs
    BY BoundsArePositive
  <2>2. NoResult \in Results(0)
    BY EmptySeq DEF NoResult, Results, Statuses
  <2>3. /\ requests \in Seq(1 .. 0) /\ iopub \in Seq(MessagesOf(0))
        /\ replies \in Seq(Replies(0))
    BY EmptySeq DEF Init
  <2>4. /\ result \in [Requests -> Results(0)]
        /\ printed \in [Requests -> 0 .. MaxOutputs]
        /\ execCount = 0 /\ ~ polling /\ kernel = 0 /\ subscribed \in BOOLEAN
    BY <2>1, <2>2 DEF Init
  <2>5. 0 \in 0 .. 0
    OBVIOUS
  <2> QED BY <2>1, <2>3, <2>4, <2>5 DEF TypeOK, Results, Replies, Init, Messages, MessagesOf
<1>2. TypeOK /\ [Next]_vars => TypeOK'
  BY TypeKept
<1> QED BY <1>1, <1>2, PTL DEF Spec
-----------------------------------------------------------------------------
(* The shell socket and the results.                                       *)

LEMMA ShellCounts ==
    ASSUME TypeOK
    PROVE  /\ execCount \in Nat /\ kernel \in Nat
           /\ Len(requests) \in Nat /\ DOMAIN requests = 1 .. Len(requests)
           /\ Len(replies) \in Nat /\ DOMAIN replies = 1 .. Len(replies)
           /\ Answered \in Int /\ Taken \in Int
<1>1. execCount \in Nat /\ kernel \in Nat
  BY DEF TypeOK
<1>2. /\ Len(requests) \in Nat /\ DOMAIN requests = 1 .. Len(requests)
      /\ Len(replies) \in Nat /\ DOMAIN replies = 1 .. Len(replies)
  BY LenProperties DEF TypeOK
<1> QED BY <1>1, <1>2 DEF Answered, Taken

\* Taking a reply moves the engine on by one request, which is not past the last.
LEMMA ReplyTaken ==
    ASSUME TypeOK, ShellInOrder, replies # <<>>, replies' = Tail(replies),
           UNCHANGED <<execCount, requests, kernel>>
    PROVE  /\ Head(replies).of = Taken + 1
           /\ Taken' = Taken + 1 /\ Taken + 1 <= execCount
           /\ ShellInOrder'
<1>1. replies \in Seq(Replies(execCount))
  BY DEF TypeOK, Replies
<1>2. /\ Len(replies) \in Nat \ {0}
      /\ Tail(replies) \in Seq(Replies(execCount))
      /\ Len(Tail(replies)) = Len(replies) - 1
      /\ \A i \in 1 .. Len(Tail(replies)) : Tail(replies)[i] = replies[i + 1]
  BY <1>1, EmptySeq, HeadTailProperties
<1>3. Taken' = Taken + 1
  BY <1>2, ShellCounts DEF Taken, Answered
<1>4. replies[1].of = Taken + 1 /\ replies[1] = Head(replies)
  BY <1>1, <1>2, ShellCounts DEF ShellInOrder
<1>5. Taken + 1 <= execCount
  BY <1>2, ShellCounts DEF Taken, Answered
<1>6. ShellInOrder'
  <2>1. DOMAIN Tail(replies) = 1 .. Len(replies) - 1
    BY <1>2, LenProperties
  <2>2. ASSUME NEW i \in 1 .. Len(replies) - 1
        PROVE  Tail(replies)[i].of = Taken + 1 + i
    <3>1. i + 1 \in DOMAIN replies /\ Tail(replies)[i] = replies[i + 1]
      BY <1>2, ShellCounts
    <3>2. replies[i + 1].of = Taken + (i + 1)
      BY <3>1 DEF ShellInOrder
    <3> QED BY <3>1, <3>2, ShellCounts
  <2> QED BY <1>3, <2>1, <2>2, ShellCounts DEF ShellInOrder
<1> QED BY <1>3, <1>4, <1>5, <1>6

LEMMA ShellInOrderKept ==
    ASSUME TypeOK, ShellInOrder, [Next]_vars, TypeOK'
    PROVE  /\ ShellInOrder'
           /\ Taken' = IF PollOk \/ PollError THEN Taken + 1 ELSE Taken
<1>1. CASE Execute
  <2>1. requests' = Append(requests, execCount + 1) /\ execCount' = execCount + 1
    BY <1>1 DEF Execute, NextCount
  <2>2. requests \in Seq(Nat) /\ execCount + 1 \in Nat
    <3>1. 1 .. execCount \subseteq Nat
      BY ShellCounts
    <3> QED BY <3>1, ShellCounts, SeqMonotonic DEF TypeOK
  <2>3. /\ Len(requests') = Len(requests) + 1
        /\ DOMAIN requests' = 1 .. Len(requests) + 1
        /\ \A i \in 1 .. Len(requests) : requests'[i] = requests[i]
        /\ requests'[Len(requests) + 1] = execCount + 1
    BY <2>1, <2>2, AppendProperties, LenProperties
  <2>4. Taken' = Taken /\ replies' = replies /\ kernel' = kernel
    BY <1>1, <2>1, <2>3, ShellCounts DEF Execute, kernelVars, Taken, Answered
  <2>5. ~ PollOk /\ ~ PollError
    BY <1>1 DEF Execute, PollOk, PollError
  <2>6. \A i \in DOMAIN requests' : requests'[i] = execCount' - Len(requests') + i
    BY <2>1, <2>3, ShellCounts DEF ShellInOrder
  <2> QED BY <2>1, <2>3, <2>4, <2>5, <2>6, ShellCounts DEF ShellInOrder
<1>2. CASE PollOk \/ PollError
  BY <1>2, ReplyTaken DEF PollOk, PollError, kernelVars
<1>3. CASE PollOutput
  <2>1. ~ PollOk /\ ~ PollError
    BY <1>3 DEF PollOutput, PollOk, PollError
  <2> QED BY <1>3, <2>1 DEF PollOutput, kernelVars, ShellInOrder, Taken, Answered
<1>4. CASE Deadline
  <2>1. replies' = replies /\ replies # <<>> => replies' # Tail(replies)
    BY HeadTailProperties, ShellCounts DEF TypeOK
  <2>2. replies' = replies
    BY <1>4 DEF Deadline
  <2>3. ~ PollOk /\ ~ PollError
    BY <2>1, <2>2 DEF PollOk, PollError
  <2> QED BY <1>4, <2>3 DEF Deadline, kernelVars, ShellInOrder, Taken, Answered
<1>5. CASE Start
  <2>1. /\ kernel = 0 /\ kernel' = Head(requests) /\ requests' = Tail(requests)
        /\ requests # <<>> /\ UNCHANGED <<execCount, replies, polling>>
    BY <1>5 DEF Start, engineVars
  <2>2. requests \in Seq(1 .. execCount)
    BY DEF TypeOK
  <2>3. /\ Len(requests) \in Nat \ {0} /\ requests' \in Seq(1 .. execCount)
        /\ Len(requests') = Len(requests) - 1
        /\ \A i \in 1 .. Len(requests') : requests'[i] = requests[i + 1]
        /\ kernel' = requests[1] /\ kernel' \in 1 .. execCount
    <3>1. /\ Len(requests) \in Nat \ {0} /\ Tail(requests) \in Seq(1 .. execCount)
          /\ Len(Tail(requests)) = Len(requests) - 1
          /\ \A i \in 1 .. Len(Tail(requests)) : Tail(requests)[i] = requests[i + 1]
          /\ Head(requests) \in 1 .. execCount
      BY <2>1, <2>2, EmptySeq, HeadTailProperties
    <3>2. Head(requests) = requests[1]
      OBVIOUS
    <3> QED BY <2>1, <3>1, <3>2
  <2>4. DOMAIN requests' = 1 .. Len(requests) - 1
    BY <2>3, LenProperties
  <2>5. Taken' = Taken
    BY <2>1, <2>3, ShellCounts DEF Taken, Answered
  <2>6. kernel' = execCount - Len(requests')
    <3>1. 1 \in DOMAIN requests
      BY <2>3, ShellCounts
    <3>2. requests[1] = execCount - Len(requests) + 1
      BY <3>1 DEF ShellInOrder
    <3> QED BY <2>3, <3>2, ShellCounts
  <2>7. \A i \in DOMAIN requests' : requests'[i] = execCount - Len(requests') + i
    <3> TAKE i \in DOMAIN requests'
    <3>0. i \in 1 .. Len(requests) - 1 /\ Len(requests) \in Nat
      BY <2>4, ShellCounts
    <3>1. i + 1 \in DOMAIN requests /\ requests'[i] = requests[i + 1]
      <4>1. i + 1 \in 1 .. Len(requests) /\ i \in 1 .. Len(requests')
        BY <2>3, <3>0
      <4>2. i + 1 \in DOMAIN requests
        BY <4>1, ShellCounts
      <4> QED BY <2>3, <4>1, <4>2
    <3>2. requests[i + 1] = execCount - Len(requests) + (i + 1)
      BY <3>1 DEF ShellInOrder
    <3> QED BY <2>3, <2>4, <3>1, <3>2, ShellCounts
  <2>8. ~ PollOk /\ ~ PollError
    <3>1. kernel' # kernel
      BY <2>1, <2>3
    <3> QED BY <3>1 DEF PollOk, PollError, kernelVars
  <2> QED BY <2>1, <2>5, <2>6, <2>7, <2>8 DEF ShellInOrder
<1>6. CASE Publish
  <2>1. UNCHANGED <<execCount, polling, requests, replies, kernel>>
    BY <1>6 DEF Publish, engineVars
  <2>2. ~ PollOk /\ ~ PollError
    <3>1. kernel \in Requests /\ printed'[kernel] # printed[kernel]
      BY <1>6, ShellCounts, BoundsArePositive DEF Publish, TypeOK, Requests
    <3> QED BY <3>1 DEF PollOk, PollError, kernelVars
  <2> QED BY <2>1, <2>2 DEF ShellInOrder, Taken, Answered
<1>7. ASSUME NEW status \in {"ok", "error"}, Answer(status)
      PROVE  /\ ShellInOrder'
             /\ Taken' = IF PollOk \/ PollError THEN Taken + 1 ELSE Taken
  <2>1. /\ kernel # 0 /\ kernel' = 0
        /\ replies' = Append(replies, [of |-> kernel, status |-> status])
        /\ UNCHANGED <<execCount, requests>>
    BY <1>7 DEF Answer, engineVars
  <2>2. [of |-> kernel, status |-> status] \in Replies(execCount)
    BY <2>1, ShellCounts DEF TypeOK, Replies, Statuses
  <2>3. replies \in Seq(Replies(execCount))
    BY DEF TypeOK, Replies
  <2>4. /\ Len(replies') = Len(replies) + 1
        /\ DOMAIN replies' = 1 .. Len(replies) + 1
        /\ \A i \in 1 .. Len(replies) : replies'[i] = replies[i]
        /\ replies'[Len(replies) + 1].of = kernel
    <3> DEFINE reply == [of |-> kernel, status |-> status]
    <3>1. /\ replies' = Append(replies, reply) /\ reply \in Replies(execCount)
          /\ reply.of = kernel
      BY <2>1, <2>2
    <3> HIDE DEF reply
    <3>2. /\ replies' \in Seq(Replies(execCount))
          /\ Len(replies') = Len(replies) + 1
          /\ \A i \in 1 .. Len(replies) : replies'[i] = replies[i]
          /\ replies'[Len(replies) + 1] = reply
      BY <2>3, <3>1, AppendProperties
    <3> QED BY <3>1, <3>2, LenProperties
  <2>5. Taken' = Taken /\ kernel = Taken + Len(replies) + 1
    <3>1. kernel = execCount - Len(requests) /\ Answered = kernel - 1 /\ Answered' = kernel
      BY <2>1, ShellCounts DEF ShellInOrder, Answered
    <3>2. Taken = kernel - 1 - Len(replies)
      BY <3>1 DEF Taken
    <3>3. Taken' = kernel - (Len(replies) + 1)
      BY <2>4, <3>1 DEF Taken
    <3>4. kernel \in Nat /\ Len(replies) \in Nat
      BY ShellCounts
    <3> QED BY <3>2, <3>3, <3>4
  <2>6. \A i \in DOMAIN replies' : replies'[i].of = Taken + i
    <3> TAKE i \in DOMAIN replies'
    <3>1. CASE i = Len(replies) + 1
      BY <2>4, <2>5, <3>1, ShellCounts
    <3>2. CASE i \in DOMAIN replies
      <4>1. replies[i].of = Taken + i
        BY <3>2 DEF ShellInOrder
      <4> QED BY <2>4, <3>2, <4>1, ShellCounts
    <3> QED BY <2>4, <3>1, <3>2, ShellCounts
  <2>7. ~ PollOk /\ ~ PollError
    BY <2>1 DEF PollOk, PollError, kernelVars
  <2> QED BY <2>1, <2>5, <2>6, <2>7 DEF ShellInOrder
<1>8. CASE Subscribe
  <2>1. UNCHANGED <<execCount, polling, requests, replies, kernel>> /\ subscribed' # subscribed
    BY <1>8 DEF Subscribe, engineVars
  <2>2. ~ PollOk /\ ~ PollError
    BY <2>1 DEF PollOk, PollError, kernelVars
  <2> QED BY <2>1, <2>2 DEF ShellInOrder, Taken, Answered
<1>9. CASE UNCHANGED vars
  <2>1. UNCHANGED <<execCount, requests, replies, kernel>>
    BY <1>9 DEF vars, engineVars, kernelVars
  <2>2. replies # <<>> => replies' # Tail(replies)
    BY <2>1, HeadTailProperties, ShellCounts DEF TypeOK
  <2>3. ~ PollOk /\ ~ PollError
    BY <2>2 DEF PollOk, PollError
  <2> QED BY <2>1, <2>3 DEF ShellInOrder, Taken, Answered
<1> QED BY <1>1, <1>2, <1>3, <1>4, <1>5, <1>6, <1>7, <1>8, <1>9 DEF Next, Poll

LEMMA TakeOutputKeeps ==
    ASSUME TypeOK, polling, NEW R \in [Requests -> Results(execCount)], TakeOutput(R)
    PROVE  \A n \in Requests :
               /\ result'[n].status = R[n].status /\ result'[n].replyOf = R[n].replyOf
               /\ result'[n].late = R[n].late
               /\ n # execCount => result'[n] = R[n]
<1>1. execCount \in Requests
  BY BoundsArePositive DEF TypeOK, Requests
<1>2. CASE iopub = <<>>
  BY <1>2 DEF TakeOutput
<1>3. CASE iopub # <<>>
  <2>1. result' = [R EXCEPT ![execCount].output = Append(@, Head(iopub))]
    BY <1>3 DEF TakeOutput
  <2>2. \A n \in Requests : R[n] \in Results(execCount)
    OBVIOUS
  <2> QED BY <1>1, <2>1, <2>2 DEF Results
<1> QED BY <1>2, <1>3

\* A reply is written into the running call, and it is the right one unless an
\* earlier call went without.
LEMMA ReplyRecorded ==
    ASSUME TypeOK, ShellInvariant, polling, replies # <<>>,
           UNCHANGED execCount, Taken' = Taken + 1,
           polling' \in BOOLEAN, ~ polling' => Head(replies).status = "ok",
           \A n \in Requests :
               /\ result'[n].status = Replied[n].status
               /\ result'[n].replyOf = Replied[n].replyOf
               /\ result'[n].late = Replied[n].late
               /\ n # execCount => result'[n] = Replied[n]
    PROVE  CallsKeepUp' /\ ResultsAgree'
<1>1. execCount \in Requests /\ execCount \in Nat
  BY BoundsArePositive DEF TypeOK, Requests
<1>2. /\ Head(replies).of = Taken + 1 /\ Taken + 1 <= execCount
      /\ Taken \in Int /\ Taken >= 0
  <2>1. replies \in Seq(Replies(execCount))
    BY DEF TypeOK, Replies
  <2>2. Len(replies) \in Nat \ {0} /\ replies[1] = Head(replies)
    BY <2>1, EmptySeq
  <2>3. 1 \in DOMAIN replies
    BY <2>2, ShellCounts
  <2>4. replies[1].of = Taken + 1 /\ Taken >= 0
    BY <2>3, ShellCounts DEF ShellInvariant, ShellInOrder
  <2>5. Taken + 1 <= execCount
    BY <2>2, ShellCounts DEF Taken, Answered
  <2> QED BY <2>2, <2>4, <2>5, ShellCounts
<1>3. result \in [Requests -> Results(execCount)]
  BY DEF TypeOK, Results, Messages, MessagesOf
<1>4. /\ result'[execCount].replyOf = Taken + 1
      /\ result'[execCount].status = Head(replies).status
      /\ \A n \in Requests \ {execCount} : result'[n] = result[n]
  BY <1>1, <1>2, <1>3 DEF Replied, Results
<1>5. CallsKeepUp'
  <2> SUFFICES ASSUME NEW n \in 1 .. execCount, \A m \in 1 .. n : result'[m].replyOf # 0
               PROVE  Taken + 1 >= n
    BY DEF CallsKeepUp
  <2>1. CASE n = 1
    BY <1>2, <2>1
  <2>2. CASE n > 1
    <3>1. n - 1 \in 1 .. execCount /\ \A m \in 1 .. n - 1 : m \in Requests \ {execCount}
      BY <1>1, <2>2, BoundsArePositive DEF Requests
    <3>2. \A m \in 1 .. n - 1 : result[m].replyOf # 0
      BY <1>1, <1>4, <3>1
    <3>3. Taken >= n - 1
      BY <3>1, <3>2 DEF ShellInvariant, CallsKeepUp
    <3> QED BY <1>1, <1>2, <3>3
  <2> QED BY <1>1, <2>1, <2>2
<1>6. ResultsAgree'
  <2> SUFFICES ASSUME NEW n \in Requests
               PROVE  /\ n > execCount => result'[n] = NoResult
                      /\ result'[n].status = "ok" => result'[n].replyOf # 0
                      /\ Returned(n)' /\ ~ result'[n].late => result'[n].status = "ok"
                      /\ (\A m \in 1 .. n - 1 : result'[m].replyOf # 0) =>
                             result'[n].replyOf \in {0, n}
    BY DEF ResultsAgree
  <2>1. CASE n = execCount
    <3>1. result'[n].replyOf # 0
      BY <1>2, <1>4, <2>1
    <3>2. Returned(n)' => result'[n].status = "ok"
      BY <1>1, <1>4, <2>1 DEF Returned
    <3>3. ASSUME \A m \in 1 .. n - 1 : result'[m].replyOf # 0
          PROVE  result'[n].replyOf = n
      <4>1. Taken >= n - 1
        <5>1. CASE n = 1
          BY <1>2, <5>1
        <5>2. CASE n > 1
          <6>1. n - 1 \in 1 .. execCount /\ \A m \in 1 .. n - 1 : m \in Requests \ {execCount}
            BY <1>1, <2>1, <5>2, BoundsArePositive DEF Requests
          <6>2. \A m \in 1 .. n - 1 : result[m].replyOf # 0
            BY <1>4, <3>3, <6>1
          <6> QED BY <6>1, <6>2 DEF ShellInvariant, CallsKeepUp
        <5> QED BY <1>1, <2>1, <5>1, <5>2 DEF Requests
      <4> QED BY <1>1, <1>2, <1>4, <2>1, <4>1
    <3> QED BY <1>1, <2>1, <3>1, <3>2, <3>3
  <2>2. CASE n < execCount
    <3>1. /\ result'[n] = result[n] /\ Returned(n)
          /\ \A m \in 1 .. n - 1 : result'[m] = result[m]
      BY <1>1, <1>4, <2>2, BoundsArePositive DEF Requests, Returned
    <3> QED BY <1>1, <2>2, <3>1 DEF ShellInvariant, ResultsAgree, Requests
  <2>3. CASE n > execCount
    <3>1. result'[n] = NoResult
      BY <1>1, <1>4, <2>3 DEF ShellInvariant, ResultsAgree, Requests
    <3>2. ~ Returned(n)'
      BY <1>1, <2>3 DEF Returned, Requests
    <3> QED BY <3>1, <3>2 DEF NoResult
  <2> QED BY <1>1, <2>1, <2>2, <2>3 DEF Requests
<1> QED BY <1>5, <1>6

\* Every other step leaves the replies that calls were given alone.
LEMMA RepliesLeft ==
    ASSUME TypeOK, ShellInvariant, Taken' = Taken,
           execCount' \in Nat, execCount' >= execCount,
           \A n \in Requests :
               /\ result'[n].status = result[n].status
               /\ result'[n].replyOf = result[n].replyOf
               /\ n > execCount' => result'[n] = result[n]
               /\ Returned(n)' /\ ~ result'[n].late =>
                      Returned(n) /\ ~ result[n].late,
           execCount' > execCount =>
               execCount' = execCount + 1 /\ execCount' \in Requests
    PROVE  CallsKeepUp' /\ ResultsAgree'
<1>1. execCount \in Nat /\ execCount <= MaxExecutes /\ MaxExecutes \in Nat
  BY BoundsArePositive DEF TypeOK
<1>2. \A n \in Requests : result'[n].replyOf = result[n].replyOf
  OBVIOUS
<1>3. CallsKeepUp'
  <2> SUFFICES ASSUME NEW n \in 1 .. execCount', \A m \in 1 .. n : result'[m].replyOf # 0
               PROVE  Taken >= n
    BY DEF CallsKeepUp
  <2>1. CASE n <= execCount
    <3>1. \A m \in 1 .. n : m \in Requests /\ result[m].replyOf # 0
      BY <1>1, <1>2, <2>1 DEF Requests
    <3> QED BY <1>1, <2>1, <3>1 DEF ShellInvariant, CallsKeepUp
  <2>2. CASE n > execCount
    <3>1. n \in Requests /\ n > execCount
      BY <1>1, <2>2
    <3>2. result[n] = NoResult
      BY <3>1 DEF ShellInvariant, ResultsAgree
    <3>3. n \in 1 .. n
      BY <3>1 DEF Requests
    <3> QED BY <1>2, <3>1, <3>2, <3>3 DEF NoResult
  <2> QED BY <1>1, <2>1, <2>2
<1>4. ResultsAgree'
  <2> SUFFICES ASSUME NEW n \in Requests
               PROVE  /\ n > execCount' => result'[n] = NoResult
                      /\ result'[n].status = "ok" => result'[n].replyOf # 0
                      /\ Returned(n)' /\ ~ result'[n].late => result'[n].status = "ok"
                      /\ (\A m \in 1 .. n - 1 : result'[m].replyOf # 0) =>
                             result'[n].replyOf \in {0, n}
    BY DEF ResultsAgree
  <2>1. \A m \in 1 .. n - 1 : m \in Requests
    BY <1>1 DEF Requests
  <2>2. n > execCount' => n > execCount
    BY <1>1 DEF Requests
  <2> QED BY <1>2, <2>1, <2>2 DEF ShellInvariant, ResultsAgree
<1> QED BY <1>3, <1>4

LEMMA InitShell ==
    ASSUME Init
    PROVE  ShellInvariant
<1>1. \A n \in Requests : result[n] = NoResult
  BY DEF Init
<1>2. Len(requests) = 0 /\ Len(replies) = 0 /\ DOMAIN requests = {} /\ DOMAIN replies = {}
  BY DEF Init
<1>3. execCount = 0 /\ kernel = 0 /\ ~ polling
  BY DEF Init
<1>4. ShellInOrder
  BY <1>2, <1>3 DEF ShellInOrder, Taken, Answered
<1>5. CallsKeepUp
  BY <1>3 DEF CallsKeepUp
<1>6. ResultsAgree
  <2>1. \A n \in Requests : ~ Returned(n)
    BY <1>3, BoundsArePositive DEF Returned, Requests
  <2> QED BY <1>1, <2>1 DEF ResultsAgree, NoResult
<1> QED BY <1>4, <1>5, <1>6 DEF ShellInvariant

LEMMA ShellInvariantKept ==
    ASSUME TypeOK, ShellInvariant, [Next]_vars, TypeOK'
    PROVE  ShellInvariant'
<1>1. /\ ShellInOrder'
      /\ Taken' = IF PollOk \/ PollError THEN Taken + 1 ELSE Taken
  BY ShellInOrderKept DEF ShellInvariant
<1>2. execCount \in Nat /\ Taken \in Int /\ MaxExecutes \in Nat
  BY ShellCounts, BoundsArePositive
<1>3. result \in [Requests -> Results(execCount)]
  BY DEF TypeOK, Results, Messages, MessagesOf
<1>4. CASE PollOk
  <2>1. /\ polling /\ replies # <<>> /\ Head(replies).status = "ok"
        /\ result' = Replied /\ UNCHANGED execCount
    BY <1>4 DEF PollOk
  <2>2. polling' \in BOOLEAN
    BY DEF TypeOK
  <2>3. Taken' = Taken + 1
    BY <1>1, <1>4
  <2>4. CallsKeepUp' /\ ResultsAgree'
    BY <2>1, <2>2, <2>3, ReplyRecorded
  <2> QED BY <1>1, <2>4 DEF ShellInvariant
<1>5. CASE PollError
  <2>1. /\ polling /\ polling' = polling /\ replies # <<>>
        /\ TakeOutput(Replied) /\ UNCHANGED execCount
    BY <1>5 DEF PollError, KeepPolling
  <2>2. Replied \in [Requests -> Results(execCount)]
    BY <2>1, RepliedTyped
  <2>3. \A n \in Requests :
            /\ result'[n].status = Replied[n].status
            /\ result'[n].replyOf = Replied[n].replyOf
            /\ result'[n].late = Replied[n].late
            /\ n # execCount => result'[n] = Replied[n]
    BY <2>1, <2>2, TakeOutputKeeps
  <2>4. Taken' = Taken + 1
    BY <1>1, <1>5
  <2>5. polling' \in BOOLEAN /\ polling'
    BY <2>1 DEF TypeOK
  <2>6. CallsKeepUp' /\ ResultsAgree'
    BY <2>1, <2>3, <2>4, <2>5, ReplyRecorded
  <2> QED BY <1>1, <2>6 DEF ShellInvariant
<1>6. CASE ~ PollOk /\ ~ PollError
  <2>0. Taken' = Taken
    BY <1>1, <1>6
  <2> SUFFICES
         /\ execCount' \in Nat /\ execCount' >= execCount
         /\ \A n \in Requests :
               /\ result'[n].status = result[n].status
               /\ result'[n].replyOf = result[n].replyOf
               /\ n > execCount' => result'[n] = result[n]
               /\ Returned(n)' /\ ~ result'[n].late =>
                      Returned(n) /\ ~ result[n].late
         /\ execCount' > execCount =>
               execCount' = execCount + 1 /\ execCount' \in Requests
    BY <1>1, <2>0, RepliesLeft DEF ShellInvariant
  <2>1. CASE Execute
    <3>1. /\ execCount' = execCount + 1 /\ execCount < MaxExecutes
          /\ ~ polling /\ polling' /\ result' = result
      BY <2>1 DEF Execute, NextCount
    <3>2. \A n \in Requests : Returned(n)' => Returned(n)
      BY <1>2, <3>1 DEF Returned, Requests
    <3> QED BY <1>2, <3>1, <3>2 DEF Requests
  <2>2. CASE PollOutput
    <3>1. polling /\ polling' = polling /\ TakeOutput(result) /\ UNCHANGED execCount
      BY <2>2 DEF PollOutput, KeepPolling
    <3>2. \A n \in Requests :
              /\ result'[n].status = result[n].status
              /\ result'[n].replyOf = result[n].replyOf
              /\ result'[n].late = result[n].late
              /\ n # execCount => result'[n] = result[n]
      BY <1>3, <3>1, TakeOutputKeeps
    <3>3. \A n \in Requests : n > execCount => n # execCount
      BY <1>2 DEF Requests
    <3> QED BY <1>2, <3>1, <3>2, <3>3 DEF Returned
  <2>3. CASE Deadline
    <3>1. /\ polling /\ UNCHANGED execCount
          /\ result' = [result EXCEPT ![execCount].late = TRUE]
      BY <2>3 DEF Deadline
    <3>2. execCount \in Requests
      BY <3>1, <1>2 DEF TypeOK, Requests
    <3>3. /\ result'[execCount].late
          /\ \A n \in Requests : n # execCount => result'[n] = result[n]
          /\ \A n \in Requests : /\ result'[n].status = result[n].status
                                 /\ result'[n].replyOf = result[n].replyOf
      BY <1>3, <3>1, <3>2 DEF Results
    <3>4. ASSUME NEW n \in Requests, Returned(n)', ~ result'[n].late
          PROVE  Returned(n) /\ result'[n] = result[n]
      BY <1>2, <3>1, <3>3, <3>4 DEF Returned, Requests
    <3>5. \A n \in Requests : n > execCount => n # execCount
      BY <1>2 DEF Requests
    <3> QED BY <1>2, <3>1, <3>3, <3>4, <3>5
  <2>4. CASE UNCHANGED engineVars
    BY <1>2, <2>4 DEF engineVars, Returned
  <2>5. Execute \/ PollOutput \/ Deadline \/ UNCHANGED engineVars
    BY <1>6 DEF Next, Poll, Start, Publish, Answer, Subscribe, vars
  <2> QED BY <2>1, <2>2, <2>3, <2>4, <2>5
<1> QED BY <1>4, <1>5, <1>6

\* The shell socket holds every request between the first whose reply was not
\* taken and the last sent, in order, and the calls that were given a reply have
\* kept up with it: the invariant the two theorems below need.
THEOREM ShellInvariantHolds == Spec => [](TypeOK /\ ShellInvariant)
<1>1. Init => ShellInvariant
  BY InitShell
<1>2. TypeOK /\ ShellInvariant /\ [Next]_vars /\ TypeOK' => ShellInvariant'
  BY ShellInvariantKept
<1> QED BY <1>1, <1>2, ZmqTypeCorrect, PTL DEF Spec

\* Whatever the kernel and the deadlines do, a call is given the reply of an
\* earlier request only after a call that ran into its deadline without one.
THEOREM StaleReplyHasCauseHolds == Spec => []StaleReplyHasCause
<1>1. TypeOK /\ ShellInvariant => StaleReplyHasCause
  <2> SUFFICES ASSUME TypeOK, ShellInvariant,
                      NEW n \in Requests, result[n].replyOf \notin {0, n}
               PROVE  \E m \in 1 .. n - 1 :
                          Returned(m) /\ result[m].late /\ result[m].replyOf = 0
    BY DEF StaleReplyHasCause
  <2>1. PICK m \in 1 .. n - 1 : result[m].replyOf = 0
    BY DEF ShellInvariant, ResultsAgree
  <2>2. n <= execCount
    <3>1. CASE n > execCount
      <4>1. result[n].replyOf = 0
        BY <3>1 DEF ShellInvariant, ResultsAgree, NoResult
      <4> QED BY <4>1
    <3> QED BY <3>1, ShellCounts DEF Requests
  <2>3. m \in Requests /\ Returned(m)
    BY <2>1, <2>2, ShellCounts, BoundsArePositive DEF Requests, Returned
  <2>4. result[m].late
    <3>1. result[m] \in Results(execCount)
      BY <2>3 DEF TypeOK, Results, Messages, MessagesOf
    <3> QED BY <2>1, <2>3, <3>1 DEF ShellInvariant, ResultsAgree, Results
  <2> QED BY <2>1, <2>3, <2>4
<1> QED BY <1>1, ShellInvariantHolds, PTL

\* Only an "ok" reply ends a call before its deadline, and as long as no call
\* ran into it, a call that has returned leaves nothing on the shell socket.
THEOREM OnTimeLeavesShellCleanHolds == Spec => []OnTimeLeavesShellClean
<1>1. TypeOK /\ ShellInvariant => OnTimeLeavesShellClean
  <2> SUFFICES ASSUME TypeOK, ShellInvariant PROVE OnTimeLeavesShellClean
    OBVIOUS
  <2>1. \A n \in Requests : Returned(n) /\ ~ result[n].late => result[n].status = "ok"
    BY DEF ShellInvariant, ResultsAgree
  <2>2. ASSUME ~ polling, \A n \in 1 .. execCount : ~ result[n].late
        PROVE  requests = <<>> /\ kernel = 0 /\ replies = <<>>
    <3>1. ASSUME NEW n \in 1 .. execCount
          PROVE  result[n].replyOf # 0
      <4>1. n \in Requests /\ Returned(n)
        BY <2>2, ShellCounts, BoundsArePositive DEF TypeOK, Requests, Returned
      <4>2. result[n].status = "ok"
        BY <2>1, <2>2, <3>1, <4>1
      <4> QED BY <4>1, <4>2 DEF ShellInvariant, ResultsAgree
    <3>2. Taken >= execCount
      <4>1. CASE execCount = 0
        BY <4>1, ShellCounts DEF ShellInvariant, ShellInOrder
      <4>2. CASE execCount > 0
        <5>1. execCount \in 1 .. execCount
          BY <4>2, ShellCounts
        <5> QED BY <3>1, <5>1 DEF ShellInvariant, CallsKeepUp
      <4> QED BY <4>1, <4>2, ShellCounts
    <3>3. Len(requests) = 0 /\ kernel = 0 /\ Len(replies) = 0
      BY <3>2, ShellCounts DEF Taken, Answered
    <3> QED BY <3>3, EmptySeq DEF TypeOK
  <2> QED BY <2>1, <2>2 DEF OnTimeLeavesShellClean
<1> QED BY <1>1, ShellInvariantHolds, PTL
-----------------------------------------------------------------------------
(* The output.                                                             *)

Last == MaxExecutes + 1
Begun == execCount - Len(requests)

LEMMA CapturedTyped ==
    ASSUME TypeOK, NEW n \in 1 .. Last
    PROVE  /\ Captured(n) \in Seq(MessagesOf(execCount))
           /\ Len(Captured(n)) \in Nat /\ DOMAIN Captured(n) = 1 .. Len(Captured(n))
           /\ \A i \in DOMAIN Captured(n) :
                  /\ Captured(n)[i][1] \in 1 .. execCount /\ Captured(n)[i][1] \in Requests
                  /\ Captured(n)[i][1] \in Nat /\ Captured(n)[i][2] \in Nat
                  /\ printed[Captured(n)[i][1]] \in Nat
<1>1. /\ execCount \in Nat /\ execCount <= MaxExecutes /\ MaxExecutes \in Nat /\ MaxOutputs \in Nat
      /\ 1 .. execCount \subseteq Requests
  BY BoundsArePositive DEF TypeOK, Requests
<1>2. Captured(n) \in Seq(MessagesOf(execCount))
  BY DEF TypeOK, Messages, MessagesOf, Captured
<1>3. Len(Captured(n)) \in Nat /\ DOMAIN Captured(n) = 1 .. Len(Captured(n))
  BY <1>2, LenProperties
<1>4. ASSUME NEW i \in DOMAIN Captured(n)
      PROVE  /\ Captured(n)[i][1] \in 1 .. execCount /\ Captured(n)[i][1] \in Requests
             /\ Captured(n)[i][1] \in Nat /\ Captured(n)[i][2] \in Nat
             /\ printed[Captured(n)[i][1]] \in Nat
  <2>1. Captured(n)[i] \in MessagesOf(execCount)
    BY <1>2, <1>3, ElementOfSeq
  <2>2. Captured(n)[i][1] \in 1 .. execCount /\ Captured(n)[i][2] \in 1 .. MaxOutputs
    BY <2>1 DEF MessagesOf
  <2>3. printed[Captured(n)[i][1]] \in 0 .. MaxOutputs
    BY <1>1, <2>2 DEF TypeOK
  <2> QED BY <1>1, <2>2, <2>3
<1> QED BY <1>2, <1>3, <1>4

LEMMA CallsAndLast ==
    /\ Last \in 1 .. Last /\ Last \notin Requests /\ Last \in Nat
    /\ Captured(Last) = iopub
    /\ \A n \in 1 .. Last : n \in Nat /\ (n \in Requests \/ n = Last)
    /\ \A n \in Requests : n \in 1 .. Last /\ n < Last /\ Captured(n) = result[n].output
    /\ Captured(Last)' = iopub'
    /\ \A n \in Requests : Captured(n)' = result'[n].output
<1>1. /\ MaxExecutes \in Nat /\ Last \in Nat /\ Last \notin Requests /\ Last \in 1 .. Last
      /\ \A n \in 1 .. Last : n \in Nat /\ (n \in Requests \/ n = Last)
      /\ \A n \in Requests : n \in 1 .. Last /\ n < Last
  BY BoundsArePositive DEF Last, Requests
<1> QED BY <1>1 DEF Captured

\* Where no output is taken or published, later requests may begin and more may
\* be printed, unheard.
LEMMA OutputStays ==
    ASSUME TypeOK, OutputInvariant,
           \A n \in 1 .. Last : Captured(n)' = Captured(n),
           \A n \in Requests : printed[n] \in Nat => printed'[n] \in Nat /\ printed'[n] >= printed[n],
           Begun \in Int, Begun' \in Int, Begun' >= Begun
    PROVE  OutputInvariant'
<1>1. ASSUME NEW m \in 1 .. Last, NEW i \in DOMAIN Captured(m)
      PROVE  Captured(m)[i][2] <= printed'[Captured(m)[i][1]] /\ Captured(m)[i][1] <= Begun'
  <2>1. Captured(m)[i][2] <= printed[Captured(m)[i][1]] /\ Captured(m)[i][1] <= Begun
    BY DEF OutputInvariant, OutputOnceInOrder, Last, Begun
  <2> QED BY <2>1, CapturedTyped
<1>2. OutputOnceInOrder'
  BY <1>1 DEF OutputInvariant, OutputOnceInOrder, Last
<1>3. \A n \in 1 .. Last : \A i \in DOMAIN Captured(n)' : Captured(n)'[i][1] <= Begun'
  BY <1>1
<1> QED BY <1>2, <1>3 DEF OutputInvariant, Begun, Last

\* The message at the head of the socket becomes the last of the running call.
LEMMA OutputTaken ==
    ASSUME TypeOK, OutputInvariant, polling, iopub # <<>>,
           UNCHANGED <<execCount, requests, printed>>, iopub' = Tail(iopub),
           \A n \in Requests : n > execCount => result[n].output = <<>>,
           \A n \in Requests :
               result'[n].output = IF n = execCount THEN Append(result[n].output, Head(iopub))
                                                    ELSE result[n].output
    PROVE  OutputInvariant'
<1> DEFINE e == execCount
           k == Len(result[e].output)
<1>0. PICK call \in Requests : call = e
  BY BoundsArePositive DEF TypeOK, Requests
<1>1. PICK last \in Nat : last = k
  BY <1>0, CapturedTyped, CallsAndLast
<1>2. /\ DOMAIN Captured(Last)' = 1 .. Len(iopub) - 1 /\ DOMAIN Captured(Last) = 1 .. Len(iopub)
      /\ Len(iopub) \in Nat \ {0}
      /\ \A i \in 1 .. Len(iopub) - 1 : Captured(Last)'[i] = Captured(Last)[i + 1]
  <2>1. iopub \in Seq(MessagesOf(e)) /\ Len(iopub) \in Nat \ {0}
    BY CapturedTyped, CallsAndLast, EmptySeq
  <2>2. /\ Tail(iopub) \in Seq(MessagesOf(e)) /\ Len(Tail(iopub)) = Len(iopub) - 1
        /\ \A i \in 1 .. Len(iopub) - 1 : Tail(iopub)[i] = iopub[i + 1]
    BY <2>1, HeadTailProperties
  <2>3. DOMAIN Tail(iopub) = 1 .. Len(iopub) - 1 /\ DOMAIN iopub = 1 .. Len(iopub)
    BY <2>1, <2>2, LenProperties
  <2> QED BY <2>1, <2>2, <2>3, CallsAndLast
<1>3. /\ DOMAIN Captured(call)' = 1 .. last + 1 /\ DOMAIN Captured(call) = 1 .. last
      /\ \A i \in 1 .. last : Captured(call)'[i] = Captured(call)[i]
      /\ Captured(call)'[last + 1] = Captured(Last)[1]
  <2> DEFINE out == result[call].output
             head == Head(iopub)
  <2>1. out \in Seq(MessagesOf(e)) /\ head \in MessagesOf(e) /\ head = iopub[1] /\ Len(out) = last
    BY <1>0, <1>1, CapturedTyped, CallsAndLast, HeadTailProperties
  <2>2. result'[call].output = Append(out, head)
    BY <1>0
  <2> HIDE DEF out, head
  <2>3. /\ Append(out, head) \in Seq(MessagesOf(e)) /\ Len(Append(out, head)) = last + 1
        /\ \A i \in 1 .. last : Append(out, head)[i] = out[i]
        /\ Append(out, head)[last + 1] = head
    BY <2>1, AppendProperties
  <2>4. DOMAIN Append(out, head) = 1 .. last + 1 /\ DOMAIN out = 1 .. last
    BY <2>1, <2>3, LenProperties
  <2> QED BY <2>1, <2>2, <2>3, <2>4, CallsAndLast DEF out
<1>4. \A n \in Requests \ {call} : Captured(n)' = Captured(n) /\ (n > call => DOMAIN Captured(n) = {})
  BY <1>0, CallsAndLast
<1> HIDE DEF e, k
<1> DEFINE WasIn(n, i) == IF n = call /\ i = last + 1 THEN Last ELSE n
           WasAt(n, i) == IF n = Last THEN i + 1 ELSE IF n = call /\ i = last + 1 THEN 1 ELSE i
<1>5. ASSUME NEW n \in 1 .. Last, NEW i \in DOMAIN Captured(n)'
      PROVE  /\ WasIn(n, i) \in 1 .. Last /\ WasAt(n, i) \in DOMAIN Captured(WasIn(n, i))
             /\ Captured(n)'[i] = Captured(WasIn(n, i))[WasAt(n, i)] /\ i \in Nat
  <2>1. CASE n = Last
    <3>1. i \in 1 .. Len(iopub) - 1 /\ n # call
      BY <1>2, <2>1, CallsAndLast
    <3>2. i + 1 \in 1 .. Len(iopub) /\ i \in Nat
      BY <1>2, <3>1
    <3>3. WasIn(n, i) = Last /\ WasAt(n, i) = i + 1
      BY <2>1, <3>1
    <3> HIDE DEF WasIn, WasAt
    <3> QED BY <1>2, <2>1, <3>1, <3>2, <3>3, CallsAndLast
  <2>2. CASE n = call
    <3>1. n # Last /\ i \in 1 .. last + 1 /\ i \in Nat
      BY <1>3, <2>2, CallsAndLast
    <3>2. CASE i = last + 1
      <4>1. WasIn(n, i) = Last /\ WasAt(n, i) = 1
        BY <2>2, <3>1, <3>2
      <4>2. 1 \in DOMAIN Captured(Last)
        BY <1>2
      <4> HIDE DEF WasIn, WasAt
      <4> QED BY <1>3, <2>2, <3>1, <3>2, <4>1, <4>2, CallsAndLast
    <3>3. CASE i # last + 1
      <4>1. WasIn(n, i) = call /\ WasAt(n, i) = i
        BY <2>2, <3>1, <3>3
      <4>2. i \in 1 .. last
        BY <3>1, <3>3
      <4> HIDE DEF WasIn, WasAt
      <4> QED BY <1>3, <2>2, <3>1, <4>1, <4>2
    <3> QED BY <3>2, <3>3
  <2>3. CASE n # Last /\ n # call
    <3>1. n \in Requests \ {call}
      BY <2>3, CallsAndLast
    <3>2. WasIn(n, i) = n /\ WasAt(n, i) = i
      BY <2>3
    <3>3. i \in Nat
      BY <1>4, <3>1, CapturedTyped
    <3> HIDE DEF WasIn, WasAt
    <3> QED BY <1>4, <3>1, <3>2, <3>3
  <2> QED BY <2>1, <2>2, <2>3
<1>6. ASSUME NEW m \in 1 .. Last, NEW i \in DOMAIN Captured(m)',
             NEW n \in 1 .. Last, NEW j \in DOMAIN Captured(n)', Earlier(<<m, i>>, <<n, j>>)
      PROVE  Earlier(<<WasIn(m, i), WasAt(m, i)>>, <<WasIn(n, j), WasAt(n, j)>>)
  <2>1. i \in Nat /\ j \in Nat /\ m \in Nat /\ n \in Nat /\ m <= Last /\ n <= Last /\ call < Last /\ call \in Nat /\ Last \in Nat
    BY <1>5, CallsAndLast
  <2>2. m < n \/ (m = n /\ i < j)
    BY <1>6 DEF Earlier
  <2>3. m = call => i <= last + 1
    BY <1>3
  <2>4. n = call => j <= last + 1
    BY <1>3
  <2>5. n = Last => j >= 1
    BY <1>2
  <2>6. n > call => n = Last
    BY <1>4, <2>1, CallsAndLast
  <2> QED BY <1>1, <2>1, <2>2, <2>3, <2>4, <2>5, <2>6 DEF Earlier
<1> HIDE DEF WasIn, WasAt
<1>7. ASSUME NEW m \in 1 .. Last, NEW i \in DOMAIN Captured(m)'
      PROVE  /\ Captured(m)'[i][1] <= m
             /\ Captured(m)'[i][2] <= printed[Captured(m)'[i][1]]
             /\ Captured(m)'[i][1] <= Begun
  <2> DEFINE a == WasIn(m, i)
             b == WasAt(m, i)
  <2>1. a \in 1 .. Last /\ b \in DOMAIN Captured(a) /\ Captured(m)'[i] = Captured(a)[b]
    BY <1>5
  <2> HIDE DEF a, b
  <2>2. /\ Captured(a)[b][2] <= printed[Captured(a)[b][1]] /\ Captured(a)[b][1] <= Begun
        /\ Captured(a)[b][1] <= a /\ Captured(a)[b][1] \in 1 .. execCount
    BY <2>1, CapturedTyped DEF OutputInvariant, OutputOnceInOrder, Begun, Last
  <2>3. a = m \/ m = call
    BY DEF WasIn, a
  <2>4. call = execCount
    BY <1>0 DEF e
  <2> QED BY <2>1, <2>2, <2>3, <2>4, CapturedTyped
<1>8. ASSUME NEW m \in 1 .. Last, NEW i \in DOMAIN Captured(m)',
             NEW n \in 1 .. Last, NEW j \in DOMAIN Captured(n)', Earlier(<<m, i>>, <<n, j>>)
      PROVE  Earlier(Captured(m)'[i], Captured(n)'[j])
  <2> DEFINE a == WasIn(m, i)
             b == WasAt(m, i)
             c == WasIn(n, j)
             d == WasAt(n, j)
  <2>1. /\ a \in 1 .. Last /\ b \in DOMAIN Captured(a) /\ Captured(m)'[i] = Captured(a)[b]
        /\ c \in 1 .. Last /\ d \in DOMAIN Captured(c) /\ Captured(n)'[j] = Captured(c)[d]
    BY <1>5
  <2>2. Earlier(<<a, b>>, <<c, d>>)
    BY <1>6, <1>8
  <2> HIDE DEF a, b, c, d
  <2>3. Earlier(Captured(a)[b], Captured(c)[d])
    BY <2>1, <2>2 DEF OutputInvariant, OutputOnceInOrder, Last
  <2> QED BY <2>1, <2>3
<1>9. OutputOnceInOrder'
  BY <1>7, <1>8 DEF OutputOnceInOrder, Last
<1> QED BY <1>7, <1>9 DEF OutputInvariant, Begun, Last

\* A new message comes after all others.
LEMMA OutputPublished ==
    ASSUME TypeOK, ShellInOrder, OutputInvariant, Publish, subscribed
    PROVE  OutputInvariant'
<1>0. PICK k \in Requests : k = kernel
  BY BoundsArePositive DEF Publish, TypeOK, Requests
<1>1. /\ k = Begun /\ k \in Nat /\ k <= execCount
      /\ printed[k] \in Nat /\ printed'[k] = printed[k] + 1
      /\ \A n \in Requests \ {k} : printed'[n] = printed[n]
      /\ UNCHANGED <<execCount, requests, result>>
  <2>1. k # 0 /\ k = Begun /\ k \in Nat /\ k <= execCount
    BY <1>0, ShellCounts DEF Publish, ShellInOrder, Begun, TypeOK
  <2>2. /\ printed \in [Requests -> 0 .. MaxOutputs] /\ printed' = [printed EXCEPT ![k] = @ + 1]
        /\ UNCHANGED <<execCount, requests, result>>
    BY <1>0 DEF Publish, TypeOK, engineVars
  <2> QED BY <2>1, <2>2, BoundsArePositive
<1> DEFINE x == <<k, printed'[k]>>
<1>2. PICK len \in Nat : len = Len(iopub)
  BY CapturedTyped, CallsAndLast
<1>3. /\ DOMAIN Captured(Last)' = 1 .. len + 1 /\ DOMAIN Captured(Last) = 1 .. len
      /\ \A i \in 1 .. len : Captured(Last)'[i] = Captured(Last)[i]
      /\ Captured(Last)'[len + 1] = x
  <2> DEFINE all == MessagesOf(execCount) \cup {x}
  <2>1. iopub' = Append(iopub, x)
    BY <1>0 DEF Publish
  <2>2. iopub \in Seq(all) /\ x \in all /\ Len(iopub) = len
    <3>1. iopub \in Seq(MessagesOf(execCount)) /\ MessagesOf(execCount) \subseteq all
      BY CapturedTyped, CallsAndLast
    <3> HIDE DEF all
    <3>2. iopub \in Seq(all)
      BY <3>1, SeqMonotonic
    <3> QED BY <1>2, <3>2 DEF all
  <2> HIDE DEF all, x
  <2>3. /\ Append(iopub, x) \in Seq(all) /\ Len(Append(iopub, x)) = len + 1
        /\ \A i \in 1 .. len : Append(iopub, x)[i] = iopub[i]
        /\ Append(iopub, x)[len + 1] = x
    BY <2>2, AppendProperties
  <2>4. DOMAIN Append(iopub, x) = 1 .. len + 1 /\ DOMAIN iopub = 1 .. len
    BY <2>2, <2>3, LenProperties
  <2> QED BY <2>1, <2>3, <2>4, CallsAndLast
<1>4. \A n \in Requests : Captured(n)' = Captured(n)
  BY <1>1, CallsAndLast
<1>5. ASSUME NEW n \in 1 .. Last, NEW i \in DOMAIN Captured(n)'
      PROVE  \/ n = Last /\ i = len + 1 /\ Captured(n)'[i] = x
             \/ /\ i \in DOMAIN Captured(n) /\ Captured(n)'[i] = Captured(n)[i]
                /\ n = Last => i \in 1 .. len
  <2>1. CASE n = Last
    <3> HIDE DEF x
    <3>1. DOMAIN Captured(n)' = 1 .. len + 1 /\ Captured(n)'[len + 1] = x
      BY <1>3, <2>1
    <3>2. \A h \in 1 .. len : h \in DOMAIN Captured(n) /\ Captured(n)'[h] = Captured(n)[h]
      BY <1>3, <2>1
    <3>3. i = len + 1 \/ i \in 1 .. len
      BY <1>2, <3>1
    <3> QED BY <2>1, <3>1, <3>2, <3>3
  <2>2. CASE n \in Requests
    BY <1>4, <2>2, CallsAndLast
  <2> QED BY <2>1, <2>2, CallsAndLast
<1>6. ASSUME NEW n \in 1 .. Last, NEW i \in DOMAIN Captured(n)
      PROVE  /\ Captured(n)[i][1] <= n /\ Captured(n)[i][1] <= Begun
             /\ Captured(n)[i][2] <= printed[Captured(n)[i][1]]
             /\ Captured(n)[i][2] <= printed'[Captured(n)[i][1]]
             /\ Earlier(Captured(n)[i], x)
  <2>1. /\ Captured(n)[i][1] <= n /\ Captured(n)[i][1] <= Begun
        /\ Captured(n)[i][2] <= printed[Captured(n)[i][1]]
    BY DEF OutputInvariant, OutputOnceInOrder, Last, Begun
  <2>2. Captured(n)[i][2] <= printed'[Captured(n)[i][1]]
    <3> DEFINE message == Captured(n)[i]
    <3>1. /\ message[1] \in Requests /\ message[2] \in Nat /\ printed[message[1]] \in Nat
          /\ message[2] <= printed[message[1]]
      BY <2>1, CapturedTyped
    <3> HIDE DEF message
    <3>2. CASE message[1] = k
      BY <1>1, <3>1, <3>2 DEF message
    <3>3. CASE message[1] # k
      BY <1>1, <3>1, <3>3 DEF message
    <3> QED BY <3>2, <3>3
  <2>3. Earlier(Captured(n)[i], x)
    <3>1. CASE Captured(n)[i][1] = k
      BY <1>1, <2>1, <3>1, CapturedTyped DEF Earlier
    <3>2. CASE Captured(n)[i][1] # k
      BY <1>1, <2>1, <3>2, CapturedTyped DEF Earlier
    <3> QED BY <3>1, <3>2
  <2> QED BY <2>1, <2>2, <2>3
<1>7. ASSUME NEW m \in 1 .. Last, NEW i \in DOMAIN Captured(m)'
      PROVE  /\ Captured(m)'[i][1] <= m
             /\ Captured(m)'[i][2] <= printed'[Captured(m)'[i][1]]
             /\ Captured(m)'[i][1] <= Begun
  <2>1. x[1] = k /\ x[2] = printed'[k] /\ printed'[k] \in Nat /\ k <= Last
    BY <1>1, CallsAndLast
  <2> HIDE DEF x
  <2> QED BY <1>1, <1>5, <1>6, <2>1
<1>8. ASSUME NEW m \in 1 .. Last, NEW i \in DOMAIN Captured(m)',
             NEW n \in 1 .. Last, NEW j \in DOMAIN Captured(n)', Earlier(<<m, i>>, <<n, j>>)
      PROVE  Earlier(Captured(m)'[i], Captured(n)'[j])
  <2>1. m < n \/ (m = n /\ i < j)
    BY <1>8 DEF Earlier
  <2>2. CASE m = Last /\ i = len + 1
    <3>1. n = Last /\ j > len + 1
      BY <2>1, <2>2, CallsAndLast
    <3> QED BY <1>3, <3>1
  <2>3. CASE i \in DOMAIN Captured(m) /\ Captured(m)'[i] = Captured(m)[i]
    <3> HIDE DEF x
    <3>1. CASE Captured(n)'[j] = x
      BY <1>6, <2>3, <3>1
    <3>2. CASE j \in DOMAIN Captured(n) /\ Captured(n)'[j] = Captured(n)[j]
      <4>1. Earlier(Captured(m)[i], Captured(n)[j])
        BY <1>8, <2>3, <3>2 DEF OutputInvariant, OutputOnceInOrder, Last
      <4> QED BY <2>3, <3>2, <4>1
    <3> QED BY <1>5, <3>1, <3>2
  <2> QED BY <1>5, <2>2, <2>3
<1>9. OutputOnceInOrder'
  BY <1>7, <1>8 DEF OutputOnceInOrder, Last
<1>10. Begun' = Begun
  BY <1>1 DEF Begun
<1> QED BY <1>7, <1>9, <1>10 DEF OutputInvariant, Begun, Last

LEMMA OutputKept ==
    ASSUME TypeOK, ShellInvariant, OutputInvariant, [Next]_vars, TypeOK'
    PROVE  OutputInvariant'
<1>1. CASE Publish /\ subscribed
  BY <1>1, OutputPublished DEF ShellInvariant
<1>2. ASSUME NEW results \in [Requests -> Results(execCount)], polling, iopub # <<>>,
             \A n \in Requests : results[n].output = result[n].output,
             TakeOutput(results), UNCHANGED <<execCount, requests, printed>>
      PROVE  OutputInvariant'
  <2>1. iopub' = Tail(iopub) /\ execCount \in Requests
    BY <1>2, BoundsArePositive DEF TakeOutput, TypeOK, Requests
  <2>2. \A n \in Requests :
            result'[n].output = IF n = execCount THEN Append(result[n].output, Head(iopub))
                                                 ELSE result[n].output
    <3>1. /\ result' = [results EXCEPT ![execCount].output = Append(@, Head(iopub))]
          /\ \A n \in Requests : results[n] \in Results(execCount)
      BY <1>2 DEF TakeOutput
    <3>2. /\ result'[execCount].output = Append(results[execCount].output, Head(iopub))
          /\ \A n \in Requests : n # execCount => result'[n] = results[n]
      BY <1>2, <2>1, <3>1 DEF Results
    <3> QED BY <1>2, <3>2
  <2>3. \A n \in Requests : n > execCount => result[n].output = <<>>
    BY DEF ShellInvariant, ResultsAgree, NoResult
  <2> QED BY <1>2, <2>1, <2>2, <2>3, OutputTaken
<1>3. CASE PollOutput
  BY <1>2, <1>3 DEF PollOutput, kernelVars, TypeOK, Results, Messages, MessagesOf
<1>4. polling => \A n \in Requests : Replied[n].output = result[n].output
  <2>1. result \in [Requests -> Results(execCount)]
    BY DEF TypeOK, Results, Messages, MessagesOf
  <2> QED BY <2>1 DEF Replied, Results
<1>5. CASE PollError /\ iopub # <<>>
  <2>1. polling /\ TakeOutput(Replied) /\ UNCHANGED <<execCount, requests, printed>> /\ replies # <<>>
    BY <1>5 DEF PollError, kernelVars
  <2>2. Replied \in [Requests -> Results(execCount)]
    BY <2>1, RepliedTyped
  <2> QED BY <1>2, <1>4, <1>5, <2>1, <2>2
<1>6. /\ Begun \in Int /\ Begun' \in Int
      /\ printed \in [Requests -> 0 .. MaxOutputs] /\ printed' \in [Requests -> 0 .. MaxOutputs]
      /\ result \in [Requests -> Results(execCount)] /\ execCount \in Nat /\ Len(requests) \in Nat
  <2>1. Len(requests) \in Nat /\ Len(requests') \in Nat /\ execCount \in Nat /\ execCount' \in Nat
    BY LenProperties DEF TypeOK
  <2>2. printed \in [Requests -> 0 .. MaxOutputs] /\ printed' \in [Requests -> 0 .. MaxOutputs]
    BY DEF TypeOK
  <2>3. result \in [Requests -> Results(execCount)]
    BY DEF TypeOK, Results, Messages, MessagesOf
  <2> QED BY <2>1, <2>2, <2>3 DEF Begun
<1>7. ASSUME \A n \in Requests : result'[n].output = result[n].output, iopub' = iopub,
             \A n \in Requests : printed'[n] >= printed[n], Begun' >= Begun
      PROVE  OutputInvariant'
  <2>1. \A n \in 1 .. Last : Captured(n)' = Captured(n)
    BY <1>7, CallsAndLast
  <2>2. \A n \in Requests : printed'[n] \in Nat
    BY <1>6, BoundsArePositive
  <2> QED BY <1>6, <1>7, <2>1, <2>2, OutputStays
<1>8. \A n \in Requests : printed[n] \in Nat /\ printed[n] >= printed[n]
  BY <1>6, BoundsArePositive
<1>9. CASE PollError /\ iopub = <<>>
  <2>1. UNCHANGED <<execCount, requests, printed, iopub>> /\ result' = Replied /\ polling
    BY <1>9 DEF PollError, kernelVars, TakeOutput
  <2>2. Begun' = Begun
    BY <2>1 DEF Begun
  <2> QED BY <1>4, <1>6, <1>7, <1>8, <2>1, <2>2
<1>10. CASE PollOk
  <2>1. UNCHANGED <<execCount, requests, printed, iopub>> /\ result' = Replied /\ polling
    BY <1>10 DEF PollOk, kernelVars
  <2>2. Begun' = Begun
    BY <2>1 DEF Begun
  <2> QED BY <1>4, <1>6, <1>7, <1>8, <2>1, <2>2
<1>11. CASE Deadline
  <2>1. /\ UNCHANGED <<execCount, requests, printed, iopub>>
        /\ \A n \in Requests : result'[n].output = result[n].output
    BY <1>6, <1>11 DEF Deadline, kernelVars, Results
  <2>2. Begun' = Begun
    BY <2>1 DEF Begun
  <2> QED BY <1>6, <1>7, <1>8, <2>1, <2>2
<1>12. CASE Execute
  <2>1. UNCHANGED <<result, printed, iopub>> /\ execCount' = execCount + 1
    BY <1>12 DEF Execute, NextCount, kernelVars
  <2>2. Begun' = Begun
    <3>1. Len(requests') = Len(requests) + 1
      <4>1. requests \in Seq(Nat) /\ execCount' \in Nat
        <5>1. 1 .. execCount \subseteq Nat
          BY <1>6
        <5> QED BY <1>6, <2>1, <5>1, SeqMonotonic DEF TypeOK
      <4> QED BY <1>12, <4>1, AppendProperties DEF Execute
    <3> QED BY <1>6, <2>1, <3>1 DEF Begun
  <2> QED BY <1>6, <1>7, <1>8, <2>1, <2>2
<1>13. CASE Start
  <2>1. UNCHANGED <<execCount, result, printed, iopub>>
    BY <1>13 DEF Start, engineVars
  <2>2. Len(requests') = Len(requests) - 1
    BY <1>13, HeadTailProperties DEF Start, TypeOK
  <2>3. Begun' >= Begun
    BY <1>6, <2>1, <2>2 DEF Begun
  <2> QED BY <1>7, <1>8, <2>1, <2>3
<1>14. CASE Publish /\ ~ subscribed
  <2>1. /\ UNCHANGED <<execCount, requests, result, iopub>> /\ kernel \in Requests
        /\ printed' = [printed EXCEPT ![kernel] = @ + 1]
    BY <1>14, BoundsArePositive DEF Publish, engineVars, TypeOK, Requests
  <2>2. \A n \in Requests : printed'[n] >= printed[n]
    BY <1>6, <1>8, <2>1
  <2>3. Begun' = Begun
    BY <2>1 DEF Begun
  <2> QED BY <1>6, <1>7, <2>1, <2>2, <2>3
<1>15. ASSUME NEW status \in {"ok", "error"}, Answer(status) PROVE OutputInvariant'
  <2>1. UNCHANGED <<execCount, requests, result, printed, iopub>>
    BY <1>15 DEF Answer, engineVars
  <2>2. Begun' = Begun
    BY <2>1 DEF Begun
  <2> QED BY <1>6, <1>7, <1>8, <2>1, <2>2
<1>16. CASE Subscribe \/ UNCHANGED vars
  <2>1. UNCHANGED <<execCount, requests, result, printed, iopub>>
    BY <1>16 DEF Subscribe, vars, kernelVars, engineVars
  <2>2. Begun' = Begun
    BY <2>1 DEF Begun
  <2> QED BY <1>6, <1>7, <1>8, <2>1, <2>2
<1> QED BY <1>1, <1>3, <1>5, <1>9, <1>10, <1>11, <1>12, <1>13, <1>14, <1>15, <1>16 DEF Next, Poll

\* The calls of execute and the socket they read hold the output of the kernel in
\* the order it was printed in, each message once, and none of a later request.
THEOREM OutputOnceInOrderHolds == Spec => []OutputOnceInOrder
<1>1. Init => OutputInvariant
  <2> SUFFICES ASSUME Init PROVE OutputInvariant
    OBVIOUS
  <2>1. \A n \in 1 .. MaxExecutes + 1 : DOMAIN Captured(n) = {}
    BY DEF Init, Captured, NoResult
  <2> QED BY <2>1 DEF OutputInvariant, OutputOnceInOrder
<1>2. TypeOK /\ ShellInvariant /\ OutputInvariant /\ [Next]_vars /\ TypeOK' => OutputInvariant'
  BY OutputKept
<1>3. OutputInvariant => OutputOnceInOrder
  BY DEF OutputInvariant
<1> QED BY <1>1, <1>2, <1>3, ShellInvariantHolds, PTL DEF Spec
=============================================================================
