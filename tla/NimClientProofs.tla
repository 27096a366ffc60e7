-------------------------- MODULE NimClientProofs --------------------------
(***************************************************************************)
(* Theorems about NimClient, for any number of coroutines.                 *)
(***************************************************************************)
EXTENDS NimClient, FiniteSetTheorems, TLAPS

LEMMA SessionsAreNumbers ==
    /\ Cardinality(Callers) \in Nat
    /\ \A c \in Callers : Cardinality(Callers) >= 1
    /\ \A s \in Sessions : s \in Nat /\ s # None
<1>1. Cardinality(Callers) \in Nat
  BY CallersFinite, FS_CardinalityType
<1>2. \A c \in Callers : Cardinality(Callers) # 0
  BY CallersFinite, FS_EmptySet
<1> QED BY <1>1, <1>2 DEF Sessions, None

Outcomes == {"content", "null", "blank", "empty", "error", "cancelled"}

LEMMA DecodeGivesOutcome ==
    ASSUME NEW m \in Modes, NEW answer \in Answers(m)
    PROVE  Decode(m, answer) \in {"content", "null", "blank", "empty", "error"}
BY DEF Modes, Answers, Decode

LEMMA TakeSessionKeepsType ==
    ASSUME current \in Sessions \cup {None},
           session \in [Sessions -> {"unmade", "open", "closed"}],
           GetSession
    PROVE  /\ current' \in Sessions /\ session'[current'] = "open"
           /\ session' \in [Sessions -> {"unmade", "open", "closed"}]
<1>1. CASE Usable
  BY <1>1 DEF GetSession, TakeSession, Usable
<1>2. CASE ~ Usable
  BY <1>2 DEF GetSession, TakeSession
<1> QED BY <1>1, <1>2

\* The state keeps its shape, the bookkeeping of the lock is right, and no
\* connection is lost: what the pool's lock and the order of its steps achieve.
THEOREM LockInvariantHolds == Spec => [](TypeOK /\ LockInvariant)
<1>1. Init => TypeOK /\ LockInvariant
  <2> SUFFICES ASSUME Init PROVE TypeOK /\ LockInvariant
    OBVIOUS
  <2>1. TypeOK
    <3>1. 0 \in 0 .. Cardinality(Callers)
      BY SessionsAreNumbers
    <3>2. "chat" \in Modes
      BY DEF Modes
    <3> QED BY <3>1, <3>2 DEF Init, TypeOK
  <2>2. LockInvariant
    BY NoOneIsNoCloser DEF Init, LockInvariant
  <2> QED BY <2>1, <2>2
<1>2. TypeOK /\ LockInvariant /\ [Next]_vars => (TypeOK /\ LockInvariant)'
  <2> SUFFICES ASSUME TypeOK, LockInvariant, [Next]_vars
               PROVE  TypeOK' /\ LockInvariant'
    OBVIOUS
  <2> USE DEF TypeOK, LockInvariant, Awaiting
  <2>1. ASSUME NEW c \in Callers, NEW m \in Modes, Call(c, m)
        PROVE  TypeOK' /\ LockInvariant'
    BY <2>1 DEF Call, poolVars, tritonVars
  <2>2. ASSUME NEW c \in Callers, Post(c) PROVE TypeOK' /\ LockInvariant'
    <3>1. /\ current' \in Sessions /\ session'[current'] = "open"
          /\ session' \in [Sessions -> {"unmade", "open", "closed"}]
      BY <2>2, TakeSessionKeepsType DEF Post
    <3>2. TypeOK'
      BY <2>2, <3>1 DEF Post, tritonVars
    <3>3. \A s \in Sessions : session'[s] = "open" => current' = s
      <4>1. CASE Usable
        BY <2>2, <4>1 DEF Post, GetSession, TakeSession
      <4>2. CASE ~ Usable
        <5>1. \A s \in Sessions : session[s] # "open"
          BY <4>2, SessionsAreNumbers DEF Usable
        <5> QED BY <2>2, <4>2, <5>1 DEF Post, GetSession, TakeSession
      <4> QED BY <4>1, <4>2
    <3> QED BY <2>2, <3>2, <3>3 DEF Post, tritonVars, LockFree
  <2>3. ASSUME NEW c \in Callers, NEW what \in Outcomes,
               Finish(c, what), UNCHANGED ready
        PROVE  TypeOK' /\ LockInvariant'
    BY <2>3 DEF Finish, poolVars, Outcomes
  <2>4. ASSUME NEW c \in Callers,
               Reply(c) \/ CancelCall(c) \/ InferRaises(c) \/ Inferred(c) \/ TritonFails(c)
        PROVE  TypeOK' /\ LockInvariant'
    <3>1. PICK what \in Outcomes :
             Finish(c, what) /\ UNCHANGED ready
      BY <2>4, DecodeGivesOutcome
         DEF Reply, Answer, Break, CancelCall, InferRaises, Inferred, TritonFails, Outcomes
    <3> QED BY <2>3, <3>1
  <2>5. ASSUME NEW c \in Callers, Infer(c) PROVE TypeOK' /\ LockInvariant'
    <3>1. CASE NeedsConnect
      BY <2>5, <3>1, SessionsAreNumbers DEF Infer, NeedsConnect, poolVars
    <3>2. CASE ~ NeedsConnect
      BY <2>5, <3>2 DEF Infer, poolVars
    <3> QED BY <3>1, <3>2
  <2>6. ASSUME NEW c \in Callers, Connected(c) PROVE TypeOK' /\ LockInvariant'
    BY <2>6 DEF Connected, poolVars
  <2>7. ASSUME NEW k \in Closers, CallClose(k) PROVE TypeOK' /\ LockInvariant'
    BY <2>7, NoOneIsNoCloser DEF CallClose, clientVars, tritonVars
  <2>8. ASSUME NEW k \in Closers, CloseBegin(k) PROVE TypeOK' /\ LockInvariant'
    <3>1. CASE Usable
      BY <2>8, <3>1, NoOneIsNoCloser DEF CloseBegin, Usable, LockFree, clientVars
    <3>2. CASE ~ Usable
      BY <2>8, <3>2, NoOneIsNoCloser DEF CloseBegin, CloseTriton, LockFree, clientVars
    <3> QED BY <3>1, <3>2
  <2>9. ASSUME NEW k \in Closers, CloseEnd(k) \/ CancelClose(k)
        PROVE  TypeOK' /\ LockInvariant'
    <3>1. CASE CloseEnd(k)
      BY <3>1, NoOneIsNoCloser DEF CloseEnd, CloseTriton, Unlocked, clientVars
    <3>2. CASE CancelClose(k)
      BY <3>2, NoOneIsNoCloser DEF CancelClose, Unlocked, clientVars, tritonVars
    <3> QED BY <2>9, <3>1, <3>2
  <2>10. CASE UNCHANGED vars
    BY <2>10 DEF vars, clientVars, poolVars, tritonVars
  <2> QED
    BY <2>1, <2>2, <2>4, <2>5, <2>6, <2>7, <2>8, <2>9, <2>10
       DEF Next, TritonReply, CloseStep
<1> QED BY <1>1, <1>2, PTL DEF Spec

\* Every variable keeps its type.
THEOREM NimTypeCorrect == Spec => []TypeOK
BY LockInvariantHolds, PTL

\* An open session is the pooled one, and there is at most one gRPC channel.
THEOREM NoLostConnectionHolds == Spec => []NoLostConnection
<1>1. LockInvariant => NoLostConnection
  BY DEF LockInvariant, NoLostConnection
<1> QED BY <1>1, LockInvariantHolds, PTL

\* No request is started on a closed session.
THEOREM PostsOnOpenSessionHolds == Spec => PostsOnOpenSession
<1> DEFINE OnOpen == \A c \in Callers : call[c] = "calling" /\ call'[c] = "posted" =>
                         session'[via'[c]] = "open"
<1>1. TypeOK /\ [Next]_vars => [OnOpen]_vars
  <2> SUFFICES ASSUME TypeOK, Next, NEW c \in Callers,
                      call[c] = "calling", call'[c] = "posted"
               PROVE  session'[via'[c]] = "open"
    OBVIOUS
  <2>1. Post(c)
    BY DEF TypeOK, Next, Call, Post, Reply, Answer, Break, CancelCall, Finish, InferRaises, Infer,
           TritonReply, Connected, Inferred, TritonFails, CloseStep, CallClose,
           CloseBegin, CloseEnd, CancelClose, clientVars
  <2>2. session'[current'] = "open"
    BY <2>1, TakeSessionKeepsType DEF Post, TypeOK
  <2> QED BY <2>1, <2>2 DEF Post, TypeOK
<1> QED BY <1>1, LockInvariantHolds, PTL DEF Spec, PostsOnOpenSession

\* A close() that ends leaves nothing open.
THEOREM CloseClosesAllHolds == Spec => CloseClosesAll
<1> DEFINE AllClosed == \A k \in Closers : closer[k] # "closed" /\ closer'[k] = "closed" =>
                            channel' # "open" /\ \A s \in Sessions : session'[s] # "open"
<1>1. TypeOK /\ LockInvariant /\ [Next]_vars => [AllClosed]_vars
  <2> SUFFICES ASSUME TypeOK, LockInvariant, Next, NEW k \in Closers,
                      closer[k] # "closed", closer'[k] = "closed"
               PROVE  channel' # "open" /\ \A s \in Sessions : session'[s] # "open"
    OBVIOUS
  <2>1. CloseBegin(k) \/ CloseEnd(k)
    BY DEF TypeOK, Next, Call, Post, Reply, Answer, Break, CancelCall, Finish, InferRaises, Infer,
           TritonReply, Connected, Inferred, TritonFails, CloseStep, CallClose,
           CloseBegin, CloseEnd, CancelClose, poolVars
  <2>2. CASE CloseBegin(k)
    <3>1. ~ Usable
      BY <2>2 DEF CloseBegin, TypeOK
    <3>2. \A s \in Sessions : session[s] # "open"
      BY <3>1, SessionsAreNumbers DEF Usable, LockInvariant
    <3> QED BY <2>2, <3>1, <3>2 DEF CloseBegin, CloseTriton
  <2>3. CASE CloseEnd(k)
    BY <2>3, NoOneIsNoCloser DEF CloseEnd, CloseTriton, LockInvariant
  <2> QED BY <2>1, <2>2, <2>3
<1> QED BY <1>1, LockInvariantHolds, PTL DEF Spec, CloseClosesAll
=============================================================================
