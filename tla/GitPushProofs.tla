--------------------------- MODULE GitPushProofs ---------------------------
(***************************************************************************)
(* Theorems about GitPush, for any files and any number of calls and of    *)
(* commits by others.                                                      *)
(***************************************************************************)
EXTENDS GitPush, SequenceTheorems, TLAPS

Verdicts == {"running", "true", "false", "raised", "cut"}

\* The last element of a history.
LEMMA AppendCommit ==
    ASSUME NEW S, NEW h \in Seq(S), NEW c \in S
    PROVE  /\ Append(h, c) \in Seq(S) /\ Append(h, c) # <<>>
           /\ Len(Append(h, c)) = Len(h) + 1
           /\ \A i \in 1 .. Len(h) : Append(h, c)[i] = h[i]
           /\ Append(h, c)[Len(h) + 1] = c
           /\ Tip(Append(h, c)) = c.tree
<1>1. /\ Append(h, c) \in Seq(S)
      /\ Len(Append(h, c)) = Len(h) + 1
      /\ \A i \in 1 .. Len(h) : Append(h, c)[i] = h[i]
      /\ Append(h, c)[Len(h) + 1] = c
  OBVIOUS
<1>2. Append(h, c) # <<>>
  BY <1>1, EmptySeq, LenProperties
<1> QED BY <1>1, <1>2 DEF Tip

\* A prefix, element by element.
LEMMA PrefixElementwise ==
    ASSUME NEW S, NEW s \in Seq(S), NEW t \in Seq(S)
    PROVE  IsPrefix(s, t) <=> Len(s) <= Len(t) /\ \A i \in 1 .. Len(s) : s[i] = t[i]
<1>1. Len(s) \in Nat /\ Len(t) \in Nat
  BY LenProperties
<1>2. ASSUME Len(s) <= Len(t)
      PROVE  SubSeq(s, 1, Len(s)) = SubSeq(t, 1, Len(s)) <=>
                 \A i \in 1 .. Len(s) : s[i] = t[i]
  <2>1. /\ \A i \in 1 .. Len(s) : s[i] \in S
        /\ \A i \in 1 .. Len(s) : t[i] \in S
    BY <1>1, <1>2, ElementOfSeq
  <2>2. /\ SubSeq(s, 1, Len(s)) \in Seq(S)
        /\ Len(SubSeq(s, 1, Len(s))) = Len(s)
        /\ \A i \in 1 .. Len(s) : SubSeq(s, 1, Len(s))[i] = s[i]
    BY <1>1, <2>1, SubSeqProperties
  <2>3. /\ SubSeq(t, 1, Len(s)) \in Seq(S)
        /\ Len(SubSeq(t, 1, Len(s))) = Len(s)
        /\ \A i \in 1 .. Len(s) : SubSeq(t, 1, Len(s))[i] = t[i]
    BY <1>1, <2>1, SubSeqProperties
  <2>4. (\A i \in 1 .. Len(s) : s[i] = t[i]) =>
            SubSeq(s, 1, Len(s)) = SubSeq(t, 1, Len(s))
    BY <2>2, <2>3, SeqEqual
  <2> QED BY <2>2, <2>3, <2>4
<1> QED BY <1>2 DEF IsPrefix

\* What a prefix says of a history that has one commit more.
LEMMA PrefixOneLonger ==
    ASSUME NEW S, NEW s \in Seq(S), NEW t \in Seq(S), NEW c \in S, IsPrefix(Append(s, c), t)
    PROVE  IsPrefix(s, t) /\ Len(s) + 1 \in Len(s) + 1 .. Len(t) /\ t[Len(s) + 1] = c
<1>1. /\ Append(s, c) \in Seq(S) /\ Len(Append(s, c)) = Len(s) + 1
      /\ \A i \in 1 .. Len(s) : Append(s, c)[i] = s[i]
      /\ Append(s, c)[Len(s) + 1] = c /\ Len(s) \in Nat /\ Len(t) \in Nat
  <2>1. Len(s) \in Nat /\ Len(t) \in Nat
    BY LenProperties
  <2> QED BY <2>1, AppendProperties
<1>2. Len(s) + 1 <= Len(t) /\ \A i \in 1 .. Len(s) + 1 : Append(s, c)[i] = t[i]
  <2>1. \A longer \in Seq(S) : IsPrefix(longer, t) =>
            Len(longer) <= Len(t) /\ \A i \in 1 .. Len(longer) : longer[i] = t[i]
    BY PrefixElementwise
  <2>2. \A i \in 1 .. Len(Append(s, c)) : Append(s, c)[i] = t[i]
    BY <1>1, <2>1
  <2>3. Len(Append(s, c)) <= Len(t)
    BY <1>1, <2>1
  <2> QED BY <1>1, <2>2, <2>3
<1>3. Len(s) <= Len(t) /\ \A i \in 1 .. Len(s) : s[i] = t[i]
  <2>1. \A i \in 1 .. Len(s) : i \in 1 .. Len(s) + 1
    BY <1>1
  <2> QED BY <1>1, <1>2, <2>1
<1>4. Len(s) + 1 \in 1 .. Len(s) + 1 /\ Len(s) + 1 \in Len(s) + 1 .. Len(t)
  BY <1>1, <1>2
<1> QED BY <1>1, <1>2, <1>3, <1>4, PrefixElementwise

LEMMA PrefixOfLonger ==
    ASSUME NEW S, NEW s \in Seq(S), NEW t \in Seq(S), NEW c \in S, IsPrefix(s, Append(t, c)),
           \A i \in DOMAIN s : s[i] # c
    PROVE  IsPrefix(s, t)
<1>1. /\ Append(t, c) \in Seq(S) /\ Len(Append(t, c)) = Len(t) + 1
      /\ \A i \in 1 .. Len(t) : Append(t, c)[i] = t[i]
      /\ Append(t, c)[Len(t) + 1] = c
      /\ Len(s) \in Nat /\ Len(t) \in Nat /\ DOMAIN s = 1 .. Len(s)
  <2>1. Len(s) \in Nat /\ Len(t) \in Nat /\ DOMAIN s = 1 .. Len(s)
    BY LenProperties
  <2> QED BY <2>1, AppendProperties
<1>2. Len(s) <= Len(t) + 1 /\ \A i \in 1 .. Len(s) : s[i] = Append(t, c)[i]
  <2>1. \A longer \in Seq(S) : IsPrefix(s, longer) =>
            Len(s) <= Len(longer) /\ \A i \in 1 .. Len(s) : s[i] = longer[i]
    BY PrefixElementwise
  <2>2. \A i \in 1 .. Len(s) : s[i] = Append(t, c)[i]
    BY <1>1, <2>1
  <2>3. Len(s) <= Len(Append(t, c))
    BY <1>1, <2>1
  <2> QED BY <1>1, <2>2, <2>3
<1>3. Len(s) # Len(t) + 1
  <2> SUFFICES ASSUME Len(s) = Len(t) + 1 PROVE FALSE
    OBVIOUS
  <2>1. Len(s) \in 1 .. Len(s)
    BY <1>1
  <2>2. s[Len(s)] = c
    BY <1>1, <1>2, <2>1
  <2> QED BY <1>1, <2>1, <2>2
<1>4. Len(s) <= Len(t)
  <2>1. \A x, y \in Nat : x <= y + 1 /\ x # y + 1 => x <= y
    OBVIOUS
  <2> QED BY <1>1, <1>2, <1>3, <2>1
<1>5. \A i \in 1 .. Len(s) : s[i] = t[i]
  <2> TAKE i \in 1 .. Len(s)
  <2>1. i \in 1 .. Len(t)
    BY <1>1, <1>4
  <2> QED BY <1>1, <1>2, <2>1
<1> QED BY <1>4, <1>5, PrefixElementwise

\* The tree a history ends in.
LEMMA TipTyped ==
    ASSUME NEW h \in Seq(Commits), h # <<>>
    PROVE  Tip(h) \in Trees
<1>1. Len(h) \in Nat \ {0}
  BY EmptySeq
<1>2. h[Len(h)] \in Commits
  BY <1>1, ElementOfSeq
<1> QED BY <1>2 DEF Tip, Commits

\* A file put into a tree.
LEMMA TreeWith ==
    ASSUME NEW t \in Trees, NEW x \in Names, NEW v \in 0 .. MaxCalls + MaxForeign + 1
    PROVE  [t EXCEPT ![x] = v] \in Trees /\ [t EXCEPT ![x] = v][x] = v
BY DEF Trees

\* The running call.
LEMMA Running ==
    ASSUME TypeOK, n > 0
    PROVE  /\ n \in Nat /\ n \in Calls /\ n \in 1 .. n
           /\ file \in Files /\ file \in Names
           /\ calls[n].version \in 0 .. MaxCalls + MaxForeign + 1
<1>1. n \in Nat /\ n <= MaxCalls
  BY LenProperties DEF TypeOK, n
<1>2. n \in 1 .. Len(calls)
  BY <1>1 DEF n
<1>3. calls[n] \in [file : Files, version : Calls]
  BY <1>2, ElementOfSeq DEF TypeOK
<1> QED BY <1>1, <1>3, BoundsArePositive DEF Calls, Names, file

LEMMA EndKeepsVerdicts ==
    ASSUME TypeOK, n > 0, NEW what \in Verdicts, End(what), calls' = calls
    PROVE  /\ pc' = "idle"
           /\ verdict' \in [1 .. n -> Verdicts] /\ verdict'[n] = what
<1>1. n \in 1 .. n
  BY Running
<1> QED BY <1>1 DEF TypeOK, End, Verdicts
-----------------------------------------------------------------------------
\* The parts of GitInvariant that speak of a history `h`.
Elders(h, k) == \A i \in DOMAIN h : h[i].by <= k
NoneBy(h, k) == \A i \in DOMAIN h : h[i].by # k

LEMMA EldersAppend ==
    ASSUME NEW h \in Seq(Commits), NEW c \in Commits, NEW k, Elders(h, k), c.by <= k
    PROVE  Elders(Append(h, c), k)
<1>1. DOMAIN Append(h, c) = 1 .. Len(h) + 1 /\ DOMAIN h = 1 .. Len(h) /\ Len(h) \in Nat
  BY AppendCommit, LenProperties
<1>2. ASSUME NEW i \in 1 .. Len(h) + 1 PROVE Append(h, c)[i].by <= k
  <2>1. CASE i = Len(h) + 1
    BY <2>1, AppendCommit
  <2>2. CASE i # Len(h) + 1
    <3>1. i \in 1 .. Len(h)
      BY <1>1, <2>2
    <3> QED BY <1>1, <3>1, AppendCommit DEF Elders
  <2> QED BY <2>1, <2>2
<1> QED BY <1>1, <1>2 DEF Elders

LEMMA NoneByAppend ==
    ASSUME NEW h \in Seq(Commits), NEW c \in Commits, NEW k, NoneBy(h, k), c.by # k
    PROVE  NoneBy(Append(h, c), k)
<1>1. DOMAIN Append(h, c) = 1 .. Len(h) + 1 /\ DOMAIN h = 1 .. Len(h) /\ Len(h) \in Nat
  BY AppendCommit, LenProperties
<1>2. ASSUME NEW i \in 1 .. Len(h) + 1 PROVE Append(h, c)[i].by # k
  <2>1. CASE i = Len(h) + 1
    BY <2>1, AppendCommit
  <2>2. CASE i # Len(h) + 1
    <3>1. i \in 1 .. Len(h)
      BY <1>1, <2>2
    <3> QED BY <1>1, <3>1, AppendCommit DEF NoneBy
  <2> QED BY <2>1, <2>2
<1> QED BY <1>1, <1>2 DEF NoneBy

\* Commits of earlier calls are not by the next one.
LEMMA EldersLeaveNext ==
    ASSUME NEW h \in Seq(Commits), NEW k \in Nat, Elders(h, k)
    PROVE  Elders(h, k + 1) /\ NoneBy(h, k + 1)
<1>1. \A i \in DOMAIN h : h[i] \in Commits
  BY LenProperties, ElementOfSeq
<1>2. \A i \in DOMAIN h : h[i].by \in Int
  BY <1>1, BoundsArePositive DEF Commits, Calls, Others
<1> QED BY <1>2 DEF Elders, NoneBy

LEMMA CommitOfNow ==
    ASSUME NEW k \in Calls, NEW t \in Trees
    PROVE  [by |-> k, tree |-> t] \in Commits
BY DEF Commits

\* The histories, seen through the two predicates above.
LEMMA GitInvariantParts ==
    GitInvariant <=>
        /\ remote # <<>> /\ (repo = "present" => local # <<>>)
        /\ pc # "idle" => n > 0
        /\ pc = "clone" => repo = "none"
        /\ Elders(remote, n) /\ Elders(local, n)
        /\ pc \in {"clone", "stage", "commit"} => NoneBy(remote, n) /\ NoneBy(local, n)
        /\ pc = "commit" /\ n \notin refused => index[file] = calls[n].version
        /\ pc = "push" /\ n \notin refused =>
               repo = "present" /\ Tip(local)[file] = calls[n].version
BY DEF GitInvariant, Elders, NoneBy

LEMMA GitInvariantPartsPrimed ==
    GitInvariant' <=>
        /\ remote' # <<>> /\ (repo' = "present" => local' # <<>>)
        /\ pc' # "idle" => n' > 0
        /\ pc' = "clone" => repo' = "none"
        /\ Elders(remote', n') /\ Elders(local', n')
        /\ pc' \in {"clone", "stage", "commit"} => NoneBy(remote', n') /\ NoneBy(local', n')
        /\ pc' = "commit" /\ n' \notin refused' => index'[file'] = calls'[n'].version
        /\ pc' = "push" /\ n' \notin refused' =>
               repo' = "present" /\ Tip(local')[file'] = calls'[n'].version
BY DEF GitInvariant, Elders, NoneBy, Tip, file, n

\* Every step keeps the shape of the state and the invariant.
LEMMA PushOneKeeps ==
    ASSUME TypeOK, GitInvariant, NEW f \in Files, NEW version \in Calls, PushOne(f, version)
    PROVE  TypeOK' /\ GitInvariant'
<1> DEFINE call == [file |-> f, version |-> version]
<1>1. n \in Nat /\ n + 1 <= MaxCalls /\ calls \in Seq([file : Files, version : Calls])
  BY LenProperties, BoundsArePositive DEF PushOne, TypeOK, n
<1>2. call \in [file : Files, version : Calls]
  OBVIOUS
<1>3. /\ calls' \in Seq([file : Files, version : Calls])
      /\ n' = n + 1
  BY <1>1, <1>2 DEF PushOne, n
<1>4. verdict' \in [1 .. n + 1 -> Verdicts]
  <2>1. verdict \in [1 .. n -> Verdicts]
    BY DEF TypeOK, Verdicts
  <2>2. verdict \in Seq(Verdicts) /\ Len(verdict) = n
    BY <1>1, <2>1
  <2>3. Append(verdict, "running") \in Seq(Verdicts) /\ Len(Append(verdict, "running")) = n + 1
    BY <2>2 DEF Verdicts
  <2> QED BY <2>3, LenProperties DEF PushOne
<1>5. refused' \subseteq 1 .. n + 1
  BY <1>1 DEF PushOne, TypeOK
<1>6. TypeOK'
  BY <1>1, <1>3, <1>4, <1>5 DEF TypeOK, PushOne, clone, Verdicts
<1>7. /\ Elders(remote, n + 1) /\ NoneBy(remote, n + 1)
      /\ Elders(local, n + 1) /\ NoneBy(local, n + 1)
  BY <1>1, EldersLeaveNext, GitInvariantParts DEF TypeOK
<1>8. GitInvariant'
  BY <1>1, <1>3, <1>7, GitInvariantParts, GitInvariantPartsPrimed DEF PushOne, clone, TypeOK
<1> QED BY <1>6, <1>8

LEMMA EndKeeps ==
    ASSUME TypeOK, GitInvariant, pc # "idle", NEW what \in Verdicts, End(what),
           UNCHANGED <<calls, refused>>,
           remote' \in Seq(Commits), remote' # <<>>, Elders(remote', n),
           local' \in Seq(Commits), Elders(local', n), index' \in Trees,
           repo' \in {"none", "headless", "present"}, locked' \in BOOLEAN,
           repo' = "present" => local' # <<>>
    PROVE  TypeOK' /\ GitInvariant'
<1>1. n > 0 /\ n' = n
  BY GitInvariantParts DEF n
<1>2. pc' = "idle" /\ verdict' \in [1 .. n -> Verdicts]
  BY <1>1, EndKeepsVerdicts
<1>3. TypeOK'
  BY <1>1, <1>2 DEF TypeOK, Verdicts
<1>4. GitInvariant'
  BY <1>1, <1>2, GitInvariantPartsPrimed
<1> QED BY <1>3, <1>4

LEMMA CloneKeeps ==
    ASSUME TypeOK, GitInvariant, Clone
    PROVE  TypeOK' /\ GitInvariant'
<1>1. n' = n /\ pc' = "stage" /\ local' = remote /\ index' \in Trees
  BY TipTyped, GitInvariantParts DEF Clone, Fetched, TypeOK, n
<1>2. TypeOK'
  BY <1>1 DEF TypeOK, Clone, Fetched
<1>3. GitInvariant'
  BY <1>1, GitInvariantParts, GitInvariantPartsPrimed DEF Clone, Fetched
<1> QED BY <1>2, <1>3

LEMMA KillCloneKeeps ==
    ASSUME TypeOK, GitInvariant, KillClone
    PROVE  TypeOK' /\ GitInvariant'
<1>1. Tip(remote) \in Trees /\ EmptyTree \in Trees
  BY TipTyped, GitInvariantParts, BoundsArePositive DEF TypeOK, EmptyTree, Trees, Absent
<1>2. /\ remote' = remote /\ index' \in Trees /\ locked' \in BOOLEAN
      /\ \/ repo' = "headless" /\ local' = local
         \/ repo' = "present" /\ local' = remote
  BY <1>1 DEF KillClone, Fetched, TypeOK
<1> QED
  BY <1>2, EndKeeps, GitInvariantParts DEF KillClone, TypeOK, Verdicts

LEMMA AddKeeps ==
    ASSUME TypeOK, GitInvariant, Add
    PROVE  TypeOK' /\ GitInvariant'
<1>1. n > 0 /\ n' = n /\ pc' = "commit" /\ calls' = calls /\ remote' = remote /\ local' = local
  BY GitInvariantParts DEF Add, Refuse, n
<1>2. n \in 1 .. n /\ file' = file
  BY <1>1, Running DEF file
<1>3. \/ index' = Staged /\ refused' = refused
      \/ index' = index /\ refused' = refused \cup {n}
  BY DEF Add, Refuse
<1>4. Staged \in Trees /\ Staged[file] = calls[n].version
  BY <1>1, Running, TreeWith DEF Staged, TypeOK
<1>5. TypeOK'
  BY <1>1, <1>2, <1>3, <1>4 DEF TypeOK, Add
<1>6. GitInvariant'
  BY <1>1, <1>2, <1>3, <1>4, GitInvariantParts, GitInvariantPartsPrimed DEF Add
<1> QED BY <1>5, <1>6

LEMMA CommitKeeps ==
    ASSUME TypeOK, GitInvariant, Commit
    PROVE  TypeOK' /\ GitInvariant'
<1>1. /\ n > 0 /\ n' = n /\ pc = "commit" /\ pc' = "push"
      /\ calls' = calls /\ remote' = remote /\ index' = index /\ repo' = repo
      /\ verdict' = verdict /\ locked' = locked
  BY GitInvariantParts DEF Commit, Refuse, n
<1>2. n \in 1 .. n /\ n \in Calls /\ file' = file /\ n \in Nat
  BY <1>1, Running DEF file
<1>3. CASE local' = Append(local, [by |-> n, tree |-> index]) /\ refused' = refused /\ repo = "present"
  <2>1. [by |-> n, tree |-> index] \in Commits
    BY <1>2, CommitOfNow DEF TypeOK
  <2>2. local' \in Seq(Commits) /\ local' # <<>> /\ Tip(local') = index
    BY <1>3, <2>1, AppendCommit DEF TypeOK
  <2>3. Elders(local', n)
    BY <1>2, <1>3, <2>1, EldersAppend, GitInvariantParts DEF TypeOK
  <2>4. TypeOK'
    BY <1>1, <1>3, <2>2 DEF TypeOK
  <2>5. GitInvariant'
    BY <1>1, <1>2, <1>3, <2>2, <2>3, GitInvariantParts, GitInvariantPartsPrimed
  <2> QED BY <2>4, <2>5
<1>4. CASE local' = local /\ refused' = refused /\ index = Tip(local) /\ repo = "present"
  <2>1. TypeOK'
    BY <1>1, <1>4 DEF TypeOK
  <2>2. GitInvariant'
    BY <1>1, <1>2, <1>4, GitInvariantParts, GitInvariantPartsPrimed
  <2> QED BY <2>1, <2>2
<1>5. CASE local' = local /\ refused' = refused \cup {n}
  <2>1. TypeOK'
    BY <1>1, <1>2, <1>5 DEF TypeOK
  <2>2. GitInvariant'
    BY <1>1, <1>2, <1>5, GitInvariantParts, GitInvariantPartsPrimed
  <2> QED BY <2>1, <2>2
<1> QED BY <1>3, <1>4, <1>5 DEF Commit, Refuse

\* A history that a root commit starts: it is the call's own, and no history of the
\* repository continues in it.
LEMMA RootCommitted ==
    ASSUME TypeOK, GitInvariant, CommitRoot
    PROVE  /\ n \in 1 .. n /\ n \in Nat /\ n \in Calls /\ n > 0 /\ n' = n /\ file' = file
           /\ local' \in Seq(Commits) /\ local' # <<>> /\ Tip(local') = index
           /\ Elders(local', n)
           /\ remote' = remote /\ ~ IsPrefix(remote', local')
<1> DEFINE commit == [by |-> n, tree |-> index]
<1>1. /\ n > 0 /\ n' = n /\ pc = "commit" /\ remote' = remote /\ calls' = calls
      /\ local' = <<commit>>
  BY GitInvariantParts DEF CommitRoot, n
<1>2. n \in 1 .. n /\ n \in Calls /\ file' = file /\ n \in Nat
  BY <1>1, Running DEF file
<1>3. commit \in Commits /\ commit.by = n /\ commit.tree = index
  BY <1>2, CommitOfNow DEF TypeOK
<1> HIDE DEF commit
<1>4. /\ local' \in Seq(Commits) /\ local' # <<>> /\ Tip(local') = commit.tree
      /\ DOMAIN local' = {1} /\ local'[1] = commit
  BY <1>1, <1>3 DEF Tip
<1>5. Elders(local', n)
  BY <1>2, <1>3, <1>4 DEF Elders
<1>6. ~ IsPrefix(remote', local')
  <2>1. /\ remote \in Seq(Commits) /\ remote # <<>> /\ NoneBy(remote, n)
    BY <1>1, GitInvariantParts DEF TypeOK
  <2>2. 1 \in DOMAIN remote /\ remote[1] # commit
    BY <1>3, <2>1 DEF NoneBy
  <2>3. IsPrefix(remote, local') => remote[1] = local'[1]
    BY <1>4, <2>1 DEF IsPrefix
  <2> QED BY <1>1, <1>4, <2>2, <2>3
<1> QED BY <1>1, <1>2, <1>3, <1>4, <1>5, <1>6

LEMMA CommitRootKeeps ==
    ASSUME TypeOK, GitInvariant, CommitRoot
    PROVE  TypeOK' /\ GitInvariant'
<1>1. /\ pc = "commit" /\ pc' = "push" /\ repo' = "present"
      /\ UNCHANGED <<calls, verdict, refused, remote, locked, index>>
  BY DEF CommitRoot
<1>2. TypeOK'
  BY <1>1, RootCommitted DEF TypeOK
<1>3. GitInvariant'
  BY <1>1, RootCommitted, GitInvariantParts, GitInvariantPartsPrimed
<1> QED BY <1>2, <1>3

\* What a push does to the histories, and what it returns.
LEMMA PushEffect ==
    ASSUME TypeOK, GitInvariant, Push
    PROVE  /\ pc = "push" /\ pc' = "idle" /\ UNCHANGED <<calls, refused, clone>>
           /\ remote' = remote \/ (remote' = local /\ Accepted)
           /\ \E what \in {"true", "false", "raised"} :
                 /\ End(what)
                 /\ verdict'[n] = what
                 /\ what = "true" => remote' = local /\ Accepted
<1>1. n > 0 /\ calls' = calls
  BY GitInvariantParts DEF Push
<1>2. PICK taken \in BOOLEAN, answered \in BOOLEAN :
         /\ taken => Accepted
         /\ answered => taken
         /\ remote' = IF taken THEN local ELSE remote
         /\ End(Reports(answered)) \/ (~ answered /\ End("raised"))
  BY DEF Push
<1>3. PICK what \in {"true", "false", "raised"} :
         /\ End(what)
         /\ what = "true" => answered
  BY <1>2 DEF Reports
<1>4. verdict'[n] = what /\ pc' = "idle"
  BY <1>1, <1>3, EndKeepsVerdicts DEF Verdicts
<1> QED BY <1>2, <1>3, <1>4 DEF Push

LEMMA ForeignPushEffect ==
    ASSUME TypeOK, GitInvariant, ForeignPush
    PROVE  \E commit \in Commits : remote' = Append(remote, commit) /\ commit.by = 0
<1>1. Tip(remote) \in Trees
  BY TipTyped, GitInvariantParts DEF TypeOK
<1>2. Tip(remote)[Foreign] \in 0 .. MaxCalls + MaxForeign + 1
  BY <1>1 DEF Trees, Names
<1>3. Tip(remote)[Foreign] + 1 \in 0 .. MaxCalls + MaxForeign + 1
  BY <1>2, BoundsArePositive DEF ForeignPush
<1> DEFINE commit == [by |-> Others,
                      tree |-> [Tip(remote) EXCEPT ![Foreign] = Tip(remote)[Foreign] + 1]]
<1>4. commit \in Commits /\ remote' = Append(remote, commit) /\ commit.by = 0
  BY <1>1, <1>3, TreeWith DEF ForeignPush, Commits, Names, Others
<1> QED BY <1>4

\* Calls and histories keep their shape; a commit is made by the call that runs,
\* and holds its file unless git refused it.
THEOREM GitInvariantHolds == Spec => [](TypeOK /\ GitInvariant)
<1>1. Init => TypeOK /\ GitInvariant
  <2> SUFFICES ASSUME Init PROVE TypeOK /\ GitInvariant
    OBVIOUS
  <2>1. n = 0 /\ 0 \in Nat /\ 0 <= MaxCalls
    BY BoundsArePositive DEF Init, n
  <2>2. EmptyTree \in Trees /\ First \in Commits
    BY BoundsArePositive DEF EmptyTree, First, Trees, Commits, Absent, Others, Names, Foreign
  <2>3. /\ remote \in Seq(Commits) /\ remote # <<>> /\ DOMAIN remote = {1} /\ remote[1].by = 0
        /\ local \in Seq(Commits) /\ DOMAIN local = {}
    BY <2>2 DEF Init, First, Others
  <2>4. TypeOK
    <3>1. calls \in Seq([file : Files, version : Calls]) /\ verdict \in [1 .. n -> Verdicts]
      BY <2>1 DEF Init
    <3> QED BY <2>1, <2>2, <2>3, <3>1 DEF Init, TypeOK, Verdicts
  <2>5. GitInvariant
    BY <2>1, <2>3 DEF Init, GitInvariant
  <2> QED BY <2>4, <2>5
<1>2. TypeOK /\ GitInvariant /\ [Next]_vars => (TypeOK /\ GitInvariant)'
  <2> SUFFICES ASSUME TypeOK, GitInvariant, [Next]_vars
               PROVE  TypeOK' /\ GitInvariant'
    OBVIOUS
  <2>1. CASE Abandon
    BY <2>1, EndKeeps, GitInvariantParts DEF Abandon, clone, TypeOK, Verdicts
  <2>2. CASE Push
    <3>1. /\ remote' \in Seq(Commits) /\ remote' # <<>> /\ Elders(remote', n)
      BY <2>2, PushEffect, GitInvariantParts DEF Accepted, TypeOK
    <3>2. PICK what \in Verdicts : End(what)
      BY <2>2, PushEffect DEF Verdicts
    <3> QED
      BY <2>2, <3>1, <3>2, PushEffect, EndKeeps, GitInvariantParts DEF clone, TypeOK
  <2>3. CASE ForeignPush
    <3>1. PICK commit \in Commits : remote' = Append(remote, commit) /\ commit.by = 0
      BY <2>3, ForeignPushEffect
    <3>3. n' = n /\ n \in Nat /\ file' = file
      BY <2>3, LenProperties DEF ForeignPush, helper, n, TypeOK, file
    <3>4. remote' \in Seq(Commits) /\ remote' # <<>>
      BY <3>1, AppendCommit DEF TypeOK
    <3>5. Elders(remote', n) /\ (n > 0 /\ NoneBy(remote, n) => NoneBy(remote', n))
      BY <3>1, <3>3, EldersAppend, NoneByAppend, GitInvariantParts DEF TypeOK
    <3>6. TypeOK'
      BY <2>3, <3>3, <3>4 DEF TypeOK, ForeignPush, helper, clone
    <3>7. GitInvariant'
      BY <2>3, <3>3, <3>4, <3>5, GitInvariantParts, GitInvariantPartsPrimed
         DEF ForeignPush, helper, clone
    <3> QED BY <3>6, <3>7
  <2>4. CASE UNCHANGED vars
    BY <2>4 DEF vars, helper, clone, TypeOK, GitInvariant, n, file
  <2> QED
    BY <2>1, <2>2, <2>3, <2>4, PushOneKeeps, CloneKeeps, KillCloneKeeps, AddKeeps, CommitKeeps,
       CommitRootKeeps DEF Next
<1> QED BY <1>1, <1>2, PTL DEF Spec

\* The state keeps its shape.
THEOREM GitTypeCorrect == Spec => []TypeOK
BY GitInvariantHolds, PTL

\* A push that is reported as a success has published the file it was given, or
\* git had refused the file.
THEOREM SuccessIsPublishedHolds == Spec => SuccessIsPublished
<1> DEFINE Published == Push /\ verdict'[n] = "true" =>
                            Tip(remote')[file] = calls[n].version \/ n \in refused
<1>1. TypeOK /\ GitInvariant /\ [Next]_vars => [Published]_vars
  BY PushEffect, GitInvariantParts
<1> QED BY <1>1, GitInvariantHolds, PTL DEF Spec, SuccessIsPublished

\* A clone that was overtaken stays overtaken, and nothing is published from it.
THEOREM OvertakenForEverHolds == Spec => OvertakenForEver
<1> DEFINE Overtaken == repo = "present" /\ ~ IsPrefix(remote, local) =>
                            /\ ~ IsPrefix(remote', local')
                            /\ Push => remote' = remote /\ verdict'[n] # "true"
<1>1. TypeOK /\ GitInvariant /\ [Next]_vars => [Overtaken]_vars
  <2> SUFFICES ASSUME TypeOK, GitInvariant, Next, repo = "present", ~ IsPrefix(remote, local)
               PROVE  /\ ~ IsPrefix(remote', local')
                      /\ Push => remote' = remote /\ verdict'[n] # "true"
    OBVIOUS
  <2>1. remote \in Seq(Commits) /\ local \in Seq(Commits) /\ pc # "clone"
    BY GitInvariantParts DEF TypeOK
  <2>2. Push => /\ remote' = remote /\ local' = local /\ verdict'[n] # "true"
    BY PushEffect DEF Accepted, clone
  <2>3. ASSUME ForeignPush PROVE ~ IsPrefix(remote', local')
    <3>1. PICK commit \in Commits : remote' = Append(remote, commit)
      BY <2>3, ForeignPushEffect
    <3>2. local' = local /\ remote' \in Seq(Commits)
      BY <2>1, <2>3, <3>1, AppendCommit DEF ForeignPush, clone
    <3> QED BY <2>1, <3>1, <3>2, PrefixOneLonger
  <2>4. ASSUME NEW commit \in Commits, commit.by = n, pc = "commit",
               local' = Append(local, commit), remote' = remote
        PROVE  ~ IsPrefix(remote', local')
    <3>1. NoneBy(remote, n)
      BY <2>4, GitInvariantParts
    <3>2. \A i \in DOMAIN remote : remote[i] # commit
      BY <2>4, <3>1 DEF NoneBy
    <3> QED BY <2>1, <2>4, <3>2, PrefixOfLonger
  <2>5. ASSUME Commit PROVE ~ IsPrefix(remote', local')
    <3>1. remote' = remote /\ pc = "commit" /\ n \in Calls
      BY <2>5, GitInvariantParts, Running DEF Commit
    <3>2. CASE local' = Append(local, [by |-> n, tree |-> index])
      <4>1. [by |-> n, tree |-> index] \in Commits /\ [by |-> n, tree |-> index].by = n
        BY <3>1, CommitOfNow DEF TypeOK
      <4> QED BY <2>4, <3>1, <3>2, <4>1
    <3>3. CASE local' = local
      BY <3>1, <3>3
    <3> QED BY <2>5, <3>2, <3>3 DEF Commit, Refuse
  <2>6. CASE UNCHANGED <<remote, local>>
    BY <2>2, <2>6
  <2>7. ~ IsPrefix(remote', local')
    BY <2>1, <2>2, <2>3, <2>5, <2>6
       DEF Next, PushOne, Clone, KillClone, Add, CommitRoot, Refuse, Abandon, clone
  <2> QED BY <2>2, <2>7
<1> QED BY <1>1, GitInvariantHolds, PTL DEF Spec, OvertakenForEver
-----------------------------------------------------------------------------
(* Where the clone differs from the repository, and why.                   *)

\* LeftBehind and CloneInvariant, with the calls they speak of as parameters: the
\* number `k` of calls, what each was given, its verdict, and those git refused.
Left(x, v, k, cs, vs, rs) ==
    \/ \E m \in 1 .. k : /\ cs[m] = [file |-> x, version |-> v]
                         /\ vs[m] # "true" \/ m \in rs
    \/ v = Absent /\ \E m \in 1 .. k : vs[m] = "cut"

Accounted(tree, base, k, cs, vs, rs) ==
    \A x \in Names : tree[x] = base[x] \/ Left(x, tree[x], k, cs, vs, rs)

Ours(history, whole) == \A i \in Len(history) + 1 .. Len(whole) : whole[i].by # Others

LEMMA CloneInvariantParts ==
    CloneInvariant <=>
        /\ pc # "idle" => verdict[n] = "running"
        /\ repo = "none" => index = EmptyTree
        /\ pc \in {"stage", "commit", "push"} => repo # "none"
        /\ repo = "present" =>
               /\ Accounted(index, Tip(local), n, calls, verdict, refused)
               /\ pc = "push" /\ n \notin refused => index = Tip(local)
               /\ IsPrefix(remote, local) =>
                      /\ Accounted(Tip(local), Tip(remote), n, calls, verdict, refused)
                      /\ Ours(remote, local)
BY DEF CloneInvariant, Accounted, Left, LeftBehind, Ours

LEMMA CloneInvariantPartsPrimed ==
    CloneInvariant' <=>
        /\ pc' # "idle" => verdict'[n'] = "running"
        /\ repo' = "none" => index' = EmptyTree
        /\ pc' \in {"stage", "commit", "push"} => repo' # "none"
        /\ repo' = "present" =>
               /\ Accounted(index', Tip(local'), n', calls', verdict', refused')
               /\ pc' = "push" /\ n' \notin refused' => index' = Tip(local')
               /\ IsPrefix(remote', local') =>
                      /\ Accounted(Tip(local'), Tip(remote'), n', calls', verdict', refused')
                      /\ Ours(remote', local')
BY DEF CloneInvariant, Accounted, Left, LeftBehind, Ours, Tip, n, EmptyTree

\* Calls that failed or were refused stay so.
LEMMA AccountKept ==
    ASSUME NEW k \in Nat, NEW l \in Nat, k <= l, NEW cs, NEW ds, NEW vs, NEW ws, NEW rs, NEW ss,
           \A m \in 1 .. k : /\ ds[m] = cs[m]
                             /\ vs[m] # "true" \/ m \in rs => ws[m] # "true" \/ m \in ss
                             /\ vs[m] = "cut" => ws[m] = "cut",
           NEW tree, NEW base, Accounted(tree, base, k, cs, vs, rs)
    PROVE  Accounted(tree, base, l, ds, ws, ss)
<1>1. \A m \in 1 .. k : m \in 1 .. l
  OBVIOUS
<1>2. ASSUME NEW x, NEW v, Left(x, v, k, cs, vs, rs) PROVE Left(x, v, l, ds, ws, ss)
  <2>1. ASSUME NEW m \in 1 .. k, cs[m] = [file |-> x, version |-> v], vs[m] # "true" \/ m \in rs
        PROVE  Left(x, v, l, ds, ws, ss)
    BY <1>1, <2>1 DEF Left
  <2>2. ASSUME v = Absent, NEW m \in 1 .. k, vs[m] = "cut" PROVE Left(x, v, l, ds, ws, ss)
    BY <1>1, <2>2 DEF Left
  <2> QED BY <1>2, <2>1, <2>2 DEF Left
<1> QED BY <1>2 DEF Accounted

LEMMA NothingToAccount ==
    ASSUME NEW tree, NEW k, NEW cs, NEW vs, NEW rs, NEW history \in Seq(Commits)
    PROVE  Accounted(tree, tree, k, cs, vs, rs) /\ Ours(history, history)
<1>1. Len(history) + 1 .. Len(history) = {}
  BY LenProperties
<1> QED BY <1>1 DEF Accounted, Ours

LEMMA PushOneAccounted ==
    ASSUME TypeOK, GitInvariant, CloneInvariant,
           NEW f \in Files, NEW version \in Calls, PushOne(f, version)
    PROVE  CloneInvariant'
<1> DEFINE call == [file |-> f, version |-> version]
<1>1. /\ n \in Nat /\ n' = n + 1 /\ n <= n + 1
      /\ \A m \in 1 .. n : calls'[m] = calls[m]
  BY AppendProperties, LenProperties DEF PushOne, TypeOK, n
<1>2. verdict'[n + 1] = "running" /\ \A m \in 1 .. n : verdict'[m] = verdict[m]
  <2>1. verdict \in Seq(Verdicts) /\ Len(verdict) = n /\ "running" \in Verdicts
    BY <1>1 DEF TypeOK, Verdicts
  <2> QED BY <2>1, AppendProperties DEF PushOne
<1>3. refused' = refused /\ UNCHANGED <<remote, repo, local, index>>
  BY DEF PushOne, clone
<1>4. \A tree, base : Accounted(tree, base, n, calls, verdict, refused) =>
                          Accounted(tree, base, n', calls', verdict', refused')
  BY <1>1, <1>2, <1>3, AccountKept
<1>5. pc' \in {"clone", "stage"} /\ (pc' = "stage" => repo # "none")
  BY DEF PushOne
<1> QED BY <1>1, <1>2, <1>3, <1>4, <1>5, CloneInvariantParts, CloneInvariantPartsPrimed

\* The end of a call, unless it is a success.
LEMMA EndAccounted ==
    ASSUME TypeOK, GitInvariant, CloneInvariant, pc # "idle",
           NEW what \in Verdicts, End(what), UNCHANGED <<calls, refused>>,
           what # "true" \/ n \in refused,
           NEW tree, NEW base, Accounted(tree, base, n, calls, verdict, refused)
    PROVE  Accounted(tree, base, n', calls', verdict', refused')
<1>1. n \in 1 .. n /\ n \in Nat /\ n' = n
  BY Running, GitInvariantParts DEF n
<1>2. verdict' = [verdict EXCEPT ![n] = what] /\ verdict[n] = "running" /\ DOMAIN verdict = 1 .. n
  BY CloneInvariantParts DEF End, TypeOK
<1>3. \A m \in 1 .. n :
          /\ verdict[m] # "true" \/ m \in refused => verdict'[m] # "true" \/ m \in refused'
          /\ verdict[m] = "cut" => verdict'[m] = "cut"
  BY <1>1, <1>2
<1> QED BY <1>1, <1>3, AccountKept

LEMMA KillCloneAccounted ==
    ASSUME TypeOK, GitInvariant, CloneInvariant, KillClone
    PROVE  CloneInvariant'
<1>1. /\ n \in 1 .. n /\ n' = n /\ End("cut") /\ pc' = "idle" /\ verdict'[n] = "cut"
      /\ remote' = remote /\ index = EmptyTree /\ remote \in Seq(Commits)
  <2>1. pc = "clone" /\ n > 0 /\ repo = "none" /\ End("cut") /\ UNCHANGED <<calls, remote>>
    BY GitInvariantParts DEF KillClone
  <2>2. n \in 1 .. n /\ n' = n /\ index = EmptyTree /\ remote \in Seq(Commits)
    BY <2>1, Running, CloneInvariantParts DEF TypeOK, n
  <2>3. pc' = "idle" /\ verdict'[n] = "cut"
    BY <2>1, EndKeepsVerdicts DEF Verdicts
  <2> QED BY <2>1, <2>2, <2>3
<1>2. CASE repo' = "headless"
  BY <1>1, <1>2, CloneInvariantPartsPrimed
<1>3. CASE repo' = "present" /\ local' = remote /\ index' \in {EmptyTree, Tip(remote)}
  <2>1. \A x \in Names : Left(x, Absent, n', calls', verdict', refused')
    BY <1>1 DEF Left
  <2>2. Accounted(EmptyTree, Tip(remote), n', calls', verdict', refused')
    BY <2>1 DEF Accounted, EmptyTree
  <2>3. /\ Accounted(Tip(remote), Tip(remote), n', calls', verdict', refused')
        /\ Ours(remote, remote)
    BY <1>1, NothingToAccount
  <2> QED BY <1>1, <1>3, <2>2, <2>3, CloneInvariantPartsPrimed
<1> QED BY <1>1, <1>2, <1>3 DEF KillClone, Fetched

LEMMA AddAccounted ==
    ASSUME TypeOK, GitInvariant, CloneInvariant, Add
    PROVE  CloneInvariant'
<1>1. /\ n \in 1 .. n /\ n \in Nat /\ n' = n /\ file \in Names /\ verdict[n] = "running"
      /\ calls[n] = [file |-> file, version |-> calls[n].version]
      /\ pc = "stage" /\ repo # "none" /\ UNCHANGED <<calls, verdict, remote, repo, local>>
      /\ pc' = "commit"
  <2>1. /\ pc = "stage" /\ n > 0 /\ UNCHANGED <<calls, verdict, remote, repo, local>> /\ pc' = "commit"
    BY GitInvariantParts DEF Add, Refuse
  <2>2. /\ n \in 1 .. n /\ n \in Nat /\ n' = n /\ file \in Names /\ verdict[n] = "running"
        /\ repo # "none"
    BY <2>1, Running, CloneInvariantParts DEF n
  <2>3. calls[n] \in [file : Files, version : Calls]
    <3>1. calls \in Seq([file : Files, version : Calls]) /\ n \in 1 .. Len(calls)
      BY <2>2 DEF TypeOK, n
    <3> QED BY <3>1, ElementOfSeq
  <2> QED BY <2>1, <2>2, <2>3 DEF file
<1>2. CASE index' = Staged /\ refused' = refused
  <2>1. Left(file, calls[n].version, n, calls, verdict, refused)
    BY <1>1 DEF Left
  <2>2. \A x \in Names : Staged[x] = IF x = file THEN calls[n].version ELSE index[x]
    BY <1>1 DEF Staged, TypeOK, Trees
  <2>3. Accounted(index, Tip(local), n, calls, verdict, refused) =>
            Accounted(Staged, Tip(local), n, calls, verdict, refused)
    BY <2>1, <2>2 DEF Accounted
  <2> QED BY <1>1, <1>2, <2>3, CloneInvariantParts, CloneInvariantPartsPrimed
<1>3. CASE index' = index /\ refused' = refused \cup {n}
  <2>1. \A tree, base : Accounted(tree, base, n, calls, verdict, refused) =>
                            Accounted(tree, base, n', calls', verdict', refused')
    BY <1>1, <1>3, AccountKept
  <2> QED BY <1>1, <1>3, <2>1, CloneInvariantParts, CloneInvariantPartsPrimed
<1> QED BY <1>2, <1>3 DEF Add, Refuse

LEMMA CommitAccounted ==
    ASSUME TypeOK, GitInvariant, CloneInvariant, Commit
    PROVE  CloneInvariant'
<1>1. /\ n \in 1 .. n /\ n \in Nat /\ n \in Calls /\ n' = n /\ verdict[n] = "running"
      /\ pc = "commit" /\ pc' = "push" /\ repo # "none"
      /\ UNCHANGED <<calls, verdict, remote, repo, index>>
  <2>1. /\ pc = "commit" /\ pc' = "push" /\ n > 0
        /\ UNCHANGED <<calls, verdict, remote, repo, index>>
    BY GitInvariantParts DEF Commit, Refuse
  <2> QED BY <2>1, Running, CloneInvariantParts DEF n
<1>2. remote \in Seq(Commits) /\ local \in Seq(Commits)
  BY DEF TypeOK
<1>3. CASE /\ local' = Append(local, [by |-> n, tree |-> index]) /\ refused' = refused
           /\ repo = "present"
  <2> DEFINE commit == [by |-> n, tree |-> index]
  <2>1. /\ commit \in Commits /\ commit.by = n /\ commit.tree = index
        /\ local' \in Seq(Commits) /\ Len(local') = Len(local) + 1 /\ Tip(local') = index
        /\ \A i \in 1 .. Len(local) : local'[i] = local[i]
        /\ local'[Len(local) + 1] = commit
        /\ Len(local) \in Nat /\ Len(remote) \in Nat
    <3>1. commit \in Commits /\ commit.by = n /\ commit.tree = index
      BY <1>1, CommitOfNow DEF TypeOK
    <3> HIDE DEF commit
    <3>2. Len(local) \in Nat /\ Len(remote) \in Nat
      BY <1>2, LenProperties
    <3>3. /\ Append(local, commit) \in Seq(Commits) /\ Len(Append(local, commit)) = Len(local) + 1
          /\ \A i \in 1 .. Len(local) : Append(local, commit)[i] = local[i]
          /\ Append(local, commit)[Len(local) + 1] = commit
          /\ Tip(Append(local, commit)) = commit.tree
      BY <1>2, <3>1, AppendCommit
    <3> QED BY <1>3, <3>1, <3>2, <3>3 DEF commit
  <2>2. Accounted(index', Tip(local'), n', calls', verdict', refused')
    BY <1>1, <2>1, NothingToAccount
  <2>3. ASSUME IsPrefix(remote, local')
        PROVE  /\ Accounted(Tip(local'), Tip(remote), n, calls, verdict, refused)
               /\ Ours(remote, local')
    <3>1. \A i \in DOMAIN remote : remote[i] # commit
      BY <1>1, <2>1, GitInvariantParts DEF NoneBy
    <3>2. IsPrefix(remote, local)
      BY <1>2, <1>3, <2>1, <2>3, <3>1, PrefixOfLonger
    <3>3. /\ Accounted(index, Tip(local), n, calls, verdict, refused)
          /\ Accounted(Tip(local), Tip(remote), n, calls, verdict, refused)
          /\ Ours(remote, local)
      BY <1>3, <3>2, CloneInvariantParts
    <3>4. Accounted(index, Tip(remote), n, calls, verdict, refused)
      BY <3>3 DEF Accounted
    <3>5. n # Others
      BY <1>1 DEF Others, Calls
    <3>6. Ours(remote, local')
      <4>1. ASSUME NEW i \in Len(remote) + 1 .. Len(local) + 1 PROVE local'[i].by # Others
        <5>1. CASE i = Len(local) + 1
          BY <2>1, <3>5, <5>1
        <5>2. CASE i # Len(local) + 1
          <6>1. i \in Len(remote) + 1 .. Len(local) /\ i \in 1 .. Len(local)
            BY <2>1, <5>2
          <6> QED BY <2>1, <3>3, <6>1 DEF Ours
        <5> QED BY <5>1, <5>2
      <4> QED BY <2>1, <4>1 DEF Ours
    <3> QED BY <2>1, <3>4, <3>6
  <2> QED BY <1>1, <1>3, <2>1, <2>2, <2>3, CloneInvariantPartsPrimed
<1>4. CASE local' = local /\ refused' = refused /\ index = Tip(local)
  BY <1>1, <1>4, CloneInvariantParts, CloneInvariantPartsPrimed
<1>5. CASE local' = local /\ refused' = refused \cup {n}
  <2>1. \A tree, base : Accounted(tree, base, n, calls, verdict, refused) =>
                            Accounted(tree, base, n', calls', verdict', refused')
    BY <1>1, <1>5, AccountKept
  <2> QED BY <1>1, <1>5, <2>1, CloneInvariantParts, CloneInvariantPartsPrimed
<1> QED BY <1>3, <1>4, <1>5 DEF Commit, Refuse

LEMMA CommitRootAccounted ==
    ASSUME TypeOK, GitInvariant, CloneInvariant, CommitRoot
    PROVE  CloneInvariant'
<1>1. /\ pc = "commit" /\ pc' = "push" /\ repo' = "present" /\ verdict[n] = "running"
      /\ UNCHANGED <<calls, verdict, refused, remote, index>>
  BY CloneInvariantParts DEF CommitRoot
<1>2. Accounted(index', Tip(local'), n', calls', verdict', refused')
  BY <1>1, RootCommitted, NothingToAccount DEF TypeOK
<1> QED BY <1>1, <1>2, RootCommitted, CloneInvariantPartsPrimed

LEMMA PushAccounted ==
    ASSUME TypeOK, GitInvariant, CloneInvariant, Push
    PROVE  CloneInvariant'
<1>1. /\ pc = "push" /\ pc' = "idle" /\ UNCHANGED <<calls, refused, repo, local, index>>
      /\ remote' = remote \/ remote' = local
      /\ local \in Seq(Commits) /\ n' = n
  BY PushEffect DEF TypeOK, n, clone
<1>2. PICK what \in Verdicts : End(what) /\ (what = "true" => remote' = local)
  BY PushEffect DEF Verdicts
<1>3. Accounted(Tip(local), Tip(local), n', calls', verdict', refused') /\ Ours(local, local)
  BY <1>1, NothingToAccount
<1>4. CASE what = "true" /\ n \notin refused
  <2>1. repo = "present" => index = Tip(local)
    BY <1>1, <1>4, CloneInvariantParts
  <2> QED BY <1>1, <1>2, <1>3, <1>4, <2>1, CloneInvariantParts, CloneInvariantPartsPrimed
<1>5. CASE what # "true" \/ n \in refused
  <2>1. \A tree, base : Accounted(tree, base, n, calls, verdict, refused) =>
                            Accounted(tree, base, n', calls', verdict', refused')
    BY <1>1, <1>2, <1>5, EndAccounted
  <2> QED BY <1>1, <1>3, <2>1, CloneInvariantParts, CloneInvariantPartsPrimed
<1> QED BY <1>4, <1>5

LEMMA ForeignPushAccounted ==
    ASSUME TypeOK, GitInvariant, CloneInvariant, ForeignPush
    PROVE  CloneInvariant'
<1>1. PICK commit \in Commits : remote' = Append(remote, commit) /\ commit.by = Others
  BY ForeignPushEffect DEF Others
<1>2. /\ UNCHANGED <<pc, calls, verdict, refused, repo, local, index>> /\ n' = n
      /\ remote \in Seq(Commits) /\ local \in Seq(Commits)
  BY DEF ForeignPush, helper, clone, n, TypeOK
<1>3. repo = "present" => ~ IsPrefix(remote', local)
  <2> SUFFICES ASSUME repo = "present", IsPrefix(remote', local) PROVE FALSE
    OBVIOUS
  <2>1. /\ IsPrefix(remote, local) /\ Len(remote) + 1 \in Len(remote) + 1 .. Len(local)
        /\ local[Len(remote) + 1] = commit
    BY <1>1, <1>2, PrefixOneLonger
  <2>2. Ours(remote, local)
    BY <2>1, CloneInvariantParts
  <2> QED BY <1>1, <2>1, <2>2 DEF Ours
<1> QED BY <1>2, <1>3, CloneInvariantParts, CloneInvariantPartsPrimed

LEMMA CloneInvariantKept ==
    ASSUME TypeOK, GitInvariant, CloneInvariant, [Next]_vars
    PROVE  CloneInvariant'
<1>1. CASE Clone
  <2>1. /\ repo' = "present" /\ local' = remote /\ index' = Tip(remote) /\ pc' = "stage"
        /\ UNCHANGED <<calls, verdict, refused, remote>> /\ n' = n /\ verdict[n] = "running"
        /\ remote \in Seq(Commits)
    BY <1>1, CloneInvariantParts DEF Clone, Fetched, n, TypeOK
  <2>2. /\ Accounted(Tip(remote), Tip(remote), n', calls', verdict', refused')
        /\ Ours(remote, remote)
    BY <2>1, NothingToAccount
  <2> QED BY <2>1, <2>2, CloneInvariantPartsPrimed
<1>2. CASE Abandon
  <2>1. /\ pc # "idle" /\ pc' = "idle" /\ n' = n /\ End("raised")
        /\ UNCHANGED <<calls, refused, remote, repo, local, index>>
    BY <1>2 DEF Abandon, End, clone, n
  <2>2. \A tree, base : Accounted(tree, base, n, calls, verdict, refused) =>
                            Accounted(tree, base, n', calls', verdict', refused')
    BY <2>1, EndAccounted DEF Verdicts
  <2> QED BY <2>1, <2>2, CloneInvariantParts, CloneInvariantPartsPrimed
<1>3. CASE UNCHANGED vars
  BY <1>3 DEF vars, helper, clone, CloneInvariant, LeftBehind, n
<1> QED BY <1>1, <1>2, <1>3, PushOneAccounted, KillCloneAccounted, AddAccounted, CommitAccounted,
           CommitRootAccounted, PushAccounted, ForeignPushAccounted DEF Next

\* Wherever the clone's index differs from its main, and its main from origin's, a
\* call that failed or that git refused has left the difference behind.
THEOREM CloneInvariantHolds == Spec => [](TypeOK /\ GitInvariant /\ CloneInvariant)
<1>1. Init => CloneInvariant
  BY DEF Init, CloneInvariant
<1>2. TypeOK /\ GitInvariant /\ CloneInvariant /\ [Next]_vars => CloneInvariant'
  BY CloneInvariantKept
<1> QED BY <1>1, <1>2, GitInvariantHolds, PTL DEF Spec

\* push_one changes a file it was not given only to what an earlier call that failed
\* or was refused has left in the clone, for any files, calls and commits by others.
THEOREM OthersChangeForCauseHolds == Spec => OthersChangeForCause
<1> DEFINE ForCause == Push => \A x \in Names \ {file} :
                           Tip(remote')[x] = Tip(remote)[x] \/ LeftBehind(x, Tip(remote')[x])
<1>1. TypeOK /\ GitInvariant /\ CloneInvariant /\ [Next]_vars => [ForCause]_vars
  <2> SUFFICES ASSUME TypeOK, GitInvariant, CloneInvariant, Push, NEW x \in Names
               PROVE  Tip(remote')[x] = Tip(remote)[x] \/ LeftBehind(x, Tip(remote')[x])
    OBVIOUS
  <2>1. CASE remote' = remote
    BY <2>1 DEF Tip
  <2>2. CASE remote' = local /\ Accepted
    <3>1. Tip(local)[x] = Tip(remote)[x] \/ LeftBehind(x, Tip(local)[x])
      BY <2>2 DEF Accepted, CloneInvariant
    <3> QED BY <2>2, <3>1 DEF Tip
  <2> QED BY <2>1, <2>2, PushEffect
<1> QED BY <1>1, CloneInvariantHolds, PTL DEF Spec, OthersChangeForCause
=============================================================================
