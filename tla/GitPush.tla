------------------------------ MODULE GitPush ------------------------------
(***************************************************************************)
(* swarm/nvidia_swarm_git.py, GitPushHelper: files pushed one at a time    *)
(* into a repository through a clone that is kept in the workspace.        *)
(*                                                                         *)
(* push_one clones the repository if there is no .git directory yet,       *)
(* copies the file, and runs git add, commit and push one after the other; *)
(* only the last of them decides what it returns. The clone outlives the   *)
(* call and the process, it is never fetched or reset, and subprocess.run  *)
(* kills a clone or a push that takes too long. push_all is push_one in a  *)
(* loop.                                                                   *)
(*                                                                         *)
(* git and the hosted repository are external. A commit is who made it and *)
(* the tree it records: for each name the call whose file it holds. The    *)
(* calls come one after the other; each may fail or be killed at any step. *)
(***************************************************************************)
EXTENDS Integers, Sequences, SequencesExt

CONSTANTS Files,       \* file names pushed
          MaxCalls,    \* bound: calls of push_one
          MaxForeign   \* bound: commits somebody else pushes to the repository

ASSUME BoundsArePositive == MaxCalls \in Nat \ {0} /\ MaxForeign \in Nat

VARIABLES pc,        \* where the running push_one is, or "idle"
          calls,     \* the calls so far: the file and version each was given
          verdict,   \* what each call came to
          remote,    \* origin's main
          repo,      \* the clone: "none", "headless" (.git but no main), "present"
          locked,    \* was .git/index.lock left behind?
          local,     \* the clone's main
          index,     \* the clone's index
          refused    \* calls whose git add or git commit failed

helper == <<pc, calls, verdict, refused>>
clone == <<repo, locked, local, index>>
vars == <<helper, remote, clone>>

Calls == 1 .. MaxCalls
Absent == 0
Others == 0

\* Somebody else's commits change a file of their own.
Foreign == "README.md"
Names == Files \cup {Foreign}

ASSUME FilesAreOurs == Foreign \notin Files

EmptyTree == [x \in Names |-> Absent]
Tip(history) == history[Len(history)].tree

First == [by |-> Others, tree |-> [EmptyTree EXCEPT ![Foreign] = 1]]

\* The running call, and its file.
n == Len(calls)
file == calls[n].file

Init == /\ pc = "idle" /\ calls = <<>> /\ verdict = <<>> /\ refused = {}
        /\ remote = <<First>>
        /\ repo = "none" /\ locked = FALSE /\ local = <<>> /\ index = EmptyTree

\* Somebody else pushes to the repository.
ForeignPush ==
    /\ Tip(remote)[Foreign] <= MaxForeign
    /\ remote' = Append(remote, [by |-> Others,
                                 tree |-> [Tip(remote) EXCEPT ![Foreign] = @ + 1]])
    /\ UNCHANGED <<helper, clone>>
-----------------------------------------------------------------------------
(* push_one.                                                               *)
\* The file is new, or still the one an earlier call was given.
PushOne(f, version) ==
    /\ pc = "idle" /\ n < MaxCalls
    /\ version = n + 1 \/ \E m \in 1 .. n : calls[m] = [file |-> f, version |-> version]
    /\ calls' = Append(calls, [file |-> f, version |-> version])
    /\ verdict' = Append(verdict, "running")
    /\ pc' = IF repo = "none" THEN "clone" ELSE "stage"
    /\ UNCHANGED <<refused, remote, clone>>

\* The call ends: it returns True or False, or raises, or its process is killed. That
\* of a call whose git clone ran out of time is told apart from other errors.
End(what) == pc' = "idle" /\ verdict' = [verdict EXCEPT ![n] = what]

Abandon == pc # "idle" /\ End("raised") /\ UNCHANGED <<calls, refused, remote, clone>>

Fetched == repo' = "present" /\ local' = remote

\* git clone does its work, or cleans up what it made and the helper raises ...
Clone ==
    /\ pc = "clone"
    /\ Fetched /\ index' = Tip(remote) /\ pc' = "stage"
    /\ UNCHANGED <<calls, verdict, refused, remote, locked>>

\* ... or is killed after 30 s, in any state between nothing and a whole clone:
\* before it knows a branch, before it has the index, while it holds its lock.
KillClone ==
    /\ pc = "clone"
    /\ End("cut")
    /\ \/ repo' = "headless" /\ UNCHANGED <<local, index, locked>>
       \/ Fetched /\ index' \in {EmptyTree, Tip(remote)} /\ UNCHANGED locked
       \/ Fetched /\ locked' = TRUE /\ UNCHANGED index
    /\ UNCHANGED <<calls, refused, remote>>

\* (mutant) the index is started afresh for every file.
StagedAlone == [EmptyTree EXCEPT ![file] = calls[n].version]

Staged == [index EXCEPT ![file] = calls[n].version]

\* A git command that fails (a held lock, an ignored file, no identity) changes
\* nothing, and nobody looks at its result.
Refuse(next) == pc' = next /\ refused' = refused \cup {n} /\ UNCHANGED <<local, index>>

\* shutil.copy2 and git add.
Add ==
    /\ pc = "stage"
    /\ \/ ~ locked /\ index' = Staged /\ pc' = "commit" /\ UNCHANGED <<local, refused>>
       \/ Refuse("commit")
    /\ UNCHANGED <<calls, verdict, remote, repo, locked>>

\* git commit records the whole index; it fails if that is what main has.
Commit ==
    /\ pc = "commit"
    /\ \/ /\ ~ locked /\ repo = "present" /\ index # Tip(local)
          /\ local' = Append(local, [by |-> n, tree |-> index])
          /\ pc' = "push"
          /\ UNCHANGED <<index, refused>>
       \/ /\ ~ locked /\ repo = "present" /\ index = Tip(local)
          /\ pc' = "push"
          /\ UNCHANGED <<local, index, refused>>
       \/ Refuse("push")
    /\ UNCHANGED <<calls, verdict, remote, repo, locked>>

\* Where the clone has no main yet, git commit starts one with a root commit of its
\* own. (If git's first branch has another name, that commit goes nowhere: Refuse.)
CommitRoot ==
    /\ pc = "commit"
    /\ ~ locked /\ repo = "headless" /\ index # EmptyTree
    /\ repo' = "present" /\ local' = <<[by |-> n, tree |-> index]>>
    /\ pc' = "push"
    /\ UNCHANGED <<calls, verdict, refused, remote, locked, index>>

\* (mutant) git push --force.
AcceptedByForce == repo = "present"

\* The repository takes main if it continues its own, be it by no commit at all.
Accepted == repo = "present" /\ IsPrefix(remote, local)

\* (mutants) the exit status of git push is not looked at; it is returned as it is.
ReportsAlways(answered) == "true"
ReportsCode(answered) == IF answered THEN "0" ELSE "1"

\* result.returncode == 0 needs the repository's answer.
Reports(answered) == IF answered THEN "true" ELSE "false"

\* git push is accepted or not; its answer may be lost on the way, or come after
\* the 20 s in which case push_one raises.
Push ==
    /\ pc = "push"
    /\ \E taken, answered \in BOOLEAN :
          /\ taken => Accepted
          /\ answered => taken
          /\ remote' = IF taken THEN local ELSE remote
          /\ End(Reports(answered)) \/ (~ answered /\ End("raised"))
    /\ UNCHANGED <<calls, refused, clone>>

Next == \/ \E f \in Files, version \in Calls : PushOne(f, version)
        \/ Clone \/ KillClone \/ Add \/ Commit \/ CommitRoot \/ Push \/ Abandon
        \/ ForeignPush

Spec == Init /\ [][Next]_vars
-----------------------------------------------------------------------------
Trees == [Names -> 0 .. MaxCalls + MaxForeign + 1]
Commits == [by : Calls \cup {Others}, tree : Trees]

TypeOK ==
    /\ pc \in {"idle", "clone", "stage", "commit", "push"}
    /\ calls \in Seq([file : Files, version : Calls])
    /\ n <= MaxCalls
    /\ verdict \in [1 .. n -> {"running", "true", "false", "raised", "cut"}]
    /\ refused \subseteq 1 .. n
    /\ remote \in Seq(Commits)
    /\ repo \in {"none", "headless", "present"}
    /\ locked \in BOOLEAN
    /\ local \in Seq(Commits)
    /\ index \in Trees

\* What is staged and committed is the running call's file unless git refused it,
\* and no history holds a commit of a call that has not come to it yet.
GitInvariant ==
    /\ remote # <<>> /\ (repo = "present" => local # <<>>)
    /\ pc # "idle" => n > 0
    /\ pc = "clone" => repo = "none"
    /\ \A i \in DOMAIN remote : remote[i].by <= n
    /\ \A i \in DOMAIN local : local[i].by <= n
    /\ pc \in {"clone", "stage", "commit"} =>
           /\ \A i \in DOMAIN remote : remote[i].by # n
           /\ \A i \in DOMAIN local : local[i].by # n
    /\ pc = "commit" /\ n \notin refused => index[file] = calls[n].version
    /\ pc = "push" /\ n \notin refused =>
           repo = "present" /\ Tip(local)[file] = calls[n].version

\* push_one returns True only if the file it was given is in the repository now,
\* unless git add or git commit had refused it.
SuccessIsPublished ==
    [][Push /\ verdict'[n] = "true" =>
           Tip(remote')[file] = calls[n].version \/ n \in refused]_vars

\* What a call that failed, or that git refused, may have left in the clone: the
\* version it was given, or nothing if its git clone was killed.
LeftBehind(x, version) ==
    \/ \E m \in 1 .. n : /\ calls[m] = [file |-> x, version |-> version]
                         /\ verdict[m] # "true" \/ m \in refused
    \/ version = Absent /\ \E m \in 1 .. n : verdict[m] = "cut"

\* "One-file git push": a push changes its own file. Another file changes only to
\* what an earlier call left in the clone because it failed or git refused it, or
\* is deleted because the clone was killed before it had its index.
OthersChangeForCause ==
    [][Push => \A x \in Names \ {file} :
           Tip(remote')[x] = Tip(remote)[x] \/ LeftBehind(x, Tip(remote')[x])]_vars

\* What that rests on: wherever the index differs from main, and main from origin's
\* main, a call has left the difference behind.
CloneInvariant ==
    /\ pc # "idle" => verdict[n] = "running"
    /\ repo = "none" => index = EmptyTree
    /\ pc \in {"stage", "commit", "push"} => repo # "none"
    /\ repo = "present" =>
           /\ \A x \in Names : index[x] = Tip(local)[x] \/ LeftBehind(x, index[x])
           /\ pc = "push" /\ n \notin refused => index = Tip(local)
           /\ IsPrefix(remote, local) =>
                  /\ \A x \in Names :
                         Tip(local)[x] = Tip(remote)[x] \/ LeftBehind(x, Tip(local)[x])
                  /\ \A i \in Len(remote) + 1 .. Len(local) : local[i].by # Others

\* A clone that somebody else has overtaken never catches up: from then on no
\* call succeeds, and nothing is published.
OvertakenForEver ==
    [][repo = "present" /\ ~ IsPrefix(remote, local) =>
           /\ ~ IsPrefix(remote', local')
           /\ Push => remote' = remote /\ verdict'[n] # "true"]_vars
=============================================================================
