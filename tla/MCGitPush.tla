----------------------------- MODULE MCGitPush -----------------------------
(* GitPush with two files, a few calls and one commit of somebody else's.  *)
EXTENDS GitPush
=============================================================================
