----------------------------- MODULE MCLauncher -----------------------------
(* Launcher with two sessions and two relays each: one session that Ctrl-C *)
(* reaches and one in the background, one port that another program may    *)
(* take.                                                                   *)
EXTENDS Launcher
=============================================================================
