----------------------------- MODULE MCSwarmDAG -----------------------------
(***************************************************************************)
(* SwarmDAG on a few agents: every plan over Agents is built, including    *)
(* self-dependencies, cycles and dependencies on ids never registered.     *)
(***************************************************************************)
EXTENDS SwarmDAG
=============================================================================
