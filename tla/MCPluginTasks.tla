---------------------------- MODULE MCPluginTasks ----------------------------
(***************************************************************************)
(* Small instances of PluginTasks; leases, workflows and passes are        *)
(* interchangeable.                                                        *)
(***************************************************************************)
EXTENDS PluginTasks, TLC

TaskSymmetry == Permutations(Workflows) \cup Permutations(Leases) \cup Permutations(Passes)
=============================================================================
