--------------------------- MODULE MCPluginCommands ---------------------------
(* Instances of PluginCommands, in which the requests are alike. *)
EXTENDS PluginCommands, TLC

RequestSymmetry == Permutations(Requests)
=============================================================================
