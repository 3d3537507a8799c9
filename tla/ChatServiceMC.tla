---------------------------- MODULE ChatServiceMC ----------------------------
(***************************************************************************)
(* ChatService for TLC: turns, connections and conversations are           *)
(* interchangeable in its definitions and in its safety properties.        *)
(***************************************************************************)
EXTENDS ChatService, TLC

Interchangeable == Permutations(Turns) \cup Permutations(Conns) \cup Permutations(Cids)
===============================================================================
