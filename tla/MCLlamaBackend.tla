--------------------------- MODULE MCLlamaBackend ---------------------------
(* Instance of LlamaBackend for TLC.                                        *)
EXTENDS LlamaBackend, TLC

(* Handlers are alike, and so are child processes.  Only used by the runs   *)
(* that check no liveness property.                                         *)
Symmetry == Permutations(Rpcs) \union Permutations(Children)
=============================================================================
