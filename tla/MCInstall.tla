----------------------------- MODULE MCInstall ------------------------------
(* An instance of Install for TLC: a version shipped as an archive of two   *)
(* files, and one as the bare executable.                                   *)
EXTENDS Install

CONSTANTS v1, v2, exec, lib

MCParts == [v \in {v1, v2} |-> IF v = v1 THEN {exec, lib} ELSE {exec}]
=============================================================================
