----------------------------- MODULE MCDaemons ------------------------------
(* An instance of Daemons for TLC: two daemons, two inode numbers, one      *)
(* event.  Without symmetry, which liveness does not allow.                 *)
EXTENDS Daemons

(* Inode numbers are interchangeable: when none is in use, the next one is  *)
(* always the same.                                                         *)
FreshInode ==
    LET used == {path} \union {sock[d] : d \in Daemons}
                       \union {ident[d] : d \in Daemons}
    IN  used \intersect Inodes = {} /\ path' \in Inodes =>
            path' = (CHOOSE i \in Inodes : TRUE)

(* Handlers start llama-server in one of the daemons only, whichever comes  *)
(* first: the other one meets its signals, evictions and files as well.     *)
OneDaemonEmbeds == waiting' \subseteq {CHOOSE d \in Daemons : TRUE}
=============================================================================
