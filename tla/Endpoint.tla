------------------------------ MODULE Endpoint ------------------------------
(***************************************************************************)
(* What the daemons of one socket path are to their clients: who answers   *)
(* at the path, and how far each process has come.  A process that listens *)
(* may lose the path to nobody; no other one answers for it until it is    *)
(* bound again.                                                            *)
(***************************************************************************)
CONSTANTS Daemons, None, File

ASSUME EndpointAssumption ==
    None \notin Daemons /\ File \notin Daemons /\ None # File

VARIABLES front, life

endpoint == <<front, life>>

Lives == {"off", "starting", "loading", "ready", "gone"}

EndpointTypeOK ==
    /\ front \in Daemons \union {None, File}
    /\ life \in [Daemons -> Lives]

EndpointInit ==
    /\ front \in {None, File}
    /\ life = [d \in Daemons |-> "off"]

Turn(d, from, to) ==
    /\ life[d] \in from
    /\ life' = [life EXCEPT ![d] = to]

Begin(d) == Turn(d, {"off"}, "starting") /\ UNCHANGED front

Listen(d) ==
    /\ Turn(d, {"starting"}, "loading")
    /\ front = None
    /\ front' = d

Ready(d) == Turn(d, {"loading"}, "ready") /\ UNCHANGED front

End(d) ==
    /\ Turn(d, {"starting", "loading", "ready"}, "gone")
    /\ front' = IF front = d THEN None ELSE front

(* The file at the path is removed, whatever it was.                        *)
Lose ==
    /\ front # None
    /\ front' = None
    /\ UNCHANGED life

EndpointNext ==
    \/ Lose
    \/ \E d \in Daemons : Begin(d) \/ Listen(d) \/ Ready(d) \/ End(d)

EndpointSpec == EndpointInit /\ [][EndpointNext]_endpoint

(* Whoever answers at the path is alive.                                    *)
FrontIsAlive == front \in Daemons => life[front] \in {"loading", "ready"}
=============================================================================
