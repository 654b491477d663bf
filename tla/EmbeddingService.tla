-------------------------- MODULE EmbeddingService --------------------------
(* What the daemon promises about llama-server, without its locks, probes   *)
(* and retries: one child at a time, started only for the boot or for a     *)
(* request; none stopped under a request; none left behind.                 *)
CONSTANTS
    Requests,
    Children,
    NoChild

VARIABLES
    stage,      \* of the daemon: "booting", "serving", "closed", "halted"
    busy,       \* the accepted requests that have not returned
    on,         \* per request: the child it is waiting for
    alive,      \* the llama-server processes that exist
    condemned,  \* those the daemon has told to stop after a drain
    unrecorded, \* one that was started and is not yet in health
    health      \* "running", "suspended" or "failed"

kids == <<alive, condemned, unrecorded>>
vars == <<stage, busy, on, kids, health>>

Init ==
    /\ stage = "booting"
    /\ busy = {}
    /\ on = [r \in Requests |-> NoChild]
    /\ alive = {}
    /\ condemned = {}
    /\ unrecorded = {}
    /\ health = "running"

-----------------------------------------------------------------------------
Enter(from, to) ==
    /\ stage \in from
    /\ stage' = to
    /\ UNCHANGED <<busy, on, kids, health>>

Open == Enter({"booting"}, "serving")

(* The boot failed, or a shutdown has begun.                                *)
Close == Enter({"booting", "serving"}, "closed")

Halt == busy = {} /\ alive = {} /\ Enter({"closed"}, "halted")

Accept(r) ==
    /\ stage = "serving"
    /\ r \notin busy
    /\ busy' = busy \union {r}
    /\ UNCHANGED <<stage, on, kids, health>>

(* The child may have died unnoticed, but none is called that is to stop.   *)
Send(r, c) ==
    /\ r \in busy /\ on[r] = NoChild
    /\ c \notin condemned
    /\ on' = [on EXCEPT ![r] = c]
    /\ UNCHANGED <<stage, busy, kids, health>>

(* With a vector or an error.                                               *)
Return(r) ==
    /\ r \in busy
    /\ busy' = busy \ {r}
    /\ on' = [on EXCEPT ![r] = NoChild]
    /\ UNCHANGED <<stage, kids, health>>

Unused(c) == \A r \in Requests : on[r] # c

Spawn(c) ==
    /\ stage = "booting" \/ busy # {}
    /\ alive = {} /\ unrecorded = {}
    /\ Unused(c)
    /\ alive' = {c}
    /\ unrecorded' = {c}
    /\ UNCHANGED <<stage, busy, on, condemned, health>>

(* Health says so a moment later, when the child may be gone again.         *)
Record ==
    /\ unrecorded # {}
    /\ unrecorded' = {}
    /\ health' = "running"
    /\ UNCHANGED <<stage, busy, on, alive, condemned>>

Condemn(c) ==
    /\ c \in alive \ unrecorded
    /\ Unused(c)
    /\ condemned' = condemned \union {c}
    /\ UNCHANGED <<stage, busy, on, alive, unrecorded, health>>

(* It crashes, or a signal has reached it.                                  *)
Die(c) ==
    /\ c \in alive
    /\ alive' = alive \ {c}
    /\ condemned' = condemned \ {c}
    /\ UNCHANGED <<stage, busy, on, unrecorded, health>>

(* A crash is recorded; a suspension is not taken for one.                  *)
Fail ==
    /\ alive = {} /\ unrecorded = {} /\ health # "suspended"
    /\ health' = "failed"
    /\ UNCHANGED <<stage, busy, on, kids>>

Suspend ==
    /\ alive = {} /\ unrecorded = {}
    /\ \A r \in Requests : on[r] = NoChild
    /\ health' = "suspended"
    /\ UNCHANGED <<stage, busy, on, kids>>

Next ==
    \/ Open \/ Close \/ Halt
    \/ \E r \in Requests :
          Accept(r) \/ Return(r) \/ \E c \in Children : Send(r, c)
    \/ \E c \in Children : Spawn(c) \/ Condemn(c) \/ Die(c)
    \/ Record \/ Fail \/ Suspend

Spec == Init /\ [][Next]_vars
=============================================================================
