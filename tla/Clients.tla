------------------------------ MODULE Clients -------------------------------
(***************************************************************************)
(* Processes that use the client library against the daemons of one socket *)
(* path (client/client.go, internal/spawn).  The daemons are Endpoint,     *)
(* which Daemons implements.                                               *)
(*                                                                         *)
(* A thread is either a process's Connect, which makes its Client, or one  *)
(* call of Embed or EmbedBatch, which differ in nothing but their payload. *)
(* Both respawn the daemon through EnsureDaemon.  A gRPC connection is     *)
(* what the library relies on: idle until it is needed, in backoff after a *)
(* failed dial, lost with its daemon, and cancelling what it carries when  *)
(* it is closed.  That a thread returns an error of the connection shows   *)
(* in failed for one state.                                                *)
(***************************************************************************)
EXTENDS Endpoint, Naturals

CONSTANTS
    Procs,          \* processes with a Client, named after their Connect
    Calls,          \* their calls of Embed and EmbedBatch
    Owner,          \* the process of each call
    Idle, Backoff,  \* states of a connection without a daemon
    NoOne,          \* who holds a free lock
    MaxEvents       \* bound: wipes, path losses, crashes, direct starts

Threads == Procs \union Calls

ASSUME ClientsAssumption ==
    /\ Procs \intersect Calls = {}
    /\ Owner \in [Calls -> Procs]
    /\ Idle \notin Daemons /\ Backoff \notin Daemons /\ Idle # Backoff
    /\ NoOne \notin Threads
    /\ MaxEvents \in Nat

VARIABLES
    noSpawn,        \* processes that passed WithNoSpawn
    open, closed,   \* processes whose Client is made, is closed
    link,           \* per process: the state of its Client's connection
    mu,             \* per process: who holds its Client's mu
    pc, try,        \* per thread: where it is, its how manieth request
    at,             \* per thread: the daemon that has its request
    stale,          \* threads whose connection was closed under them
    lfd,            \* per thread: the spawn.lock file it opened
    failed,         \* who returned which of Failures in the last step
    holder,         \* who holds the flock of each spawn.lock file
    wipes,          \* $RUNED_HOME was recreated so often
    events,         \* what MaxEvents bounds, so far
    calm,           \* history: nothing but clients acted so far
    outage,         \* history: a daemon ended or lost the path
    lost            \* history: threads that EnsureDaemon served before one

threads == <<pc, try, at, stale, lfd, lost>>
locks == <<mu, holder>>
setup == <<noSpawn, open, closed>>
environment == <<wipes, events>>
history == <<calm, outage>>
vars ==
    <<endpoint, setup, link, threads, locks, failed, environment, history>>

Failures == {"unavailable", "canceled"}
Outcomes == {"ok", "refused", "spawn"} \union Failures
Places == {"off", "send", "answer", "lock", "probe", "open", "wait", "recheck",
           "launch", "await", "reconnect", "done"}
Launching == {"recheck", "launch", "await"}

ProcOf(t) == IF t \in Procs THEN t ELSE Owner[t]
Locking(c) == c \in Calls /\ try[c] > 1 /\ pc[c] # "done"
Respawned(t) == pc[t] = "reconnect" \/ try[t] = 3

HistoryTypeOK == calm \in BOOLEAN /\ outage \in BOOLEAN

TypeOK ==
    /\ EndpointTypeOK /\ HistoryTypeOK
    /\ noSpawn \subseteq Procs /\ open \subseteq Procs /\ closed \subseteq open
    /\ link \in [Procs -> Daemons \union {Idle, Backoff}]
    /\ mu \in [Procs -> Calls \union {NoOne}]
    /\ pc \in [Threads -> Places]
    /\ try \in [Threads -> 1 .. 3]
    /\ at \in [Threads -> Daemons \union {None}]
    /\ stale \subseteq Calls
    /\ lfd \in [Threads -> 0 .. MaxEvents]
    /\ failed \in (Threads \X Failures) \union {<<>>}
    /\ holder \in [0 .. MaxEvents -> Threads \union {NoOne}]
    /\ events \in 0 .. MaxEvents /\ wipes \in 0 .. events
    /\ lost \subseteq Threads

Init ==
    /\ EndpointInit
    /\ noSpawn \in SUBSET Procs
    /\ open = {} /\ closed = {}
    /\ link = [p \in Procs |-> Idle]
    /\ mu = [p \in Procs |-> NoOne]
    /\ pc = [t \in Threads |-> "off"]
    /\ try = [t \in Threads |-> 1]
    /\ at = [t \in Threads |-> None]
    /\ stale = {} /\ lost = {}
    /\ lfd = [t \in Threads |-> 0]
    /\ failed = <<>>
    /\ holder = [g \in 0 .. MaxEvents |-> NoOne]
    /\ wipes = 0 /\ events = 0
    /\ calm = TRUE /\ outage = FALSE

-----------------------------------------------------------------------------
(* Requests.                                                                *)

Goto(t, from, to) == pc[t] = from /\ pc' = [pc EXCEPT ![t] = to]

(* The threads of ts are over, with all they hold.                          *)
Over(ts) ==
    /\ pc' = [t \in Threads |-> IF t \in ts THEN "done" ELSE pc[t]]
    /\ try' = [t \in Threads |-> IF t \in ts THEN 1 ELSE try[t]]
    /\ at' = [t \in Threads |-> IF t \in ts THEN None ELSE at[t]]
    /\ lfd' = [t \in Threads |-> IF t \in ts THEN 0 ELSE lfd[t]]
    /\ stale' = stale \ ts
    /\ lost' = lost \ ts
    /\ mu' = [p \in Procs |-> IF mu[p] \in ts THEN NoOne ELSE mu[p]]
    /\ holder' = [g \in 0 .. MaxEvents |->
                     IF holder[g] \in ts THEN NoOne ELSE holder[g]]

(* t returns r, its deferred Unlock and Release done.                       *)
Return(t, r) ==
    Over({t}) /\ failed' = IF r \in Failures THEN <<t, r>> ELSE <<>>

(* Mutated: a call is retried on FAILED_PRECONDITION too.                   *)
RespawnsOnRefusal(t, r) ==
    /\ r \in IF t \in Procs THEN Outcomes \ {"ok"}
             ELSE {"unavailable", "refused"}
    /\ try[t] < 3
    /\ ProcOf(t) \notin noSpawn

(* Connect falls back to EnsureDaemon on any error, a call only on          *)
(* Unavailable.                                                             *)
Respawns(t, r) ==
    /\ IF t \in Procs THEN r # "ok" ELSE r = "unavailable"
    /\ try[t] < 3
    /\ ProcOf(t) \notin noSpawn

(* A call tries again under mu, and then after EnsureDaemon; Connect goes    *)
(* there at once.                                                           *)
Retry(t) ==
    /\ pc' = [pc EXCEPT ![t] =
                 IF t \in Calls /\ try[t] = 1 THEN "lock" ELSE "probe"]
    /\ at' = [at EXCEPT ![t] = None]
    /\ failed' = <<>>
    /\ UNCHANGED <<open, try, stale, lfd, lost, locks>>

Finish(t, r) ==
    /\ Return(t, r)
    /\ open' = IF t \in Procs /\ r = "ok" THEN open \union {t} ELSE open

(* What t does with the outcome of a request.                               *)
Outcome(t, r) == IF Respawns(t, r) THEN Retry(t) ELSE Finish(t, r)

(* Connect begins, or a call on a Client that was made.                     *)
BeginCall(t) ==
    /\ Goto(t, "off", "send")
    /\ t \in Calls => Owner[t] \in open
    /\ stale' = IF ProcOf(t) \in closed THEN stale \union {t} ELSE stale
    /\ failed' = <<>>
    /\ UNCHANGED <<endpoint, setup, link, try, at, lfd, lost, locks,
                   environment, history>>

(* An idle connection dials the path first.                                 *)
Target(t) == IF link[ProcOf(t)] = Idle THEN front ELSE link[ProcOf(t)]

Reach(t) ==
    /\ Target(t) \in Daemons
    /\ link' = [link EXCEPT ![ProcOf(t)] = Target(t)]
    /\ at' = [at EXCEPT ![t] = Target(t)]
    /\ pc' = [pc EXCEPT ![t] = "answer"]
    /\ failed' = <<>>
    /\ UNCHANGED <<open, try, stale, lfd, lost, locks>>

Miss(t) ==
    /\ Target(t) \notin Daemons
    /\ link' = [link EXCEPT ![ProcOf(t)] = Backoff]
    /\ Outcome(t, "unavailable")

(* The request goes out.                                                    *)
Send(t) ==
    /\ pc[t] = "send"
    /\ \/ t \in stale /\ Outcome(t, "canceled") /\ UNCHANGED link
       \/ t \notin stale /\ (Reach(t) \/ Miss(t))
    /\ UNCHANGED <<endpoint, noSpawn, closed, environment, history>>

(* What the daemon may say: Health never fails, Embed is refused with       *)
(* FAILED_PRECONDITION while there is no backend and may fail when there is *)
(* one.  A daemon that ends may still drain the request.                    *)
Served(t, state) ==
    CASE t \in Procs -> {"ok"}
      [] t \in Calls /\ state = "loading" -> {"refused"}
      [] OTHER -> {"ok", "refused"}

Answer(t) ==
    /\ pc[t] = "answer"
    /\ \/ \E r \in Served(t, life[at[t]]) : Outcome(t, r)
       \/ life[at[t]] = "gone" /\ Outcome(t, "unavailable")
       \/ t \in stale /\ Outcome(t, "canceled")
    /\ UNCHANGED <<endpoint, noSpawn, closed, link, environment, history>>

-----------------------------------------------------------------------------
(* The retry of a call.                                                     *)

(* c.grpc is read again under mu.                                           *)
TakeMu(c) ==
    /\ Goto(c, "lock", "send")
    /\ mu[Owner[c]] = NoOne
    /\ mu' = [mu EXCEPT ![Owner[c]] = c]
    /\ try' = [try EXCEPT ![c] = 2]
    /\ stale' = stale \ {c}
    /\ failed' = <<>>
    /\ UNCHANGED <<endpoint, setup, link, at, lfd, lost, holder, environment,
                   history>>

(* Mutated: the old connection is kept.                                     *)
ReconnectSkipped(c) ==
    /\ Goto(c, "reconnect", "send")
    /\ try' = [try EXCEPT ![c] = 3]
    /\ failed' = <<>>
    /\ UNCHANGED <<endpoint, setup, link, at, stale, lfd, lost, locks,
                   environment, history>>

(* reconnectLocked: whoever uses the old connection loses it.               *)
Reconnect(c) ==
    /\ Goto(c, "reconnect", "send")
    /\ try' = [try EXCEPT ![c] = 3]
    /\ link' = [link EXCEPT ![Owner[c]] = Idle]
    /\ stale' = stale \union {u \in Calls \ {c} :
                     Owner[u] = Owner[c] /\ pc[u] \in {"send", "answer"}}
    /\ failed' = <<>>
    /\ UNCHANGED <<endpoint, setup, at, lfd, lost, locks, environment,
                   history>>

-----------------------------------------------------------------------------
(* EnsureDaemon.                                                            *)

(* Connect goes on with a new connection, a call with reconnectLocked.      *)
ConnectAnew(t) ==
    /\ t \in Procs
    /\ pc' = [pc EXCEPT ![t] = "send"]
    /\ try' = [try EXCEPT ![t] = 3]
    /\ link' = [link EXCEPT ![t] = Idle]

GoReconnect(t) ==
    /\ t \in Calls
    /\ pc' = [pc EXCEPT ![t] = "reconnect"]
    /\ UNCHANGED <<try, link>>

(* Mutated: the flock is not released.                                      *)
EnsuredHolding(t) ==
    /\ front \in Daemons
    /\ ConnectAnew(t) \/ GoReconnect(t)
    /\ failed' = <<>>
    /\ UNCHANGED <<at, stale, lfd, lost, locks>>

(* EnsureDaemon returned nil, its flock released.                           *)
Ensured(t) ==
    /\ front \in Daemons
    /\ ConnectAnew(t) \/ GoReconnect(t)
    /\ holder' = [g \in 0 .. MaxEvents |->
                     IF holder[g] = t THEN NoOne ELSE holder[g]]
    /\ lfd' = [lfd EXCEPT ![t] = 0]
    /\ failed' = <<>>
    /\ UNCHANGED <<at, stale, lost, mu>>

(* Mutated: mu is not released when EnsureDaemon fails.                     *)
NotEnsuredLocked(t) ==
    /\ pc' = [pc EXCEPT ![t] = "done"]
    /\ failed' = <<>>
    /\ holder' = [g \in 0 .. MaxEvents |->
                     IF holder[g] = t THEN NoOne ELSE holder[g]]
    /\ UNCHANGED <<link, try, at, stale, lfd, lost, mu>>

NotEnsured(t) == Return(t, "spawn") /\ UNCHANGED link

Absent(t, next) ==
    /\ front = None
    /\ pc' = [pc EXCEPT ![t] = next]
    /\ failed' = <<>>
    /\ UNCHANGED <<link, try, at, stale, lfd, lost, locks>>

(* probeDaemon: a regular file at the path is hostile.                      *)
Probed(t, next) ==
    \/ Ensured(t)
    \/ front = File /\ NotEnsured(t)
    \/ Absent(t, next)

Probe(t) ==
    /\ pc[t] = "probe"
    /\ Probed(t, "open")
    /\ UNCHANGED <<endpoint, setup, environment, history>>

(* spawn.lock is opened once, where it is now.                              *)
OpenLock(t) ==
    /\ Goto(t, "open", "wait")
    /\ lfd' = [lfd EXCEPT ![t] = wipes]
    /\ failed' = <<>>
    /\ UNCHANGED <<endpoint, setup, link, try, at, stale, lost, locks,
                   environment, history>>

AcquireLock(t) ==
    /\ Goto(t, "wait", "recheck")
    /\ holder[lfd[t]] = NoOne
    /\ holder' = [holder EXCEPT ![lfd[t]] = t]
    /\ failed' = <<>>
    /\ UNCHANGED <<endpoint, setup, link, try, at, stale, lfd, lost, mu,
                   environment, history>>

(* Thirty seconds passed.                                                   *)
LockTimeout(t) ==
    /\ pc[t] = "wait" /\ holder[lfd[t]] # NoOne
    /\ NotEnsured(t)
    /\ UNCHANGED <<endpoint, setup, environment, history>>

(* Mutated: no second probe under the lock.                                 *)
RecheckSkipped(t) ==
    /\ Goto(t, "recheck", "launch")
    /\ failed' = <<>>
    /\ UNCHANGED <<endpoint, setup, link, try, at, stale, lfd, lost, locks,
                   environment, history>>

Recheck(t) ==
    /\ pc[t] = "recheck"
    /\ Probed(t, "launch")
    /\ UNCHANGED <<endpoint, setup, environment, history>>

(* launchDaemon: the process is only started.                               *)
Launch(t, d) ==
    /\ Goto(t, "launch", "await")
    /\ Begin(d)
    /\ failed' = <<>>
    /\ UNCHANGED <<setup, link, try, at, stale, lfd, lost, locks,
                   environment, history>>

(* The configuration or the exec fails.                                     *)
LaunchFails(t) ==
    /\ pc[t] = "launch"
    /\ NotEnsured(t)
    /\ UNCHANGED <<endpoint, setup, environment, history>>

(* waitForDaemon: a hostile path is polled on.                              *)
AwaitReady(t) ==
    /\ pc[t] = "await"
    /\ Ensured(t)
    /\ UNCHANGED <<endpoint, setup, environment, history>>

(* Ten seconds passed.                                                      *)
AwaitTimeout(t) ==
    /\ pc[t] = "await" /\ front \notin Daemons
    /\ NotEnsured(t)
    /\ calm' = FALSE
    /\ UNCHANGED <<endpoint, setup, environment, outage>>

-----------------------------------------------------------------------------
(* The surroundings.                                                        *)

Event == events < MaxEvents /\ events' = events + 1 /\ calm' = FALSE

(* gRPC dials again after its backoff.                                      *)
Redial(p) ==
    /\ link[p] = Backoff /\ front \in Daemons
    /\ link' = [link EXCEPT ![p] = front]
    /\ failed' = <<>>
    /\ UNCHANGED <<endpoint, setup, threads, locks, environment, history>>

(* Not while calls are under way.                                           *)
Close(p) ==
    /\ p \in open \ closed
    /\ \A c \in Calls : Owner[c] = p => pc[c] \in {"off", "done"}
    /\ closed' = closed \union {p}
    /\ failed' = <<>>
    /\ UNCHANGED <<endpoint, noSpawn, open, link, threads, locks,
                   environment, history>>

(* The process dies, and its locks with it.                                 *)
Crash(p) ==
    /\ \E t \in Threads : ProcOf(t) = p /\ pc[t] \notin {"off", "done"}
    /\ Event
    /\ Over({t \in Threads : ProcOf(t) = p})
    /\ failed' = <<>>
    /\ UNCHANGED <<endpoint, setup, link, wipes, outage>>

(* The daemon listens, or gets its backend.                                 *)
DaemonAdvances(d) ==
    /\ Listen(d) \/ Ready(d)
    /\ failed' = <<>>
    /\ UNCHANGED <<setup, link, threads, locks, environment, history>>

(* A supervisor starts a daemon without the spawn lock.                     *)
StartDirectly(d) ==
    /\ Begin(d)
    /\ Event
    /\ failed' = <<>>
    /\ UNCHANGED <<setup, link, threads, locks, wipes, outage>>

Outage ==
    /\ outage' = TRUE
    /\ lost' = lost \union {t \in Threads : Respawned(t)}
    /\ failed' = <<>>
    /\ UNCHANGED <<setup, pc, try, at, stale, lfd, locks>>

(* A daemon ends; the connections to it are idle again.                     *)
DaemonEnds(d) ==
    /\ End(d)
    /\ Outage
    /\ calm' = FALSE
    /\ link' = [p \in Procs |-> IF link[p] = d THEN Idle ELSE link[p]]
    /\ UNCHANGED environment

PathLost ==
    /\ Lose
    /\ Event
    /\ Outage
    /\ UNCHANGED <<link, wipes>>

(* $RUNED_HOME is recreated, and with it spawn.lock.                        *)
Wipe ==
    /\ Event
    /\ wipes' = wipes + 1
    /\ front' = None
    /\ Outage
    /\ UNCHANGED <<life, link>>

-----------------------------------------------------------------------------
Ensure(t) ==
    \/ Probe(t) \/ OpenLock(t) \/ AcquireLock(t) \/ LockTimeout(t)
    \/ Recheck(t) \/ (\E d \in Daemons : Launch(t, d)) \/ LaunchFails(t)
    \/ AwaitReady(t) \/ AwaitTimeout(t)

Step(t) ==
    \/ Send(t) \/ Answer(t) \/ Ensure(t)
    \/ t \in Calls /\ Reconnect(t)

Next ==
    \/ \E t \in Threads : BeginCall(t) \/ Step(t)
    \/ \E c \in Calls : TakeMu(c)
    \/ \E p \in Procs : Redial(p) \/ Close(p) \/ Crash(p)
    \/ \E d \in Daemons :
          DaemonAdvances(d) \/ StartDirectly(d) \/ DaemonEnds(d)
    \/ PathLost \/ Wipe

Spec == Init /\ [][Next]_vars

(* Every thread runs on, a daemon answers what it has (EmbedReturns of      *)
(* LlamaBackend), and a sync.Mutex starves nobody.                          *)
FairSpec ==
    /\ Spec
    /\ \A t \in Threads : WF_vars(Step(t))
    /\ \A c \in Calls : SF_vars(TakeMu(c))

-----------------------------------------------------------------------------
(* Properties.                                                              *)

(* TypeOK, and who holds what: a call is past its first request exactly     *)
(* while it holds its Client's mu, and whoever is past the flock of the     *)
(* spawn.lock it opened holds it (Embed, EmbedBatch, EnsureDaemon).         *)
LocksMatch ==
    /\ TypeOK
    /\ \A p \in Procs, c \in Calls :
          mu[p] = c <=> Locking(c) /\ Owner[c] = p
    /\ \A t \in Threads, g \in 0 .. MaxEvents :
          holder[g] = t <=> pc[t] \in Launching /\ lfd[t] = g

(* As long as clients alone act and no wait times out, all their            *)
(* EnsureDaemon calls together start one daemon (the flock, the recheck     *)
(* under it, and its being held until the daemon listens).                  *)
OneDaemonWhenCalm ==
    calm => \A d, e \in Daemons : life[d] # "off" /\ life[e] # "off" => d = e

Returns(t, outcomes) == \E r \in outcomes : failed' = <<t, r>>

(* A request sent after EnsureDaemon succeeded reaches a daemon: it is      *)
(* answered, if only by FAILED_PRECONDITION, unless a daemon ended or lost  *)
(* the path in between (reconnectLocked under mu, Connect's second dial).   *)
RespawnedCallIsServed ==
    [][\A t \in Threads :
          Returns(t, {"unavailable", "canceled"}) /\ try[t] = 3 =>
              t \in lost]_vars

(* A call is cancelled by another one's reconnect, or by Close, only if     *)
(* there was an outage: as long as the daemon stays up nobody reconnects    *)
(* under the calls of others (Embed, EmbedBatch, reconnectLocked).          *)
CancelOnlyAfterOutage ==
    [][\A c \in Calls :
          Returns(c, {"canceled"}) => outage \/ Owner[c] \in closed]_vars

(* Every Connect and every call returns, whatever daemons and other callers *)
(* do: mu, the flock and their timeouts leave nobody behind.  A thread is   *)
(* called once, so that all of them are at rest in the end.                 *)
CallsReturn ==
    <>[] \A t \in Threads : pc[t] \in {"off", "done"}
=============================================================================
