---------------------------- MODULE LlamaBackend ----------------------------
(***************************************************************************)
(* The llama-server child of runed and everything in the daemon that       *)
(* starts, probes, uses or stops it: LlamaBackend (internal/backend), the  *)
(* Embed/EmbedBatch retry loop and Health of internal/server, and the boot, *)
(* idle ticker and shutdown of cmd/runed as far as they call the backend.  *)
(*                                                                         *)
(* A process is a goroutine.  pc[p] names the point it has reached; a step *)
(* is one critical section of b.mu, one atomic load or store, one lock     *)
(* operation, or one probe or HTTP exchange.  A lock acquisition is taken  *)
(* together with the one read that follows it.                             *)
(*                                                                         *)
(* Abstractions                                                            *)
(*  - A port stands for the child that listens on it, so port is a child.  *)
(*  - lastAlive is the Boolean recent: "a proof of life within             *)
(*    aliveGrace".  Timeouts may fire at any moment.                       *)
(*  - A quick probe (500 ms) of a child that answers may always be missed; *)
(*    a verdict probe (2 s) is missed by a child that answers only while   *)
(*    an embed call is outstanding on it.                                  *)
(*  - b.stopping decides only whether an exit is logged and is left out;   *)
(*    cmdDone is always the channel of the last child started.             *)
(***************************************************************************)
EXTENDS Naturals

CONSTANTS
    Rpcs,       \* handlers of Embed and EmbedBatch, one request at a time each
    Monitors,   \* handlers of Health
    Tickers,    \* the idle goroutine of cmd/runed, none if the timeout is 0
    Main,       \* the main goroutine of cmd/runed
    Children,   \* identities of llama-server processes, reused once reaped
    NoProc,
    NoChild

Stoppers == Tickers \union {Main}
Starters == Rpcs \union {Main}
Procs == Rpcs \union Monitors \union Stoppers

ASSUME ProcsAssumption ==
    /\ \A s, t \in Tickers : s = t
    /\ Main \notin Tickers
    /\ Rpcs \intersect Monitors = {}
    /\ Stoppers \intersect (Rpcs \union Monitors) = {}
    /\ NoProc \notin Procs

ASSUME ChildrenAssumption == NoChild \notin Children

VARIABLES
    pc, target,                       \* per process: location, its child
    lifecycleMu, restartMu,           \* holders of the two mutexes
    writer, readers, blocked,         \* inflightMu
    cmd, port, state, recent,         \* fields of LlamaBackend
    wasRunning,                       \* local of the one Stop in progress
    child, announced, signalled,      \* the operating system's processes
    attempt, call, down,              \* per embed request
    report,                           \* per Health request
    ctxDone                           \* the daemon context is cancelled

locks    == <<lifecycleMu, restartMu>>
inflight == <<writer, readers, blocked>>
slot     == <<cmd, port, state>>
fields   == <<slot, recent, wasRunning>>
backend  == <<locks, inflight, fields>>
kids     == <<child, announced, signalled>>
request  == <<attempt, call, down>>
world    == <<report, ctxDone>>
outside  == <<kids, request, world>>
vars     == <<pc, target, backend, outside>>

-----------------------------------------------------------------------------
(* embedMaxAttempts of internal/server.                                     *)
MaxAttempts == 2

ChildStatus == {"starting", "up", "hung", "exited", "cleared", "reaped"}
Why         == {"none", "drained", "undrained"}
Reports     == {"none", "ok", "idle", "degraded"}

RpcAt     == {"idle", "ens_lock", "ens_cmd", "ens_probe", "ens_recent",
              "rst_lock", "rst_probe", "rst_announce", "rst_drain",
              "rst_lifecycle", "rst_verdict", "rst_stop", "rst_wait",
              "emb_rlock", "emb_port", "emb_call"}
StartAt   == {"start", "start_publish", "start_port", "start_health",
              "start_abort", "start_reap"}
StopAt    == {"stp_announce", "stp_drain", "stp_lifecycle", "stp_signal",
              "stp_wait", "stp_return"}
MainAt    == {"boot", "serve", "drain", "stopped", "halted"}
TickerAt  == {"off", "tick", "tick_probe", "gone"}
MonitorAt == {"idle", "srv_probe", "srv_recent"}
Locations == RpcAt \union StartAt \union StopAt \union MainAt
                \union TickerAt \union MonitorAt

ControlType ==
    /\ pc \in [Procs -> Locations]
    /\ \A r \in Rpcs : pc[r] \in RpcAt \union StartAt
    /\ pc[Main] \in MainAt \union StartAt \union StopAt
    /\ \A t \in Tickers : pc[t] \in TickerAt \union StopAt
    /\ \A m \in Monitors : pc[m] \in MonitorAt
    /\ target \in [Procs -> Children \union {NoChild}]

LockType ==
    /\ lifecycleMu \in Procs \union {NoProc}
    /\ restartMu \in Rpcs \union {NoProc}
    /\ writer \in Procs \union {NoProc}
    /\ readers \in SUBSET Rpcs
    /\ blocked \in SUBSET Rpcs

SlotType ==
    /\ cmd \in Children \union {NoChild}
    /\ port \in Children \union {NoChild}
    /\ state \in {"running", "suspended", "failed"}
    /\ recent \in BOOLEAN
    /\ wasRunning \in BOOLEAN

KidsType ==
    /\ child \in [Children -> ChildStatus]
    /\ announced \in SUBSET Children
    /\ signalled \in [Children -> Why]

RequestType ==
    /\ attempt \in [Rpcs -> 0 .. MaxAttempts]
    /\ call \in [Rpcs -> Children \union {NoChild}]
    /\ down \in [Rpcs -> BOOLEAN]

WorldType ==
    /\ report \in [Monitors -> Reports]
    /\ ctxDone \in BOOLEAN

TypeOK == ControlType /\ LockType /\ SlotType /\ KidsType /\ RequestType
             /\ WorldType

-----------------------------------------------------------------------------
(* The daemon before b.Start: nothing has run yet, and lastAlive is 0.      *)
Init ==
    /\ pc = [p \in Procs |-> IF p = Main THEN "boot"
                             ELSE IF p \in Tickers THEN "off" ELSE "idle"]
    /\ target = [p \in Procs |-> NoChild]
    /\ lifecycleMu = NoProc
    /\ restartMu = NoProc
    /\ writer = NoProc
    /\ readers = {}
    /\ blocked = {}
    /\ cmd = NoChild
    /\ port = NoChild
    /\ state = "running"
    /\ recent = FALSE
    /\ wasRunning = FALSE
    /\ child = [c \in Children |-> "reaped"]
    /\ announced = {}
    /\ signalled = [c \in Children |-> "none"]
    /\ attempt = [r \in Rpcs |-> 0]
    /\ call = [r \in Rpcs |-> NoChild]
    /\ down = [r \in Rpcs |-> FALSE]
    /\ report = [m \in Monitors |-> "none"]
    /\ ctxDone = FALSE

Live(c) == child[c] \in {"starting", "up", "hung"}
Load(c) == \E r \in Rpcs : call[r] = c

(* A reaped process whose identity nothing in the daemon still names.       *)
Fresh(c) ==
    /\ child[c] = "reaped"
    /\ port # c
    /\ \A p \in Procs : target[p] # c
    /\ ~Load(c)

(* Started, and not yet in b.cmd: no watcher waits for it.                  *)
Publishing(c) == \E p \in Starters : pc[p] = "start_publish" /\ target[p] = c

(* probeHealthy: no request without a port; 200 only from a child that      *)
(* answers.  Probes made under the daemon context fail once it is done.     *)
Answers == port # NoChild /\ child[port] = "up"
DaemonProbeAnswers == ~ctxDone /\ Answers
VerdictMisses == ctxDone \/ ~Answers \/ Load(port)

(* Goroutines run until the main goroutine returns.                         *)
Running == pc[Main] # "halted"
At(p, l) == Running /\ pc[p] = l
Goto(p, l) == pc' = [pc EXCEPT ![p] = l]
Step(p, from, to) ==
    At(p, from) /\ Goto(p, to) /\ UNCHANGED <<target, backend, outside>>

(* inflightMu.Unlock: readers that arrived behind the writer get the lock   *)
(* before any later writer does.                                            *)
UnlockInflight ==
    /\ writer' = NoProc
    /\ readers' = blocked
    /\ blocked' = {}

-----------------------------------------------------------------------------
(* Embed and EmbedBatch of the server.                                      *)

(* A call the server accepts: one made before SetBackend is answered        *)
(* FAILED_PRECONDITION, one made once the drain has begun is refused.       *)
Arrive(r) ==
    /\ At(r, "idle") /\ pc[Main] = "serve"
    /\ Goto(r, "ens_lock")
    /\ attempt' = [attempt EXCEPT ![r] = 1]
    /\ UNCHANGED <<target, backend, kids, call, down, world>>

(* The handler returns.                                                     *)
Finish(r) ==
    /\ Goto(r, "idle")
    /\ attempt' = [attempt EXCEPT ![r] = 0]
    /\ call' = [call EXCEPT ![r] = NoChild]
    /\ down' = [down EXCEPT ![r] = FALSE]

(* Mutated: the early return on a done context forgets to unlock.           *)
EnsureRefusedLocked(r) ==
    /\ At(r, "ens_lock") /\ lifecycleMu = NoProc
    /\ ctxDone
    /\ lifecycleMu' = r
    /\ Finish(r)
    /\ UNCHANGED <<target, restartMu, inflight, fields, kids, world>>

(* EnsureStarted takes lifecycleMu and looks at the daemon context.         *)
EnsureRefused(r) ==
    /\ At(r, "ens_lock") /\ lifecycleMu = NoProc
    /\ ctxDone
    /\ Finish(r)
    /\ UNCHANGED <<target, backend, kids, world>>

EnsureLock(r) ==
    /\ At(r, "ens_lock") /\ lifecycleMu = NoProc
    /\ ~ctxDone
    /\ lifecycleMu' = r
    /\ Goto(r, "ens_cmd")
    /\ down' = [down EXCEPT ![r] = FALSE]
    /\ UNCHANGED <<target, restartMu, inflight, fields, kids, attempt, call,
                   world>>

(* Mutated: a recent proof of life is trusted although there is no cmd.     *)
EnsureCmdTrustsGrace(r) ==
    Step(r, "ens_cmd",
         IF cmd = NoChild /\ ~recent THEN "start" ELSE "ens_probe")

EnsureCmd(r) ==
    Step(r, "ens_cmd", IF cmd = NoChild THEN "start" ELSE "ens_probe")

EnsureProbe(r) ==
    /\ At(r, "ens_probe")
    /\ \/ /\ DaemonProbeAnswers
          /\ lifecycleMu' = NoProc
          /\ Goto(r, "emb_rlock")
       \/ /\ Goto(r, "ens_recent")
          /\ UNCHANGED lifecycleMu
    /\ UNCHANGED <<target, restartMu, inflight, fields, outside>>

(* Mutated: a missed quick probe is always taken for a busy child.          *)
EnsureNeverDoubts(r) ==
    /\ At(r, "ens_recent")
    /\ lifecycleMu' = NoProc
    /\ Goto(r, "emb_rlock")
    /\ UNCHANGED <<target, restartMu, inflight, fields, outside>>

(* Mutated: lifecycleMu is still held when restartIfDead is called.         *)
EnsureRecentLocked(r) ==
    /\ At(r, "ens_recent")
    /\ lifecycleMu' = IF recent THEN NoProc ELSE lifecycleMu
    /\ Goto(r, IF recent THEN "emb_rlock" ELSE "rst_lock")
    /\ UNCHANGED <<target, restartMu, inflight, fields, outside>>

EnsureRecent(r) ==
    /\ At(r, "ens_recent")
    /\ lifecycleMu' = NoProc
    /\ Goto(r, IF recent THEN "emb_rlock" ELSE "rst_lock")
    /\ UNCHANGED <<target, restartMu, inflight, fields, outside>>

-----------------------------------------------------------------------------
(* restartIfDead.                                                           *)

RestartLock(r) ==
    /\ At(r, "rst_lock") /\ restartMu = NoProc
    /\ \/ /\ recent
          /\ Goto(r, "emb_rlock")
          /\ UNCHANGED restartMu
       \/ /\ ~recent
          /\ restartMu' = r
          /\ Goto(r, "rst_probe")
    /\ UNCHANGED <<target, lifecycleMu, inflight, fields, outside>>

(* Mutated: the verdict is reached without the drain.                       *)
RestartProbeUndrained(r) ==
    /\ At(r, "rst_probe")
    /\ \/ /\ DaemonProbeAnswers
          /\ restartMu' = NoProc
          /\ Goto(r, "emb_rlock")
       \/ /\ VerdictMisses
          /\ Goto(r, "rst_lifecycle")
          /\ UNCHANGED restartMu
    /\ UNCHANGED <<target, lifecycleMu, inflight, fields, outside>>

RestartProbe(r) ==
    /\ At(r, "rst_probe")
    /\ \/ /\ DaemonProbeAnswers
          /\ restartMu' = NoProc
          /\ Goto(r, "emb_rlock")
       \/ /\ VerdictMisses
          /\ Goto(r, "rst_announce")
          /\ UNCHANGED restartMu
    /\ UNCHANGED <<target, lifecycleMu, inflight, fields, outside>>

(* inflightMu.Lock: announce the writer, which blocks new readers, then     *)
(* wait for the readers that already hold the lock.                         *)
Announce(p, here, next) ==
    /\ At(p, here) /\ writer = NoProc
    /\ writer' = p
    /\ Goto(p, next)
    /\ UNCHANGED <<target, locks, readers, blocked, fields, outside>>

(* Mutated: the writer does not wait for the readers it finds.              *)
DrainSkipped(p, here, next) == Step(p, here, next)

Drain(p, here, next) ==
    /\ At(p, here)
    /\ readers = {}
    /\ Goto(p, next)
    /\ UNCHANGED <<target, backend, outside>>

RestartAnnounce(r) == Announce(r, "rst_announce", "rst_drain")
RestartDrain(r) == Drain(r, "rst_drain", "rst_lifecycle")

RestartLifecycle(r) ==
    /\ At(r, "rst_lifecycle") /\ lifecycleMu = NoProc
    /\ lifecycleMu' = r
    /\ Goto(r, IF cmd = NoChild THEN "start" ELSE "rst_verdict")
    /\ UNCHANGED <<target, restartMu, inflight, fields, outside>>

RestartVerdict(r) ==
    /\ At(r, "rst_verdict")
    /\ \/ /\ DaemonProbeAnswers
          /\ lifecycleMu' = NoProc
          /\ restartMu' = NoProc
          /\ UnlockInflight
          /\ Goto(r, "emb_rlock")
       \/ /\ VerdictMisses
          /\ Goto(r, "rst_stop")
          /\ UNCHANGED <<locks, inflight>>
    /\ UNCHANGED <<target, fields, outside>>

(* stopLocked once it has found a cmd: SIGTERM, and SIGKILL after 5 s or    *)
(* when the context ends.                                                   *)
Signal(p, why, wait) ==
    /\ cmd # NoChild
    /\ signalled' = [signalled EXCEPT ![cmd] = why]
    /\ target' = [target EXCEPT ![p] = cmd]
    /\ Goto(p, wait)

(* stopLocked up to the wait for done, as Stop and restartIfDead call it:   *)
(* without a cmd there is nothing to do.                                    *)
StopLocked(p, here, wait, next) ==
    /\ At(p, here)
    /\ \/ Signal(p, "drained", wait)
       \/ /\ cmd = NoChild
          /\ Goto(p, next)
          /\ UNCHANGED <<target, signalled>>
    /\ UNCHANGED <<backend, child, announced, request, world>>

(* Mutated: the unresponsive child is replaced and not stopped.             *)
RestartStopForgotten(r) == Step(r, "rst_stop", "start")

RestartStop(r) == StopLocked(r, "rst_stop", "rst_wait", "start")

RestartWait(r) ==
    /\ At(r, "rst_wait") /\ child[target[r]] = "reaped"
    /\ target' = [target EXCEPT ![r] = NoChild]
    /\ Goto(r, "start")
    /\ UNCHANGED <<backend, outside>>

-----------------------------------------------------------------------------
(* startLocked, called by Start (boot), EnsureStarted and restartIfDead.    *)

(* Back in the caller, whose deferred unlocks run: a failed boot goes on to *)
(* bailBoot, which calls Stop.                                              *)
StartReturns(p, ok) ==
    /\ lifecycleMu' = NoProc
    /\ \/ restartMu = p /\ restartMu' = NoProc /\ UnlockInflight
       \/ restartMu # p /\ UNCHANGED <<restartMu, inflight>>
    /\ target' = [target EXCEPT ![p] = NoChild]
    /\ \/ /\ p = Main
          /\ Goto(p, IF ok THEN "serve" ELSE "stp_announce")
          /\ UNCHANGED request
       \/ /\ p # Main /\ ok
          /\ Goto(p, "emb_rlock")
          /\ UNCHANGED request
       \/ p # Main /\ ~ok /\ Finish(p)

Boot ==
    /\ At(Main, "boot") /\ lifecycleMu = NoProc
    /\ lifecycleMu' = Main
    /\ Goto(Main, "start")
    /\ UNCHANGED <<target, restartMu, inflight, fields, outside>>

(* cmd.Start succeeds: there is a child, and b.cmd does not name it yet.    *)
StartChild(p, c) ==
    /\ At(p, "start") /\ ~ctxDone /\ Fresh(c)
    /\ child' = [child EXCEPT ![c] = "starting"]
    /\ announced' = announced \ {c}
    /\ target' = [target EXCEPT ![p] = c]
    /\ Goto(p, "start_publish")
    /\ UNCHANGED <<backend, signalled, request, world>>

(* The section of b.mu that publishes the child, and its watcher after it.  *)
StartPublish(p) ==
    /\ At(p, "start_publish")
    /\ cmd' = target[p]
    /\ port' = NoChild
    /\ state' = "running"
    /\ Goto(p, "start_port")
    /\ UNCHANGED <<target, locks, inflight, recent, wasRunning, outside>>

(* cmd.Start fails: nothing of the backend has changed.                     *)
StartFails(p) ==
    /\ At(p, "start")
    /\ StartReturns(p, FALSE)
    /\ UNCHANGED <<fields, kids, world>>

(* The select on the port line, the end of the child's output, and the      *)
(* daemon context.                                                          *)
StartPort(p) ==
    /\ At(p, "start_port")
    /\ \/ /\ target[p] \in announced
          /\ announced' = announced \ {target[p]}
          /\ port' = target[p]
          /\ Goto(p, "start_health")
       \/ /\ ~Live(target[p])
          /\ Goto(p, "start_reap")
          /\ UNCHANGED <<port, announced>>
       \/ /\ ctxDone
          /\ Goto(p, "start_abort")
          /\ UNCHANGED <<port, announced>>
    /\ UNCHANGED <<target, locks, inflight, cmd, state, recent, wasRunning,
                   child, signalled, request, world>>

(* The health poll of at most 15 s: healthy ...                             *)
StartHealthy(p) ==
    /\ At(p, "start_health")
    /\ DaemonProbeAnswers
    /\ recent' = TRUE
    /\ StartReturns(p, TRUE)
    /\ UNCHANGED <<slot, wasRunning, kids, world>>

(* ... or the child's output ended, or the deadline has passed.             *)
StartUnhealthy(p) ==
    /\ At(p, "start_health")
    /\ \/ ~Live(target[p]) /\ Goto(p, "start_reap")
       \/ Goto(p, "start_abort")
    /\ UNCHANGED <<target, backend, outside>>

(* stopLocked before the error is returned: the child may be gone already.  *)
StartAbort(p) ==
    /\ At(p, "start_abort")
    /\ Signal(p, "undrained", "start_reap")
    /\ UNCHANGED <<backend, child, announced, request, world>>

StartAbortNothing(p) ==
    /\ At(p, "start_abort") /\ cmd = NoChild
    /\ StartReturns(p, FALSE)
    /\ UNCHANGED <<fields, kids, world>>

(* <-done, then the error.                                                  *)
StartReap(p) ==
    /\ At(p, "start_reap")
    /\ child[target[p]] = "reaped"
    /\ StartReturns(p, FALSE)
    /\ UNCHANGED <<fields, kids, world>>

-----------------------------------------------------------------------------
(* LlamaBackend.Embed and EmbedBatch, and the retry of their caller.        *)

(* An EmbedBatch of no texts answers without touching the backend.          *)
EmbedNothing(r) ==
    /\ At(r, "emb_rlock")
    /\ Finish(r)
    /\ UNCHANGED <<target, backend, kids, world>>

(* inflightMu.RLock: behind an announced writer a reader waits.             *)
EmbedRLock(r) ==
    /\ At(r, "emb_rlock")
    /\ Goto(r, "emb_port")
    /\ \/ /\ writer = NoProc
          /\ readers' = readers \union {r}
          /\ UNCHANGED blocked
       \/ /\ writer # NoProc
          /\ blocked' = blocked \union {r}
          /\ UNCHANGED readers
    /\ UNCHANGED <<target, locks, writer, fields, outside>>

RUnlock(r) ==
    /\ readers' = readers \ {r}
    /\ UNCHANGED <<writer, blocked>>

(* doJSON reads the port under the read lock, and calls the child there ... *)
EmbedCall(r) ==
    /\ At(r, "emb_port") /\ r \in readers
    /\ port # NoChild
    /\ call' = [call EXCEPT ![r] = port]
    /\ Goto(r, "emb_call")
    /\ UNCHANGED <<target, backend, kids, attempt, down, world>>

(* Mutated: the retry is not bounded.                                       *)
EmbedRetryUnbounded(r) ==
    /\ At(r, "emb_port") /\ r \in readers
    /\ port = NoChild
    /\ attempt' = [attempt EXCEPT ![r] = @ + 1]
    /\ Goto(r, "ens_lock")
    /\ RUnlock(r)
    /\ UNCHANGED <<target, locks, fields, kids, call, down, world>>

(* ... or finds none: ErrNotStarted, the only error that is retried.        *)
EmbedRetry(r) ==
    /\ At(r, "emb_port") /\ r \in readers
    /\ port = NoChild /\ attempt[r] < MaxAttempts
    /\ attempt' = [attempt EXCEPT ![r] = @ + 1]
    /\ Goto(r, "ens_lock")
    /\ RUnlock(r)
    /\ UNCHANGED <<target, locks, fields, kids, call, down, world>>

(* "backend kept suspending between EnsureStarted and Embed".               *)
EmbedExhausted(r) ==
    /\ At(r, "emb_port") /\ r \in readers
    /\ port = NoChild /\ attempt[r] = MaxAttempts
    /\ Finish(r)
    /\ RUnlock(r)
    /\ UNCHANGED <<target, locks, fields, kids, world>>

EmbedSucceeds(r) ==
    /\ At(r, "emb_call") /\ child[call[r]] = "up"
    /\ recent' = TRUE
    /\ RUnlock(r)
    /\ Finish(r)
    /\ UNCHANGED <<target, locks, slot, wasRunning, kids, world>>

(* Mutated: the error path forgets to unlock inflightMu.                    *)
EmbedFailsLocked(r) ==
    /\ At(r, "emb_call")
    /\ Finish(r)
    /\ UNCHANGED <<target, backend, kids, world>>

(* Mutated: no timeout on the embed call.                                   *)
EmbedFailsUntimed(r) ==
    /\ At(r, "emb_call") /\ ~Live(call[r])
    /\ RUnlock(r)
    /\ Finish(r)
    /\ UNCHANGED <<target, locks, fields, kids, world>>

(* A dead child, the caller's deadline or embedRequestTimeout.              *)
EmbedFails(r) ==
    /\ At(r, "emb_call")
    /\ RUnlock(r)
    /\ Finish(r)
    /\ UNCHANGED <<target, locks, fields, kids, world>>

-----------------------------------------------------------------------------
(* Health, through Serving.                                                 *)

Report(m, rep) == Goto(m, "idle") /\ report' = [report EXCEPT ![m] = rep]

ServingRead(m) ==
    /\ At(m, "idle") /\ pc[Main] = "serve"
    /\ \/ /\ cmd # NoChild
          /\ Goto(m, "srv_probe")
          /\ report' = [report EXCEPT ![m] = "none"]
       \/ cmd = NoChild /\ state = "suspended" /\ Report(m, "idle")
       \/ cmd = NoChild /\ state # "suspended" /\ Report(m, "degraded")
    /\ UNCHANGED <<target, backend, kids, request, ctxDone>>

ServingProbe(m) ==
    /\ At(m, "srv_probe")
    /\ \/ Answers /\ recent' = TRUE /\ Report(m, "ok")
       \/ Goto(m, "srv_recent") /\ UNCHANGED <<recent, report>>
    /\ UNCHANGED <<target, locks, inflight, slot, wasRunning, kids, request,
                   ctxDone>>

ServingRecent(m) ==
    /\ At(m, "srv_recent")
    /\ Report(m, IF recent THEN "ok" ELSE "degraded")
    /\ UNCHANGED <<target, backend, kids, request, ctxDone>>

-----------------------------------------------------------------------------
(* Stop, called by the idle ticker and at the end by the main goroutine.    *)

(* go func(), once SetBackend has run.                                      *)
TickerStarts(t) ==
    /\ At(t, "off") /\ pc[Main] = "serve"
    /\ Goto(t, "tick")
    /\ UNCHANGED <<target, backend, outside>>

(* Every 30 s, until the daemon's context is done.  The idle                *)
(* timeout may be as short as one likes, so it may have elapsed whenever    *)
(* the ticker looks.                                                        *)
Tick(t) ==
    /\ At(t, "tick")
    /\ \/ ctxDone /\ Goto(t, "gone")
       \/ Goto(t, "tick_probe")
    /\ UNCHANGED <<target, backend, outside>>

(* IsHealthy: a suspended child, or one that misses the probe, is left.     *)
TickProbe(t) ==
    /\ At(t, "tick_probe")
    /\ \/ DaemonProbeAnswers /\ recent' = TRUE /\ Goto(t, "stp_announce")
       \/ Goto(t, "tick") /\ UNCHANGED recent
    /\ UNCHANGED <<target, locks, inflight, slot, wasRunning, outside>>

StopAnnounce(p) == Announce(p, "stp_announce", "stp_drain")
StopDrain(p) == Drain(p, "stp_drain", "stp_lifecycle")

StopLifecycle(p) ==
    /\ At(p, "stp_lifecycle") /\ lifecycleMu = NoProc
    /\ lifecycleMu' = p
    /\ wasRunning' = (cmd # NoChild)
    /\ Goto(p, "stp_signal")
    /\ UNCHANGED <<target, restartMu, inflight, slot, recent, outside>>

StopSignal(p) == StopLocked(p, "stp_signal", "stp_wait", "stp_return")

(* Mutated: Stop does not wait for done.                                    *)
StopWaitSkipped(p) == Step(p, "stp_wait", "stp_return")

(* Mutated: Stop clears the slot itself and does not wait for done.         *)
StopWaitClears(p) ==
    /\ At(p, "stp_wait")
    /\ cmd' = NoChild
    /\ port' = NoChild
    /\ Goto(p, "stp_return")
    /\ UNCHANGED <<target, locks, inflight, state, recent, wasRunning, outside>>

StopWait(p) ==
    /\ At(p, "stp_wait") /\ child[target[p]] = "reaped"
    /\ Goto(p, "stp_return")
    /\ UNCHANGED <<target, backend, outside>>

(* Marks the suspension and releases both locks.                            *)
StopReturn(p) ==
    /\ At(p, "stp_return")
    /\ state' = IF wasRunning THEN "suspended" ELSE state
    /\ wasRunning' = FALSE
    /\ lifecycleMu' = NoProc
    /\ UnlockInflight
    /\ target' = [target EXCEPT ![p] = NoChild]
    /\ Goto(p, IF p = Main THEN "stopped" ELSE "tick")
    /\ UNCHANGED <<restartMu, cmd, port, recent, outside>>

(* A signal, a Shutdown call, a serve fault or the socket watchdog: Health  *)
(* says SHUTTING_DOWN and GracefulStop refuses new calls.                   *)
ShutdownBegins == Step(Main, "serve", "drain")

(* Mutated: the main goroutine goes on while handlers still run.            *)
DrainedEarly == Step(Main, "drain", "stp_announce")

(* GracefulStop returns, or Stop after 10 s does: either waits for every    *)
(* handler.                                                                 *)
Drained ==
    /\ At(Main, "drain")
    /\ \A h \in Rpcs \union Monitors : pc[h] = "idle"
    /\ Goto(Main, "stp_announce")
    /\ UNCHANGED <<target, backend, outside>>

(* run returns, and the process ends.                                       *)
Exit == Step(Main, "stopped", "halted")

-----------------------------------------------------------------------------
(* watchChild, one goroutine per child.                                     *)

WatchClear(c) ==
    /\ Running /\ child[c] = "exited" /\ ~Publishing(c)
    /\ child' = [child EXCEPT ![c] = "cleared"]
    /\ \/ /\ cmd = c
          /\ cmd' = NoChild
          /\ port' = NoChild
          /\ state' = "failed"
          /\ down' = [r \in Rpcs |-> attempt[r] # 0]
       \/ cmd # c /\ UNCHANGED <<slot, down>>
    /\ UNCHANGED <<pc, target, locks, inflight, recent, wasRunning, announced,
                   signalled, attempt, call, world>>

WatchDone(c) ==
    /\ Running /\ child[c] = "cleared"
    /\ child' = [child EXCEPT ![c] = "reaped"]
    /\ signalled' = [signalled EXCEPT ![c] = "none"]
    /\ UNCHANGED <<pc, target, backend, announced, request, world>>

-----------------------------------------------------------------------------
(* The environment: llama-server, time, and the daemon context.             *)

ChildMoves(c, from, to) ==
    /\ child[c] \in from
    /\ child' = [child EXCEPT ![c] = to]
    /\ UNCHANGED <<pc, target, backend, signalled, request, world>>

ChildAnnounces(c) ==
    ChildMoves(c, {"starting"}, "up") /\ announced' = announced \union {c}
ChildWedges(c) == ChildMoves(c, {"up"}, "hung") /\ UNCHANGED announced
ChildRecovers(c) == ChildMoves(c, {"hung"}, "up") /\ UNCHANGED announced

(* A crash, a signal, or the kill exec.CommandContext sends.                *)
ChildExits(c) ==
    ChildMoves(c, {"starting", "up", "hung"}, "exited") /\ UNCHANGED announced

(* The last proof of life grows older than aliveGrace.                      *)
GraceExpires ==
    /\ recent
    /\ recent' = FALSE
    /\ UNCHANGED <<pc, target, locks, inflight, slot, wasRunning, outside>>

(* The socket watchdog evicts the daemon: it triggers the shutdown and      *)
(* cancels the context, which kills the child.                              *)
Evict ==
    /\ ~ctxDone
    /\ ctxDone' = TRUE
    /\ UNCHANGED <<pc, target, backend, kids, request, report>>

-----------------------------------------------------------------------------
RpcStep(r) ==
    \/ EnsureRefused(r) \/ EnsureLock(r) \/ EnsureCmd(r) \/ EnsureProbe(r)
    \/ EnsureRecent(r)
    \/ RestartLock(r) \/ RestartProbe(r) \/ RestartAnnounce(r)
    \/ RestartDrain(r) \/ RestartLifecycle(r) \/ RestartVerdict(r)
    \/ RestartStop(r) \/ RestartWait(r)
    \/ EmbedNothing(r) \/ EmbedRLock(r) \/ EmbedCall(r) \/ EmbedRetry(r)
    \/ EmbedExhausted(r) \/ EmbedSucceeds(r) \/ EmbedFails(r)

StartStep(p) ==
    \/ \E c \in Children : StartChild(p, c)
    \/ StartPublish(p) \/ StartFails(p) \/ StartPort(p)
    \/ StartHealthy(p) \/ StartUnhealthy(p)
    \/ StartAbort(p) \/ StartAbortNothing(p) \/ StartReap(p)

StopStep(p) ==
    \/ StopAnnounce(p) \/ StopDrain(p) \/ StopLifecycle(p) \/ StopSignal(p)
    \/ StopWait(p) \/ StopReturn(p)

MainStep == Boot \/ ShutdownBegins \/ Drained \/ Exit
TickerStep(t) == TickerStarts(t) \/ Tick(t) \/ TickProbe(t)
MonitorStep(m) == ServingRead(m) \/ ServingProbe(m) \/ ServingRecent(m)
WatcherStep(c) == WatchClear(c) \/ WatchDone(c)

Environment ==
    \/ \E c \in Children : \/ ChildAnnounces(c) \/ ChildWedges(c)
                           \/ ChildRecovers(c) \/ ChildExits(c)
    \/ GraceExpires \/ Evict

(* The process has ended.                                                   *)
Halted == ~Running /\ UNCHANGED vars

Next ==
    \/ \E r \in Rpcs : Arrive(r) \/ RpcStep(r)
    \/ \E p \in Starters : StartStep(p)
    \/ \E p \in Stoppers : StopStep(p)
    \/ MainStep
    \/ \E t \in Tickers : TickerStep(t)
    \/ \E m \in Monitors : MonitorStep(m)
    \/ \E c \in Children : WatcherStep(c)
    \/ Environment
    \/ Halted

Spec == Init /\ [][Next]_vars

-----------------------------------------------------------------------------
(* Fairness.  A goroutine that can run does, and one that waits for a mutex *)
(* gets it if it is free again and again (sync.Mutex hands over to a waiter *)
(* after 1 ms; RWMutex releases waiting readers first).  Every wait of the  *)
(* code that a timeout bounds ends.  Nothing obliges a caller to call, a    *)
(* child to crash or recover, or the daemon to shut down.                   *)
RpcRuns(r)     == RpcStep(r) \/ StartStep(r)
MainRuns       == \/ Boot \/ StartStep(Main) \/ Drained \/ StopStep(Main)
                  \/ Exit
                  \/ ctxDone /\ ShutdownBegins
TickerRuns(t)  == TickerStep(t) \/ StopStep(t)
MonitorRuns(m) == ServingProbe(m) \/ ServingRecent(m)
KillLands(c)   == (signalled[c] # "none" \/ ctxDone) /\ ChildExits(c)

DaemonFairness ==
    /\ \A r \in Rpcs : SF_vars(RpcRuns(r))
    /\ SF_vars(MainRuns)
    /\ \A t \in Tickers : SF_vars(TickerRuns(t))
    /\ \A m \in Monitors : WF_vars(MonitorRuns(m))
    /\ \A c \in Children : WF_vars(WatcherStep(c)) /\ WF_vars(KillLands(c))
    /\ WF_vars(GraceExpires)

(* A llama-server that has started either prints its port or exits.         *)
StartupEnds(c) ==
    child[c] = "starting" /\ (ChildAnnounces(c) \/ ChildExits(c))

DaemonSpec == Spec /\ DaemonFairness
FairSpec == DaemonSpec /\ \A c \in Children : WF_vars(StartupEnds(c))

-----------------------------------------------------------------------------
(* Safety.                                                                  *)

(* Whatever races with a restart, a crash or a suspension, there are never  *)
(* two llama-server processes, each with the model in memory, and none that *)
(* Stop could not reach: one that is alive is the one b.cmd names, or that  *)
(* the holder of lifecycleMu is about to put there.                         *)
LiveChildIsOwned ==
    /\ \A c, d \in Children : Live(c) /\ Live(d) => c = d
    /\ \A c \in Children : Live(c) => cmd = c \/ Publishing(c)

(* Neither Stop nor restartIfDead signals a child while an embed call is    *)
(* outstanding on it, and no call begins on a child they have signalled     *)
(* (the drain of inflightMu).                                               *)
DrainBeforeStop ==
    \A r \in Rpcs : call[r] # NoChild => signalled[call[r]] # "drained"

(* An embed attempt meets ErrNotStarted only if a child went down after the *)
(* attempt called EnsureStarted: so "kept suspending" needs two of them.    *)
NotStartedOnlyAfterExit ==
    \A r \in readers : pc[r] = "emb_port" /\ port = NoChild => down[r]

(* When runed ends in order, whether booted or not, no llama-server is left *)
(* behind: no handler resurrects one after the last Stop.                   *)
HaltedLeavesNoChild ==
    pc[Main] = "halted" => \A c \in Children : ~Live(c)

(* A suspension is not overwritten by the late watcher of the stopped       *)
(* child: Health keeps saying IDLE until a child is started again.          *)
SuspensionSticks == [][state = "suspended" => state' # "failed"]_vars

(* q is what p waits for: a lock, the end of its readers, or a handler.     *)
HoldsUp(q, p) ==
    \/ /\ pc[p] \in {"boot", "ens_lock", "rst_lifecycle", "stp_lifecycle"}
       /\ q = lifecycleMu
    \/ pc[p] = "rst_lock" /\ q = restartMu
    \/ pc[p] \in {"rst_announce", "stp_announce"} /\ q = writer
    \/ pc[p] \in {"rst_drain", "stp_drain"} /\ q \in readers
    \/ p \in blocked /\ q = writer
    \/ pc[p] = "drain" /\ q \in Rpcs \union Monitors /\ pc[q] # "idle"

(* Nobody waits in a circle: of the three locks restartMu comes before      *)
(* inflightMu and that before lifecycleMu ("lock order", llama.go), and     *)
(* EnsureStarted, which returns before it may restart, holds no other.      *)
NoCircularWait ==
    \A S \in SUBSET Procs :
        (\A p \in S : \E q \in S : HoldsUp(q, p)) => S = {}

(* The abstract service: the children that exist, those that Stop or        *)
(* restartIfDead has signalled, and how far the daemon has come.            *)
Stage ==
    CASE pc[Main] \in {"boot"} \union StartAt -> "booting"
      [] pc[Main] = "serve" -> "serving"
      [] pc[Main] \in {"drain", "stopped"} \union StopAt -> "closed"
      [] pc[Main] = "halted" -> "halted"

Service ==
    INSTANCE EmbeddingService WITH
        Requests <- Rpcs,
        stage <- Stage,
        busy <- {r \in Rpcs : pc[r] # "idle"},
        on <- call,
        alive <- {c \in Children : Live(c)},
        condemned <- {c \in Children : Live(c) /\ signalled[c] = "drained"},
        unrecorded <- {c \in Children : Publishing(c)},
        health <- state

(* Leaders, followers, watchers, the ticker and the shutdown together do    *)
(* nothing to the child, to a request or to the health that the service may *)
(* not: no second child, none stopped under a call, none started while      *)
(* nobody needs it, and a suspension is never overwritten by a failure.     *)
ImplementsService == Service!Spec

(* restartIfDead condemns no child that would answer an unloaded probe,     *)
(* however saturated it was when the first probes were missed.              *)
BusyChildIsSpared ==
    [][\A r \in Rpcs :
         /\ pc[r] = "rst_verdict" /\ pc'[r] = "rst_stop"
         /\ ~ctxDone /\ cmd # NoChild
         => child[cmd] # "up"]_vars

(* Health says IDLE only while nothing is left of the llama-server that was *)
(* suspended, and none is there but one that a resume has just forked and   *)
(* not yet put into b.cmd (Serving holds b.mu only).                        *)
IdleReportIsTrue ==
    [][\A m \in Monitors :
         report'[m] = "idle" /\ report[m] # "idle"
         => \A c \in Children : Live(c) => Publishing(c)]_vars

-----------------------------------------------------------------------------
(* Liveness.                                                                *)

(* Every Embed and EmbedBatch call returns, whatever the child does once it *)
(* has started up: leaders, followers and drains never wait in a circle.    *)
EmbedReturns == \A r \in Rpcs : (pc[r] = "ens_lock") ~> (pc[r] = "idle")

(* A graceful shutdown ends.                                                *)
ShutdownCompletes == (pc[Main] = "drain") ~> (pc[Main] = "halted")

(* While requests keep arriving, a child that has stopped answering is      *)
(* replaced, unless it recovers.                                            *)
WedgedChildReplaced ==
    (\A r \in Rpcs : []<>(pc[r] = "ens_lock")) =>
        \A c \in Children :
            (cmd = c /\ child[c] = "hung") ~> (child[c] # "hung")

(* An idle suspension that has begun ends: the drain it waits for is        *)
(* bounded by embedRequestTimeout even on a child that hangs.               *)
SuspendEnds ==
    \A t \in Tickers :
        (pc[t] = "stp_announce") ~> (pc[t] \notin StopAt \/ ~Running)

-----------------------------------------------------------------------------
(* What the repository's comments say and the code does not do.             *)

(* Stop marks the suspension "only if we actually stopped a running child,  *)
(* so a Stop on an already-crashed backend doesn't mask the failure"        *)
(* (llama.go:537).                                                          *)
OnlyStoppedIsSuspended ==
    [][state' = "suspended" /\ state # "suspended"
         => \E p \in Stoppers : target[p] # NoChild]_vars

(* "restartIfDead is the only path that may kill an unresponsive child" and *)
(* it drains every in-flight embed first (llama.go:224): the health         *)
(* deadline of a start kills none with a call outstanding.                  *)
StartNeverCutsEmbed ==
    \A r \in Rpcs : call[r] # NoChild => signalled[call[r]] # "undrained"

(* "After Stop returns, cmd is nil and port is 0" (llama.go:518).           *)
StopClears ==
    [][\A p \in Stoppers :
         pc[p] = "stp_return" /\ pc'[p] # "stp_return"
         => cmd = NoChild /\ port = NoChild]_vars

(* "backend.Start already bounds start-up on its own" (main.go:226).        *)
StartIsBounded == (pc[Main] = "start_port") ~> (pc[Main] # "start_port")
=============================================================================
