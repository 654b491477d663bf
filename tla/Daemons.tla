------------------------------ MODULE Daemons -------------------------------
(***************************************************************************)
(* The runed daemons that meet at one socket path (run in                  *)
(* cmd/runed, the listener of internal/ipc, the shutdown channel and the   *)
(* publication of the backend in internal/server), started at any time, by *)
(* clients or a supervisor.                                                *)
(*                                                                         *)
(* A daemon is several machines: pc is the main goroutine, lis the         *)
(* listener, served the goroutine of gs.Serve, watch the ownership         *)
(* watchdog, waiting its Embed handlers.  A dial succeeds when a live      *)
(* listener's inode is at the path, whether gRPC serves it yet or not: the *)
(* kernel queues the connection.  bind and listen are one step, which is   *)
(* the listen.  A socket's inode is pinned only while its listener is      *)
(* open, so that a later bind may get the same number.  The installation   *)
(* and the start of llama-server are one boot stage, which may fail, and   *)
(* which ends soon only when its context is cancelled.                     *)
(***************************************************************************)
EXTENDS Naturals

CONSTANTS
    Daemons,    \* daemon processes, one life each
    Inodes,     \* inode numbers of socket files
    None, File, \* what the path holds otherwise: nothing, no socket
    Outside,    \* whoever else removes files
    MaxEvents   \* bound: signals, RPCs, faults and wipes in a behaviour

ASSUME DaemonsAssumption ==
    /\ None \notin Inodes /\ File \notin Inodes /\ None # File
    /\ Outside \notin Daemons
    /\ None \notin Daemons /\ File \notin Daemons
    /\ MaxEvents \in Nat

VARIABLES
    path,           \* what is at the socket path
    maker,          \* history: the daemon that bound what is there
    sock,           \* per daemon: the inode its listener is bound to
    ident,          \* per daemon: the inode ownedListener remembers
    pc, lis, watch,
    shutdown,       \* daemons whose shutdownCh is closed
    cancelled,      \* daemons whose context is
    evicted,        \* daemons whose evicted flag is set
    signalled,      \* daemons with a signal in sigCh
    faulted,        \* daemons whose Serve returned an error
    served,         \* daemons whose Serve has registered the listener
    waiting,        \* daemons with a handler that waits for llama-server
    published,      \* daemons whose SetBackend is done
    ret,            \* per daemon: what run will return, and why
    code,           \* per daemon: how its process ended
    events,         \* signals, RPCs, faults and wipes so far
    racing,         \* history: who was past its own probe at a bind
    thefts          \* history: whose file was removed by whom

files == <<path, maker, thefts>>
listeners == <<sock, ident, lis, racing>>
flags == <<shutdown, cancelled, evicted>>
pending == <<signalled, faulted, served, waiting>>
outcome == <<ret, code>>
vars == <<files, listeners, pc, watch, flags, pending, published, outcome,
          events>>

Starting == {"clean", "unlink", "stat", "dial", "rmstale", "bind", "ident",
             "unbind"}
Serving == {"boot", "select", "draining"}
Places == {"off", "probe", "gone"} \union Starting \union Serving

TypeOK ==
    /\ path \in Inodes \union {None, File}
    /\ maker \in Daemons \union {Outside}
    /\ sock \in [Daemons -> Inodes \union {None}]
    /\ ident \in [Daemons -> Inodes \union {None, File}]
    /\ pc \in [Daemons -> Places]
    /\ lis \in [Daemons -> {"none", "open", "checking", "unlinking", "closed"}]
    /\ watch \in [Daemons -> {"off", "on", "doubt", "mark", "cancel", "done"}]
    /\ shutdown \subseteq Daemons
    /\ cancelled \subseteq Daemons
    /\ evicted \subseteq Daemons
    /\ signalled \subseteq Daemons
    /\ faulted \subseteq Daemons
    /\ served \subseteq Daemons
    /\ waiting \subseteq Daemons
    /\ published \subseteq Daemons
    /\ ret \in [Daemons -> {"nil", "listen", "boot", "cut", "serve"}]
    /\ code \in [Daemons -> {"none", "zero", "one", "killed"}]
    /\ events \in 0 .. MaxEvents
    /\ racing \in [Daemons -> SUBSET Daemons]
    /\ thefts \subseteq (Daemons \union {Outside}) \X Daemons
    /\ \A d \in Daemons :   \* a watchdog knows what it watches
          watch[d] \notin {"off", "done"} => ident[d] # None

Init ==
    /\ path \in Inodes \union {None, File}
    /\ maker = Outside
    /\ sock = [d \in Daemons |-> None]
    /\ ident = [d \in Daemons |-> None]
    /\ pc = [d \in Daemons |-> "off"]
    /\ lis = [d \in Daemons |-> "none"]
    /\ watch = [d \in Daemons |-> "off"]
    /\ shutdown = {} /\ cancelled = {} /\ evicted = {}
    /\ signalled = {} /\ faulted = {} /\ published = {}
    /\ served = {} /\ waiting = {}
    /\ ret = [d \in Daemons |-> "nil"]
    /\ code = [d \in Daemons |-> "none"]
    /\ events = 0
    /\ racing = [d \in Daemons |-> {}]
    /\ thefts = {}

-----------------------------------------------------------------------------
(* The path.                                                                *)

Dials(p) == \E d \in Daemons : sock[d] # None /\ sock[d] = p

(* What os.Remove(path) by someone does, an absent file included.           *)
Unlink(by) ==
    /\ path' = None
    /\ maker' = Outside
    /\ thefts' = thefts \union
           {<<by, d>> : d \in {e \in Daemons \ {by} :
                                  sock[e] # None /\ sock[e] = path}}

StillOwned(d) == path # None /\ path = ident[d]

Goto(d, from, to) == pc[d] = from /\ pc' = [pc EXCEPT ![d] = to]

(* The process is over and its memory with it: the kernel closes its        *)
(* listener, its file stays.  That it was served is history from then on.   *)
Over(d, how) ==
    /\ pc' = [pc EXCEPT ![d] = "gone"]
    /\ code' = [code EXCEPT ![d] = how]
    /\ sock' = [sock EXCEPT ![d] = None]
    /\ lis' = [lis EXCEPT ![d] = "closed"]
    /\ watch' = [watch EXCEPT ![d] = "done"]
    /\ ident' = [ident EXCEPT ![d] = None]
    /\ published' = published \ {d}
    /\ shutdown' = shutdown \ {d}
    /\ cancelled' = cancelled \ {d}
    /\ evicted' = evicted \ {d}
    /\ signalled' = signalled \ {d}
    /\ faulted' = faulted \ {d}
    /\ waiting' = waiting \ {d}
    /\ UNCHANGED served

-----------------------------------------------------------------------------
(* run: from its start to the listener.                                     *)

(* Mutated: the early probe is skipped.                                     *)
ProbeSkipped(d) ==
    /\ Goto(d, "probe", "clean")
    /\ UNCHANGED <<files, listeners, watch, flags, pending, published,
                   outcome, events>>

Probe(d) ==
    /\ pc[d] = "probe"
    /\ IF Dials(path)
       THEN Over(d, "zero") /\ UNCHANGED <<racing, ret>>
       ELSE /\ pc' = [pc EXCEPT ![d] = "clean"]
            /\ UNCHANGED <<listeners, watch, flags, pending, published,
                           outcome>>
    /\ UNCHANGED <<files, events>>

(* os.Stat, then os.Remove of whatever is there by now.                     *)
Clean(d) ==
    /\ Goto(d, "clean", IF path = None THEN "stat" ELSE "unlink")
    /\ UNCHANGED <<files, listeners, watch, flags, pending, published,
                   outcome, events>>

(* An early return of run before it listens.                                *)
Refuse(d) ==
    /\ Over(d, "one")
    /\ ret' = [ret EXCEPT ![d] = "listen"]
    /\ UNCHANGED <<files, racing, events>>

CleanUnlink(d) ==
    /\ pc[d] = "unlink"
    /\ IF path = None
       THEN Refuse(d)
       ELSE /\ Goto(d, "unlink", "stat")
            /\ Unlink(d)
            /\ UNCHANGED <<listeners, watch, flags, pending, published,
                           outcome, events>>

(* A file that is no socket is not found here: run has just removed what    *)
(* was at the path, and nobody but daemons puts anything there.             *)
ListenStat(d) ==
    /\ Goto(d, "stat", IF path = None THEN "bind" ELSE "dial")
    /\ UNCHANGED <<files, listeners, watch, flags, pending, published,
                   outcome, events>>

ListenDial(d) ==
    /\ pc[d] = "dial"
    /\ IF Dials(path)
       THEN Refuse(d)
       ELSE /\ Goto(d, "dial", "rmstale")
            /\ UNCHANGED <<files, listeners, watch, flags, pending,
                           published, outcome, events>>

ListenRemoveStale(d) ==
    /\ Goto(d, "rmstale", "bind")
    /\ Unlink(d)
    /\ UNCHANGED <<listeners, watch, flags, pending, published, outcome,
                   events>>

(* Processes that decided about the path before this bind and may still act *)
(* on it: starting daemons past their probe, closing ones, and those that   *)
(* took another socket's inode for their own (ListenIdentify).              *)
InWindow(d) ==
    {e \in Daemons \ {d} : \/ pc[e] \in Starting
                           \/ lis[e] \in {"checking", "unlinking"}
                           \/ lis[e] = "open" /\ ident[e] # sock[e]}

FreeInodes == Inodes \ {sock[d] : d \in Daemons}

(* Mutated: the socket is bound elsewhere and renamed into place.           *)
ListenBindOver(d) ==
    /\ Goto(d, "bind", "ident")
    /\ \E i \in FreeInodes \ {path} :
          path' = i /\ sock' = [sock EXCEPT ![d] = i]
    /\ maker' = d
    /\ racing' = [racing EXCEPT ![d] = InWindow(d)]
    /\ UNCHANGED <<thefts, ident, lis, watch, flags, pending, published,
                   outcome, events>>

(* net.Listen, and SetUnlinkOnClose(false).                                 *)
ListenBind(d) ==
    /\ pc[d] = "bind"
    /\ IF path # None
       THEN Refuse(d)
       ELSE /\ Goto(d, "bind", "ident")
            /\ \E i \in FreeInodes :
                  path' = i /\ sock' = [sock EXCEPT ![d] = i]
            /\ maker' = d
            /\ racing' = [racing EXCEPT ![d] = InWindow(d)]
            /\ UNCHANGED <<thefts, ident, lis, watch, flags, pending,
                           published, outcome, events>>

(* Mutated: the results of chmod and socketIdentity are ignored.            *)
ListenIdentifyUnchecked(d) ==
    /\ Goto(d, "ident", "boot")
    /\ ident' = [ident EXCEPT ![d] = path]
    /\ lis' = [lis EXCEPT ![d] = "open"]
    /\ watch' = [watch EXCEPT ![d] = "on"]
    /\ UNCHANGED <<files, sock, racing, flags, pending, published, outcome,
                   events>>

(* chmod and socketIdentity work on the path, not on the socket that was    *)
(* bound; run then starts the goroutines of Serve and of the watchdog.      *)
ListenIdentify(d) ==
    /\ pc[d] = "ident"
    /\ IF path = None
       THEN /\ Goto(d, "ident", "unbind")
            /\ sock' = [sock EXCEPT ![d] = None]
            /\ UNCHANGED <<ident, lis, watch>>
       ELSE /\ Goto(d, "ident", "boot")
            /\ ident' = [ident EXCEPT ![d] = path]
            /\ lis' = [lis EXCEPT ![d] = "open"]
            /\ watch' = [watch EXCEPT ![d] = "on"]
            /\ UNCHANGED sock
    /\ UNCHANGED <<files, racing, flags, pending, published, outcome,
                   events>>

(* The error path of Listen removes whatever is at the path.                *)
ListenUndo(d) ==
    /\ pc[d] = "unbind"
    /\ Unlink(d)
    /\ Over(d, "one")
    /\ ret' = [ret EXCEPT ![d] = "listen"]
    /\ UNCHANGED <<racing, events>>

-----------------------------------------------------------------------------
(* run: from the listener to the exit.                                      *)

TriggerShutdown(d) == shutdown' = shutdown \union {d}

(* bailBoot: TriggerShutdown first, the listener after it.                  *)
Bail(d, why) ==
    /\ pc' = [pc EXCEPT ![d] = "draining"]
    /\ ret' = [ret EXCEPT ![d] = why]
    /\ TriggerShutdown(d)
    /\ UNCHANGED <<files, listeners, watch, cancelled, evicted, pending,
                   code, events>>

(* Download, hash or start failed of its own.                               *)
BootFails(d) ==
    /\ pc[d] = "boot"
    /\ Bail(d, "boot")
    /\ UNCHANGED published

(* The cancelled context ended the installation or the start.               *)
BootCut(d) ==
    /\ pc[d] = "boot" /\ d \in cancelled
    /\ Bail(d, "cut")
    /\ UNCHANGED published

(* The backend is up: SetBackend, and signal.Notify: from here on a signal  *)
(* is a message.                                                            *)
BootSucceeds(d) ==
    /\ Goto(d, "boot", "select")
    /\ published' = published \union {d}
    /\ UNCHANGED <<files, listeners, watch, flags, pending, outcome, events>>

(* SetBackend, but RUNED_IDLE_TIMEOUT does not parse.                       *)
BadIdleTimeout(d) ==
    /\ pc[d] = "boot"
    /\ published' = published \union {d}
    /\ Bail(d, "boot")

(* Mutated: the select does not listen to ShutdownCh.                       *)
SelectSignalsOnly(d) ==
    /\ Goto(d, "select", "draining")
    /\ \/ d \in signalled /\ UNCHANGED ret
       \/ d \in faulted /\ ret' = [ret EXCEPT ![d] = "serve"]
    /\ TriggerShutdown(d)
    /\ UNCHANGED <<files, listeners, watch, cancelled, evicted, pending,
                   published, code, events>>

(* The select: a signal, the Shutdown channel or a serve fault; when        *)
(* several are ready, any of them.                                          *)
Select(d) ==
    /\ Goto(d, "select", "draining")
    /\ \/ d \in signalled \union shutdown /\ UNCHANGED ret
       \/ d \in faulted /\ ret' = [ret EXCEPT ![d] = "serve"]
    /\ TriggerShutdown(d)
    /\ UNCHANGED <<files, listeners, watch, cancelled, evicted, pending,
                   published, code, events>>

(* GracefulStop closes the listener that Serve has registered, and waits    *)
(* for Serve and for every handler; Stop, which follows after ten seconds,  *)
(* closes the connections and waits as well.  A listener that Serve has not *)
(* registered, nobody waits for.                                            *)
Drained(d) ==
    /\ pc[d] = "draining"
    /\ d \in served => lis[d] = "closed"
    /\ d \notin waiting

(* Mutated: the boot-failure paths do not look at evicted.                  *)
ExitUnforgiven(d) ==
    /\ Drained(d)
    /\ Over(d, IF ret[d] = "nil" THEN "zero" ELSE "one")
    /\ UNCHANGED <<files, racing, ret, events>>

(* The drain is over, the backend is stopped, run returns.                  *)
Exit(d) ==
    /\ Drained(d)
    /\ Over(d, IF \/ ret[d] = "nil"
                  \/ ret[d] \in {"boot", "cut"} /\ d \in evicted
               THEN "zero" ELSE "one")
    /\ UNCHANGED <<files, racing, ret, events>>

-----------------------------------------------------------------------------
(* The goroutine of gs.Serve, and the listener.                             *)

(* Serve has made the listener known to GracefulStop, and accepts.          *)
Serve(d) ==
    /\ lis[d] = "open" /\ d \notin served
    /\ served' = served \union {d}
    /\ UNCHANGED <<files, listeners, pc, watch, flags, signalled, faulted,
                   waiting, published, outcome, events>>

Served(d) == lis[d] = "open" /\ d \in served

(* GracefulStop closes what Serve has registered; Serve itself closes it    *)
(* after a fault, or when it comes after GracefulStop.                      *)
CloseBegins(d) ==
    /\ lis[d] = "open"
    /\ pc[d] = "draining" \/ d \in faulted
    /\ lis' = [lis EXCEPT ![d] = "checking"]
    /\ sock' = [sock EXCEPT ![d] = None]
    /\ UNCHANGED <<files, ident, racing, pc, watch, flags, pending,
                   published, outcome, events>>

CloseChecks(d) ==
    /\ lis[d] = "checking"
    /\ lis' = [lis EXCEPT ![d] =
           IF StillOwned(d) THEN "unlinking" ELSE "closed"]
    /\ UNCHANGED <<files, sock, ident, racing, pc, watch, flags, pending,
                   published, outcome, events>>

(* Mutated: the file is left behind.                                        *)
CloseLeaves(d) ==
    /\ lis[d] = "unlinking"
    /\ lis' = [lis EXCEPT ![d] = "closed"]
    /\ UNCHANGED <<files, sock, ident, racing, pc, watch, flags, pending,
                   published, outcome, events>>

CloseUnlinks(d) ==
    /\ lis[d] = "unlinking"
    /\ lis' = [lis EXCEPT ![d] = "closed"]
    /\ Unlink(d)
    /\ UNCHANGED <<sock, ident, racing, pc, watch, flags, pending, published,
                   outcome, events>>

-----------------------------------------------------------------------------
(* watchSocketOwnership.                                                    *)

WatchMoves(d, from, to) ==
    /\ watch[d] = from
    /\ watch' = [watch EXCEPT ![d] = to]

(* Either branch of the select; a tick on an owned socket changes nothing.  *)
WatchTick(d) ==
    /\ \/ WatchMoves(d, "on", "done") /\ d \in shutdown
       \/ WatchMoves(d, "on", "doubt") /\ ~StillOwned(d)
    /\ UNCHANGED <<files, listeners, pc, flags, pending, published, outcome,
                   events>>

(* Mutated: ShutdownCh is not looked at again.                              *)
WatchDoubtUnchecked(d) ==
    /\ WatchMoves(d, "doubt", "mark")
    /\ UNCHANGED <<files, listeners, pc, flags, pending, published, outcome,
                   events>>

WatchDoubt(d) ==
    /\ WatchMoves(d, "doubt", IF d \in shutdown THEN "done" ELSE "mark")
    /\ UNCHANGED <<files, listeners, pc, flags, pending, published, outcome,
                   events>>

WatchMark(d) ==
    /\ WatchMoves(d, "mark", "cancel")
    /\ evicted' = evicted \union {d}
    /\ UNCHANGED <<files, listeners, pc, shutdown, cancelled, pending,
                   published, outcome, events>>

(* Mutated: the watchdog cancels the context, without TriggerShutdown.      *)
WatchCancelsOnly(d) ==
    /\ WatchMoves(d, "cancel", "done")
    /\ cancelled' = cancelled \union {d}
    /\ UNCHANGED <<files, listeners, pc, shutdown, evicted, pending,
                   published, outcome, events>>

WatchCancel(d) ==
    /\ WatchMoves(d, "cancel", "done")
    /\ TriggerShutdown(d)
    /\ cancelled' = cancelled \union {d}
    /\ UNCHANGED <<files, listeners, pc, evicted, pending, published,
                   outcome, events>>

-----------------------------------------------------------------------------
(* The surroundings.                                                        *)

Event == events < MaxEvents /\ events' = events + 1

(* A client or a supervisor starts a process.                               *)
Launch(d) ==
    /\ Goto(d, "off", "probe")
    /\ UNCHANGED <<files, listeners, watch, flags, pending, published,
                   outcome, events>>

(* SIGKILL or a crash at any time; any other signal before signal.Notify.   *)
Kill(d) ==
    /\ pc[d] \notin {"off", "gone"}
    /\ Event
    /\ Over(d, "killed")
    /\ UNCHANGED <<files, racing, ret>>

(* A signal to a daemon that listens for it; a later one stays unread.      *)
Signal(d) ==
    /\ pc[d] = "select"
    /\ Event
    /\ signalled' = signalled \union {d}
    /\ UNCHANGED <<files, listeners, pc, watch, flags, faulted, served,
                   waiting, published, outcome>>

(* The Shutdown RPC: it only closes the channel, during a boot as well.     *)
Shutdown(d) ==
    /\ Served(d)
    /\ Event
    /\ TriggerShutdown(d)
    /\ UNCHANGED <<files, listeners, pc, watch, cancelled, evicted, pending,
                   published, outcome>>

ServeFault(d) ==
    /\ Served(d)
    /\ Event
    /\ faulted' = faulted \union {d}
    /\ UNCHANGED <<files, listeners, pc, watch, flags, signalled, served,
                   waiting, published, outcome>>

(* An Embed handler finds no child and starts llama-server: startLocked     *)
(* waits for the port without a timeout.                                    *)
Request(d) ==
    /\ d \in published /\ d \in served
    /\ lis[d] = "open" \/ pc[d] = "select"
    /\ d \notin waiting /\ d \notin cancelled
    /\ waiting' = waiting \union {d}
    /\ UNCHANGED <<files, listeners, pc, watch, flags, signalled, faulted,
                   served, published, outcome, events>>

(* The child prints its port or exits, by itself, or killed with the        *)
(* daemon's context.                                                        *)
Answer(d) ==
    /\ d \in waiting
    /\ waiting' = waiting \ {d}
    /\ UNCHANGED <<files, listeners, pc, watch, flags, signalled, faulted,
                   served, published, outcome, events>>

(* $RUNED_HOME is removed and recreated, with the socket and spawn.lock.    *)
Wipe ==
    /\ Event
    /\ Unlink(Outside)
    /\ UNCHANGED <<listeners, pc, watch, flags, pending, published, outcome>>

-----------------------------------------------------------------------------
Start(d) ==
    \/ Probe(d) \/ Clean(d) \/ CleanUnlink(d)
    \/ ListenStat(d) \/ ListenDial(d) \/ ListenRemoveStale(d)
    \/ ListenBind(d) \/ ListenIdentify(d) \/ ListenUndo(d)

Main(d) ==
    \/ Start(d)
    \/ BootCut(d) \/ Select(d) \/ Exit(d)

Close(d) == CloseBegins(d) \/ CloseChecks(d) \/ CloseUnlinks(d)

Watchdog(d) ==
    \/ WatchTick(d) \/ WatchDoubt(d) \/ WatchMark(d) \/ WatchCancel(d)

Chance(d) ==
    \/ BootFails(d) \/ BootSucceeds(d) \/ BadIdleTimeout(d)
    \/ Launch(d) \/ Kill(d) \/ Signal(d) \/ Shutdown(d)
    \/ ServeFault(d) \/ Request(d) \/ Answer(d)

Next ==
    \/ \E d \in Daemons :
          Main(d) \/ Serve(d) \/ Close(d) \/ Watchdog(d) \/ Chance(d)
    \/ Wipe

Spec == Init /\ [][Next]_vars

(* What a daemon's own machines owe: every goroutine runs on, every timeout *)
(* expires, and a cancelled context kills the child that a handler waits    *)
(* for.  A child that nobody kills owes no answer, a boot that is not       *)
(* cancelled no end, and the surroundings nothing.                          *)
Due(d) ==
    \/ Main(d) \/ Serve(d) \/ Close(d) \/ Watchdog(d)
    \/ d \in cancelled /\ Answer(d)

(* None of these machines goes round in a circle, so that weak fairness to  *)
(* all of them together is weak fairness to each.                           *)
FairSpec == Spec /\ WF_vars(\E d \in Daemons : Due(d))
-----------------------------------------------------------------------------
(* The daemons as their clients see them.                                   *)

Life ==
    [d \in Daemons |->
        CASE pc[d] = "off" -> "off"
          [] \/ pc[d] \in {"unbind", "gone"}
             \/ lis[d] \in {"checking", "unlinking", "closed"} -> "gone"
          [] sock[d] # None /\ lis[d] \in {"none", "open"}
                /\ pc[d] \notin {"off", "unbind", "gone"} ->
                IF d \in published THEN "ready" ELSE "loading"
          [] OTHER -> "starting"]

Front ==
    IF Dials(path) THEN CHOOSE d \in Daemons : sock[d] = path
    ELSE IF path = File THEN File ELSE None

Path == INSTANCE Endpoint WITH front <- Front, life <- Life

-----------------------------------------------------------------------------
(* Properties.                                                              *)

(* All that clients see of daemons that start, steal, close and die at one  *)
(* path is Endpoint: the path goes from a daemon to nobody and from nobody  *)
(* to a daemon that just bound it (Listen, Close, run).                     *)
ImplementsEndpoint == Path!EndpointSpec

(* A daemon evicts itself only if someone else removed its socket file, or  *)
(* its listener failed: its own shutdown, which unlinks the file too, is    *)
(* never taken for an eviction (watchSocketOwnership).                      *)
NoFalseEviction ==
    \A d \in evicted :
        d \in faulted \/ \E e \in Daemons \union {Outside} : <<e, d>> \in thefts

(* What the watchdog's cancel would end, and nothing else does in time: a   *)
(* boot, or a handler that waits for a silent llama-server.                 *)
Held(d) == d \notin cancelled /\ (pc[d] = "boot" \/ d \in waiting)

(* No orphan lingers: in the end no daemon is alive that does not find at   *)
(* the path the file it remembers (watchSocketOwnership), unless its own    *)
(* shutdown ended its watchdog, and a boot or a handler holds the shutdown  *)
(* up.  A daemon has one life, so that all of them have come to rest in the *)
(* end.                                                                     *)
OrphanExits ==
    <>[] \A d \in Daemons :
            \/ ident[d] \in {None, path}
            \/ d \in shutdown /\ Held(d)

(* A boot that the eviction cut short is not reported as a crash: run       *)
(* returns nil, the supervisor stays down (the evicted flag of run).        *)
CutBootExitsClean ==
    \A d \in Daemons : ret[d] = "cut" => code[d] # "one"

(* A live daemon's socket file is removed by another one only if that one   *)
(* had decided about the path before the file was bound: between its dial   *)
(* and its os.Remove, or within its Close, or if it had read the identity   *)
(* of another's file for its own, whose number the file was given again     *)
(* (Listen, ownedListener.Close).                                           *)
TheftOnlyInWindow ==
    \A t \in thefts : t[1] = Outside \/ t[1] \in racing[t[2]]

(* A daemon that ends in order leaves no socket file of its own behind,     *)
(* whichever of GracefulStop and Serve closed the listener, and whatever    *)
(* happened to the path meanwhile.  One that was killed may, and one that   *)
(* ended before its Serve had registered the listener, which GracefulStop   *)
(* then does not close: a boot that fails at once (ownedListener.Close, the *)
(* error paths of Listen, stopGRPC).                                        *)
NoFileOutlivesItsMaker ==
    path \in Inodes /\ maker \in served => code[maker] \in {"none", "killed"}

(* A shutdown that was asked for ends the process, whatever fails and races *)
(* on the way: the close, the watchdog, a serve fault (run, bailBoot).      *)
(* Only two things hold it up for good, and neither when the watchdog has   *)
(* cancelled the context: a boot, which does not look at the channel, and a *)
(* handler that waits for a silent llama-server, since stopGRPC waits for   *)
(* every handler even after its ten seconds.                                *)
ShutdownTakesEffect == <>[] \A d \in shutdown : Held(d)
=============================================================================
