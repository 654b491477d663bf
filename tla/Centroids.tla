----------------------------- MODULE Centroids ------------------------------
(***************************************************************************)
(* The IVF centroid set of runed: SetCentroids streams (internal/server),  *)
(* the set and its disk cache (internal/route), the restore at boot        *)
(* (cmd/runed), and Embed requests with with_route.                        *)
(*                                                                         *)
(* A vector has one component, so an inner product is a product; a vector  *)
(* of another dimension is Short.  The content hash is the content.        *)
(***************************************************************************)
EXTENDS Integers, Sequences

CONSTANTS
    Pushers,    \* SetCentroids streams, one after another each
    Routers,    \* Embed requests with with_route, one after another each
    Vectors,    \* the well-formed vectors, of centroids and of texts
    Short,
    Headers,    \* the header frames a sender may send
    NoPreset, NoTag,    \* the empty strings
    MaxVecs,    \* vectors a stream sends at most
    NoSet, NoProc, Garbage

Presets == {h.preset : h \in Headers}
Tags == {h.version : h \in Headers}

CentroidSet ==
    [version : Tags, sized : BOOLEAN, preset : Presets,
     vecs : Seq(Vectors \union {Short})]

ASSUME CentroidsAssumption ==
    /\ Vectors \subseteq Int
    /\ Short \notin Vectors
    /\ Headers \subseteq [version : Tags, sized : BOOLEAN, preset : Presets]
    /\ MaxVecs \in Nat
    /\ NoProc \notin Pushers
    /\ NoSet \notin CentroidSet /\ Garbage \notin CentroidSet
    /\ NoSet # Garbage

VARIABLES
    up,             \* the daemon has booted
    memory,         \* Server.centroids
    disk,           \* the cache file, by its final name
    installMu,
    stage, cs,      \* per stream: where SetCentroids is, its set so far
    calling,        \* per request: it is in the handler
    held,           \* per request: the set it loaded
    answer,         \* per request: the last response
    saved,          \* history: the last Persist succeeded
    rotten          \* history: the medium has damaged the cache file

pushes == <<stage, cs>>
routes == <<calling, held, answer>>
history == <<saved, rotten>>
vars == <<up, memory, disk, installMu, pushes, routes, history>>

Installing == {"lock", "write", "rename", "unlock"}
Stages == {"idle", "recv"} \union Installing
NoAnswer ==
    [version |-> NoTag, preset |-> NoPreset, query |-> 0, cluster |-> 0]

-----------------------------------------------------------------------------
(* internal/route.                                                          *)

ComputeVersion(s) == <<s.preset, s.vecs>>

VerifyVersion(s) == s.preset = NoPreset \/ ComputeVersion(s) = s.version

Validate(s) ==
    /\ s.version # NoTag
    /\ s.vecs # <<>>
    /\ s.sized
    /\ \A i \in DOMAIN s.vecs : s.vecs[i] # Short

(* Mutated: the cache is not verified.                                      *)
LoadUnverified(d) ==
    IF d \in CentroidSet /\ Validate(d) THEN d ELSE NoSet

(* Load and LoadCentroids: the set a restart would serve.                   *)
Load(d) ==
    IF d \in CentroidSet /\ VerifyVersion(d) /\ Validate(d) THEN d ELSE NoSet

(* Mutated: ties go to the highest id.                                      *)
AssignLast(vecs, x) ==
    LET best[n \in 0 .. Len(vecs)] ==
            IF n = 0 THEN 1
            ELSE IF vecs[n] * x >= vecs[best[n - 1]] * x THEN n
            ELSE best[n - 1]
    IN  best[Len(vecs)] - 1

(* The loop of Assign: best[n] is the winner of the first n, counted from 1. *)
Assign(vecs, x) ==
    LET best[n \in 0 .. Len(vecs)] ==
            IF n = 0 THEN 1
            ELSE IF vecs[n] * x > vecs[best[n - 1]] * x THEN n
            ELSE best[n - 1]
    IN  best[Len(vecs)] - 1

-----------------------------------------------------------------------------
Init ==
    /\ up = FALSE
    /\ memory = NoSet
    /\ disk = NoSet
    /\ installMu = NoProc
    /\ stage = [p \in Pushers |-> "idle"]
    /\ cs = [p \in Pushers |-> NoSet]
    /\ calling = [q \in Routers |-> FALSE]
    /\ held = [q \in Routers |-> NoSet]
    /\ answer = [q \in Routers |-> NoAnswer]
    /\ saved = TRUE
    /\ rotten = FALSE

-----------------------------------------------------------------------------
(* SetCentroids.                                                            *)

(* The handler returns.                                                     *)
Return(p) ==
    /\ stage' = [stage EXCEPT ![p] = "idle"]
    /\ cs' = [cs EXCEPT ![p] = NoSet]

Move(p, from, to) ==
    /\ stage[p] = from
    /\ stage' = [stage EXCEPT ![p] = to]

OpenStream(p) ==
    /\ up
    /\ Move(p, "idle", "recv")
    /\ UNCHANGED <<up, memory, disk, installMu, cs, routes, history>>

(* The first header starts the set; a second one is an error.               *)
RecvHeader(p, h) ==
    /\ stage[p] = "recv"
    /\ IF cs[p] # NoSet THEN Return(p)
       ELSE /\ cs' = [cs EXCEPT ![p] =
                        [version |-> h.version, sized |-> h.sized,
                         preset |-> h.preset, vecs |-> <<>>]]
            /\ UNCHANGED stage
    /\ UNCHANGED <<up, memory, disk, installMu, routes, history>>

(* A vector of a batch is appended; before the header it is an error.       *)
RecvVector(p, v) ==
    /\ stage[p] = "recv"
    /\ IF cs[p] = NoSet THEN Return(p)
       ELSE /\ Len(cs[p].vecs) < MaxVecs
            /\ cs' = [cs EXCEPT ![p].vecs = Append(@, v)]
            /\ UNCHANGED stage
    /\ UNCHANGED <<up, memory, disk, installMu, routes, history>>

RecvError(p) ==
    /\ stage[p] = "recv"
    /\ Return(p)
    /\ UNCHANGED <<up, memory, disk, installMu, routes, history>>

(* Mutated: the version of a push is not verified.                          *)
RecvEndUnverified(p) ==
    /\ stage[p] = "recv"
    /\ IF cs[p] # NoSet /\ Validate(cs[p])
       THEN stage' = [stage EXCEPT ![p] = "lock"] /\ UNCHANGED cs
       ELSE Return(p)
    /\ UNCHANGED <<up, memory, disk, installMu, routes, history>>

(* io.EOF: the set is checked.                                              *)
RecvEnd(p) ==
    /\ stage[p] = "recv"
    /\ IF cs[p] # NoSet /\ Validate(cs[p]) /\ VerifyVersion(cs[p])
       THEN stage' = [stage EXCEPT ![p] = "lock"] /\ UNCHANGED cs
       ELSE Return(p)
    /\ UNCHANGED <<up, memory, disk, installMu, routes, history>>

(* Mutated: installMu is not waited for.                                    *)
InstallUnlocked(p) ==
    /\ installMu' = p
    /\ Move(p, "lock", "write")
    /\ memory' = cs[p]
    /\ saved' = FALSE
    /\ UNCHANGED <<up, disk, cs, routes, rotten>>

(* installMu.Lock and the store of the pointer.                             *)
Install(p) ==
    /\ installMu = NoProc
    /\ installMu' = p
    /\ Move(p, "lock", "write")
    /\ memory' = cs[p]
    /\ saved' = FALSE
    /\ UNCHANGED <<up, disk, cs, routes, rotten>>

(* Mutated: written under its final name, where a crash leaves half of it.  *)
PersistInPlace(p) ==
    /\ Move(p, "write", "rename")
    /\ disk' = Garbage
    /\ UNCHANGED <<up, memory, installMu, cs, routes, history>>

(* MkdirAll, CreateTemp, Encode and Close: nothing the boot looks at.       *)
PersistWrite(p) ==
    /\ Move(p, "write", "rename")
    /\ UNCHANGED <<up, memory, disk, installMu, cs, routes, history>>

PersistRename(p) ==
    /\ Move(p, "rename", "unlock")
    /\ disk' = cs[p]
    /\ saved' = TRUE
    /\ rotten' = FALSE
    /\ UNCHANGED <<up, memory, installMu, cs, routes>>

(* Mutated: a failure returns without unlocking.                            *)
PersistReturns(p) ==
    /\ stage[p] \in {"write", "rename"}
    /\ Return(p)
    /\ UNCHANGED <<up, memory, disk, installMu, routes, history>>

(* Any step of Persist fails; the caller only warns.                        *)
PersistFails(p) ==
    /\ stage[p] \in {"write", "rename"}
    /\ stage' = [stage EXCEPT ![p] = "unlock"]
    /\ UNCHANGED <<up, memory, disk, installMu, cs, routes, history>>

Unlock(p) ==
    /\ stage[p] = "unlock"
    /\ Return(p)
    /\ installMu' = NoProc
    /\ UNCHANGED <<up, memory, disk, routes, history>>

-----------------------------------------------------------------------------
(* Embed and EmbedBatch with with_route.                                    *)

(* Mutated: the set is not looked at before the forward pass.               *)
RouteStartUnchecked(q) ==
    /\ up
    /\ ~calling[q]
    /\ calling' = [calling EXCEPT ![q] = TRUE]
    /\ held' = [held EXCEPT ![q] = memory]
    /\ UNCHANGED <<up, memory, disk, installMu, pushes, answer, history>>

(* The set is loaded before the forward pass; without one the call fails.   *)
RouteStart(q) ==
    /\ up /\ memory # NoSet
    /\ ~calling[q]
    /\ calling' = [calling EXCEPT ![q] = TRUE]
    /\ held' = [held EXCEPT ![q] = memory]
    /\ UNCHANGED <<up, memory, disk, installMu, pushes, answer, history>>

RouteEnds(q) ==
    /\ calling[q]
    /\ calling' = [calling EXCEPT ![q] = FALSE]
    /\ held' = [held EXCEPT ![q] = NoSet]
    /\ UNCHANGED <<up, memory, disk, installMu, pushes, history>>

(* Mutated: the version is read after the forward pass.                     *)
RouteAnswerFresh(q, x) ==
    /\ RouteEnds(q)
    /\ answer' = [answer EXCEPT ![q] =
                    [version |-> memory.version, preset |-> memory.preset,
                     query |-> x, cluster |-> Assign(held[q].vecs, x)]]

(* The forward pass returned x.                                             *)
RouteAnswer(q, x) ==
    /\ RouteEnds(q)
    /\ answer' = [answer EXCEPT ![q] =
                    [version |-> held[q].version, preset |-> held[q].preset,
                     query |-> x, cluster |-> Assign(held[q].vecs, x)]]

RouteFails(q) == RouteEnds(q) /\ UNCHANGED answer

-----------------------------------------------------------------------------
(* The daemon and its disk.                                                 *)

(* The process ends, at any point.                                          *)
Crash ==
    /\ up
    /\ up' = FALSE
    /\ memory' = NoSet
    /\ installMu' = NoProc
    /\ stage' = [p \in Pushers |-> "idle"]
    /\ cs' = [p \in Pushers |-> NoSet]
    /\ calling' = [q \in Routers |-> FALSE]
    /\ held' = [q \in Routers |-> NoSet]
    /\ UNCHANGED <<disk, answer, history>>

(* run, before the socket is opened.                                        *)
Boot ==
    /\ ~up
    /\ up' = TRUE
    /\ memory' = Load(disk)
    /\ saved' = TRUE
    /\ UNCHANGED <<disk, installMu, pushes, routes, rotten>>

(* The cache is damaged: its framing is broken, or only its content.        *)
Rot ==
    /\ disk # NoSet /\ ~rotten
    /\ \/ disk' = Garbage
       \/ \E i \in DOMAIN disk.vecs, v \in Vectors :
             disk' = [disk EXCEPT !.vecs[i] = v]
    /\ rotten' = TRUE
    /\ UNCHANGED <<up, memory, installMu, pushes, routes, saved>>

PushStep(p) ==
    \/ Install(p)
    \/ PersistWrite(p)
    \/ PersistRename(p)
    \/ PersistFails(p)
    \/ Unlock(p)

Next ==
    \/ \E p \in Pushers :
          \/ OpenStream(p)
          \/ \E h \in Headers : RecvHeader(p, h)
          \/ \E v \in Vectors \union {Short} : RecvVector(p, v)
          \/ RecvError(p)
          \/ RecvEnd(p)
          \/ PushStep(p)
    \/ \E q \in Routers :
          \/ RouteStart(q)
          \/ \E x \in Vectors : RouteAnswer(q, x)
          \/ RouteFails(q)
    \/ Crash
    \/ Boot
    \/ Rot

Spec == Init /\ [][Next]_vars

(* A push that has its set goes on: the lock is handed over, and writing a  *)
(* small file ends, well or badly.                                          *)
FairSpec ==
    Spec /\ \A p \in Pushers : WF_vars(PushStep(p)) /\ SF_vars(Install(p))

-----------------------------------------------------------------------------
Sound == {s \in CentroidSet : Validate(s) /\ VerifyVersion(s)}
Legacy == {s \in Sound : s.preset = NoPreset}

(* Type invariant of the server, the cache file, the streams, the requests; *)
(* no nil set is dereferenced, by Assign or by an installing stream.        *)
TypeOK ==
    /\ up \in BOOLEAN
    /\ memory \in CentroidSet \union {NoSet}
    /\ disk \in CentroidSet \union {NoSet, Garbage}
    /\ installMu \in Pushers \union {NoProc}
    /\ stage \in [Pushers -> Stages]
    /\ cs \in [Pushers -> CentroidSet \union {NoSet}]
    /\ \A p \in Pushers : stage[p] \in Installing => cs[p] \in CentroidSet
    /\ calling \in [Routers -> BOOLEAN]
    /\ held \in [Routers -> CentroidSet \union {NoSet}]
    /\ \A q \in Routers : calling[q] => held[q] # NoSet
    /\ DOMAIN answer = Routers
    /\ saved \in BOOLEAN /\ rotten \in BOOLEAN

(* A set whose content is not what its version says is never served, not    *)
(* from a stream, not from a damaged cache (VerifyVersion, "the integrity   *)
(* gate at the set's two entry points").                                    *)
VerifiedSets == memory # NoSet => memory \in Sound

(* Pushes commit memory and cache as one unit: whatever number of streams   *)
(* raced, once nobody is installing, a restart would serve the set that is  *)
(* served now, unless its own Persist failed or the medium is damaged.      *)
RestartServesCurrent ==
    up /\ installMu = NoProc /\ saved /\ ~rotten => Load(disk) = memory

(* Persist leaves no half-cache, wherever it fails or the daemon crashes:   *)
(* the file, if there is one and the medium kept it, loads as it was saved. *)
CacheIsWhole == disk # NoSet /\ ~rotten => Load(disk) = disk

(* What Assign should return: the nearest centroid, the lowest id of many.  *)
IsNearest(c, vecs, x) ==
    /\ c + 1 \in DOMAIN vecs
    /\ \A i \in DOMAIN vecs :
          /\ vecs[i] * x <= vecs[c + 1] * x
          /\ i < c + 1 => vecs[i] * x < vecs[c + 1] * x

(* A routed answer is computed on the set whose version it carries, though  *)
(* sets are replaced during the forward pass: the engine, which has the     *)
(* content for the version, finds the same cluster.                         *)
AnswersOnOneSet ==
    \A q \in Routers :
        LET a == answer[q] IN
        a.preset # NoPreset => IsNearest(a.cluster, a.version[2], a.query)

(* The abstract index: memory is the current set, what a boot would load    *)
(* from the disk is the saved one.                                          *)
Index == INSTANCE RoutingIndex WITH current <- memory, saved <- Load(disk)

(* Streams, locks, files and crashes together do nothing the index may not: *)
(* a saved copy changes only to the set being served, or by visible damage. *)
ImplementsIndex == Index!Spec

(* A push whose stream was accepted returns, even if saving it fails and    *)
(* others push all the time.                                                *)
PushReturns == \A p \in Pushers : stage[p] = "lock" ~> stage[p] = "idle"
=============================================================================
