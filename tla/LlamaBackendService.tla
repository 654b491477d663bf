------------------------- MODULE LlamaBackendService ------------------------
(***************************************************************************)
(* LlamaBackend implements EmbeddingService, for any number of handlers    *)
(* and children: each step is a step of the service, or one it cannot see. *)
(***************************************************************************)
EXTENDS LlamaBackendSafety

(* What the service sees of a process: its stage, or whether it is busy.    *)
SameStage(l, m) ==
    \/ {l, m} \subseteq {"boot"} \union StartAt
    \/ {l, m} \subseteq {"drain", "stopped"} \union StopAt

(* The values of busy, alive, unrecorded and condemned under the mapping.   *)
Busy == {r \in Rpcs : pc[r] # "idle"}
LiveChildren == {c \in Children : Live(c)}
Unrecorded == {c \in Children : Publishing(c)}
Condemned == {c \in Children : Live(c) /\ signalled[c] = "drained"}

-----------------------------------------------------------------------------
(* Steps that the service does not see.                                     *)

(* A process goes on: the main goroutine within its stage, a handler of     *)
(* Embed without returning, the ticker and the handlers of Health anywhere. *)
LEMMA GoesOn ==
  ASSUME TypeOK, NEW p \in Procs, NEW l, Goto(p, l),
         p = Main => SameStage(pc[p], l),
         p \in Rpcs => pc[p] # "idle" /\ l # "idle"
  PROVE  Stage' = Stage /\ Busy' = Busy
<1>1. \A q \in Rpcs : pc'[q] = "idle" <=> pc[q] = "idle"
  BY DEF TypeOK, ControlType, Goto, Procs
<1>2. Busy' = Busy
  BY <1>1 DEF Busy
<1>3. CASE p = Main
  <2>1. pc'[Main] = l /\ SameStage(pc[Main], l)
    BY <1>3 DEF TypeOK, ControlType, Goto
  <2> QED  BY <1>2, <2>1 DEF Stage, SameStage, StartAt, StopAt
<1>4. CASE p # Main
  <2>1. pc'[Main] = pc[Main]
    BY <1>4 DEF TypeOK, ControlType, Goto, Procs, Stoppers
  <2> QED  BY <1>2, <2>1 DEF Stage
<1> QED  BY <1>3, <1>4

(* If no call begins or ends and no child moves, that is all.               *)
LEMMA Unseen ==
  ASSUME TypeOK, NEW p \in Procs, NEW l, Goto(p, l),
         p = Main => SameStage(pc[p], l),
         p \in Rpcs => pc[p] # "idle" /\ l # "idle",
         UNCHANGED <<call, child, signalled, state>>,
         Unrecorded' = Unrecorded
  PROVE  UNCHANGED Service!vars
BY GoesOn DEF Busy, Live, Unrecorded, Service!vars, Service!kids

(* A child is unrecorded only while nobody else holds lifecycleMu, and      *)
(* while b.cmd names none.                                                  *)
LEMMA AllRecorded ==
  ASSUME IInv,
         \/ cmd # NoChild
         \/ lifecycleMu \in Procs /\ pc[lifecycleMu] # "start_publish"
  PROVE  Unrecorded = {}
<1> SUFFICES ASSUME NEW p \in Starters, pc[p] = "start_publish"
             PROVE  FALSE
  BY DEF Unrecorded, Publishing
<1>1. p \in Procs
  BY DEF Starters, Procs, Stoppers
<1>2. cmd = NoChild
  BY <1>1 DEF IInv, SlotInv
<1>3. lifecycleMu = p
  BY <1>1 DEF IInv, LockInv, LifecycleHeld, LifecycleAt, StartAt
<1> QED  BY <1>2, <1>3

(* Only cmd.Start and the publication that follows it move a child into     *)
(* that state and out of it.                                                *)
LEMMA StillRecorded ==
  ASSUME TypeOK, [Next]_vars,
         \A p \in Starters :
            ~StartPublish(p) /\ \A c \in Children : ~StartChild(p, c)
  PROVE  Unrecorded' = Unrecorded
<1> DEFINE Same ==
      \A q \in Starters :
         /\ pc'[q] = "start_publish" <=> pc[q] = "start_publish"
         /\ pc[q] = "start_publish" => target'[q] = target[q]
<1> USE ProcsAssumption
<1> USE DEF TypeOK, ControlType, At, Goto, Procs, Starters, Stoppers, backend,
            outside
<1>1. ASSUME NEW q \in Rpcs, Arrive(q) \/ RpcStep(q)
      PROVE  Same
  BY <1>1 DEF Arrive, RpcStep, EnsureRefused, Finish, EnsureLock, EnsureCmd,
     Step, EnsureProbe, EnsureRecent, RestartLock, RestartProbe,
     RestartAnnounce, Announce, RestartDrain, Drain, RestartLifecycle,
     RestartVerdict, RestartStop, StopLocked, Signal, RestartWait,
     EmbedNothing, EmbedRLock, EmbedCall, EmbedRetry, EmbedExhausted,
     EmbedSucceeds, EmbedFails
<1>2. ASSUME NEW p \in Starters, StartStep(p)
      PROVE  Same
  BY <1>2 DEF StartStep, StartFails, StartReturns, Finish, StartPort,
     StartHealthy, StartUnhealthy, StartAbort, Signal, StartAbortNothing,
     StartReap
<1>3. ASSUME NEW p \in Stoppers, StopStep(p)
      PROVE  Same
  BY <1>3 DEF StopStep, StopAnnounce, Announce, StopDrain, Drain,
     StopLifecycle, StopSignal, StopLocked, Signal, StopWait, StopReturn
<1>4. ASSUME MainStep
      PROVE  Same
  BY <1>4 DEF MainStep, Boot, ShutdownBegins, Step, Drained, Exit
<1>5. ASSUME NEW t \in Tickers, TickerStep(t)
      PROVE  Same
  BY <1>5 DEF TickerStep, TickerStarts, Tick, TickProbe
<1>6. ASSUME NEW m \in Monitors, MonitorStep(m)
      PROVE  Same
  BY <1>6 DEF MonitorStep, ServingRead, Report, ServingProbe, ServingRecent
<1>7. ASSUME \/ \E c \in Children : WatcherStep(c)
             \/ Environment
             \/ UNCHANGED vars
      PROVE  Same
  BY <1>7 DEF WatcherStep, WatchClear, WatchDone, Environment, ChildAnnounces,
     ChildMoves, ChildWedges, ChildRecovers, ChildExits, GraceExpires, Evict,
     vars
<1>8. Same
  BY <1>1, <1>2, <1>3, <1>4, <1>5, <1>6, <1>7 DEF Next, Halted
<1>9. \A c \in Children : Publishing(c)' <=> Publishing(c)
  BY <1>8 DEF Publishing
<1> QED  BY <1>9 DEF Unrecorded

-----------------------------------------------------------------------------
(* Steps that it sees.                                                      *)

(* A handler returns.                                                       *)
LEMMA RpcFinishes ==
  ASSUME TypeOK, NEW r \in Rpcs, pc[r] # "idle", Finish(r),
         UNCHANGED <<child, signalled, state>>, Unrecorded' = Unrecorded
  PROVE  Service!Return(r)
<1>1. pc'[Main] = pc[Main]
  BY ProcsAssumption DEF TypeOK, ControlType, Finish, Goto, Stoppers
<1>2. Busy' = Busy \ {r}
  BY DEF TypeOK, ControlType, Finish, Goto, Procs, Busy
<1> QED  BY <1>1, <1>2 DEF Finish, Busy, Live, Unrecorded, Stage,
         Service!Return, Service!kids

(* Stop or restartIfDead signals the child in the slot: it has drained the  *)
(* calls.                                                                   *)
LEMMA SignalCondemns ==
  ASSUME IInv, NEW p \in Rpcs \union Stoppers, NEW here, NEW wait, NEW next,
         here \in {"rst_stop", "stp_signal"},
         StopLocked(p, here, wait, next),
         here = "rst_stop" => p \in Rpcs /\ wait = "rst_wait" /\ next = "start",
         here = "stp_signal" => p \in Stoppers /\ wait = "stp_wait"
                                /\ next = "stp_return",
         Unrecorded' = Unrecorded
  PROVE  [Service!Next]_(Service!vars)
<1> USE ProcsAssumption, ChildrenAssumption
<1>1. \A r \in Rpcs : call[r] = NoChild
  <2>1. readers = {}
    BY DEF StopLocked, At, IInv, LockInv, WriterHeld, PastDrain, DrainedAt,
           Procs
  <2> QED  BY <2>1 DEF IInv, LockInv, CallsHold
<1>2. PICK l \in {wait, next} : Goto(p, l)
  BY DEF StopLocked, Signal
<1>3. Stage' = Stage /\ Busy' = Busy
  <2>1. p \in Procs /\ pc[p] = here
    BY DEF StopLocked, At, Procs
  <2>2. p = Main => SameStage(here, l)
    BY <1>2 DEF SameStage, StopAt, Stoppers
  <2>3. p \in Rpcs => here # "idle" /\ l # "idle"
    BY <1>2
  <2> QED  BY <1>2, <2>1, <2>2, <2>3, GoesOn DEF IInv
<1>4. UNCHANGED <<call, child, state>>
  BY DEF StopLocked, backend, fields, slot, request
<1>5. CASE Signal(p, "drained", wait) /\ Live(cmd)
  <2>1. PICK c \in Children : c = cmd
    BY <1>5 DEF Signal, IInv, TypeOK, SlotType
  <2>2. LiveChildren' = LiveChildren
    BY <1>4 DEF LiveChildren, Live
  <2>3. Condemned' = Condemned \union {c}
    BY <1>4, <1>5, <2>1 DEF Condemned, Live, Signal, IInv, TypeOK, KidsType
  <2>4. Unrecorded = {}
    BY <1>5, AllRecorded DEF Signal
  <2>5. Service!Condemn(c)
    BY <1>1, <1>3, <1>4, <1>5, <2>1, <2>2, <2>3, <2>4
    DEF Busy, LiveChildren, Condemned, Unrecorded, Service!Condemn,
        Service!Unused
  <2> QED  BY <2>5 DEF Service!Next
<1>6. CASE ~(Signal(p, "drained", wait) /\ Live(cmd))
  <2>1. LiveChildren' = LiveChildren
    BY <1>4 DEF LiveChildren, Live
  <2>2. \A c \in Children : Live(c) => signalled'[c] = signalled[c]
    BY <1>6 DEF StopLocked, Signal, IInv, TypeOK, KidsType
  <2>3. Condemned' = Condemned
    BY <1>4, <2>2 DEF Condemned, Live
  <2> QED  BY <1>3, <1>4, <2>1, <2>3
           DEF Busy, LiveChildren, Condemned, Unrecorded, Service!vars,
               Service!kids
<1> QED  BY <1>5, <1>6

(* A start is over: the boot opens the daemon or closes it, a handler goes  *)
(* on or returns.                                                           *)
LEMMA StartEnds ==
  ASSUME TypeOK, NEW p \in Starters, pc[p] \in StartAt,
         NEW ok \in BOOLEAN, StartReturns(p, ok),
         UNCHANGED <<child, signalled, state>>, Unrecorded' = Unrecorded
  PROVE  [Service!Next]_(Service!vars)
<1> USE ProcsAssumption
<1>1. CASE p = Main
  <2>1. pc'[Main] = IF ok THEN "serve" ELSE "stp_announce"
    BY <1>1 DEF StartReturns, TypeOK, ControlType, Goto, Procs, Stoppers
  <2>2. Stage = "booting" /\ Stage' = IF ok THEN "serving" ELSE "closed"
    BY <1>1, <2>1 DEF Stage, StartAt, StopAt
  <2>3. Busy' = Busy
    BY <1>1 DEF StartReturns, TypeOK, ControlType, Goto, Procs, Stoppers, Busy
  <2>4. Service!Open \/ Service!Close
    BY <1>1, <2>2, <2>3 DEF StartReturns, request, Busy, Live, Unrecorded,
       Service!Open, Service!Close, Service!Enter, Service!kids
  <2> QED  BY <2>4 DEF Service!Next
<1>2. CASE p \in Rpcs /\ ok
  <2>1. Goto(p, "emb_rlock") /\ call' = call /\ pc[p] # "idle"
    BY <1>2 DEF StartReturns, request, Stoppers, StartAt
  <2>2. p \in Procs /\ p # Main
    BY <1>2 DEF Procs, Stoppers
  <2> QED  BY <1>2, <2>1, <2>2, Unseen
<1>3. CASE p \in Rpcs /\ ~ok
  <2>1. Finish(p) /\ pc[p] # "idle"
    BY <1>3 DEF StartReturns, Stoppers, StartAt
  <2>2. Service!Return(p)
    BY <1>3, <2>1, RpcFinishes
  <2> QED  BY <1>3, <2>2 DEF Service!Next
<1> QED  BY <1>1, <1>2, <1>3 DEF Starters

(* A child is started.                                                      *)
LEMMA ChildSpawns ==
  ASSUME IInv, NEW p \in Starters, NEW c \in Children, StartChild(p, c)
  PROVE  Service!Spawn(c)
<1> USE ProcsAssumption, ChildrenAssumption
<1>1. pc[p] = "start" /\ p \in Procs /\ child[c] = "reaped"
  BY DEF StartChild, At, Starters, Procs, Stoppers, Fresh
<1>2. cmd = NoChild
  BY <1>1 DEF IInv, SlotInv
<1>3. \A d \in Children : ~Live(d)
  <2>1. Unrecorded = {}
    BY <1>1, AllRecorded DEF IInv, LockInv, LifecycleHeld, LifecycleAt, StartAt
  <2> QED  BY <1>2, <2>1 DEF IInv, SlotInv, LiveIsNamed, Unrecorded
<1>4. \A d \in Children : Live(d)' <=> d = c
  BY <1>3 DEF StartChild, Live, IInv, TypeOK, KidsType
<1>5. signalled[c] = "none" /\ signalled' = signalled
  BY <1>1 DEF StartChild, IInv, SignalInv
<1>6. \A r \in Rpcs : call[r] # c
  BY DEF StartChild, Fresh, Load
<1>7. Stage' = Stage /\ Busy' = Busy
  <2>1. /\ Goto(p, "start_publish")
        /\ p = Main => SameStage(pc[p], "start_publish")
    BY <1>1 DEF StartChild, SameStage, StartAt
  <2> QED  BY <1>1, <2>1, GoesOn DEF IInv
<1>8. Stage = "booting" \/ Busy # {}
  <2>1. CASE p = Main
    <3>1. pc[Main] \in StartAt
      BY <1>1, <2>1 DEF StartAt
    <3>2. Stage = "booting"
      BY <3>1 DEF Stage, StartAt, StopAt
    <3> QED  BY <3>2
  <2>2. CASE p \in Rpcs
    BY <1>1, <2>2 DEF Busy
  <2> QED  BY <2>1, <2>2 DEF Starters
<1>9. LiveChildren = {} /\ LiveChildren' = {c}
  BY <1>3, <1>4 DEF LiveChildren
<1>10. Condemned' = Condemned
  BY <1>3, <1>4, <1>5 DEF Condemned
<1>11. Unrecorded = {}
  BY <1>1, AllRecorded DEF IInv, LockInv, LifecycleHeld, LifecycleAt, StartAt
<1>12. Unrecorded' = {c}
  <2>1. pc' = [pc EXCEPT ![p] = "start_publish"] /\ target'[p] = c
    BY <1>1 DEF StartChild, Goto, IInv, TypeOK, ControlType
  <2>2. \A q \in Starters : pc[q] # "start_publish"
    <3>1. \A q \in Starters : pc[q] = "start_publish" => lifecycleMu = q
      BY DEF IInv, LockInv, LifecycleHeld, LifecycleAt, StartAt, Starters,
         Procs, Stoppers
    <3>2. lifecycleMu = p
      BY <1>1 DEF IInv, LockInv, LifecycleHeld, LifecycleAt, StartAt
    <3> QED  BY <1>1, <3>1, <3>2
  <2>3. \A q \in Starters : pc'[q] = "start_publish" <=> q = p
    BY <1>1, <2>1, <2>2 DEF IInv, TypeOK, ControlType, Starters, Procs, Stoppers
  <2>4. \A d \in Children : Publishing(d)' <=> d = c
    BY <2>1, <2>3 DEF Publishing
  <2> QED  BY <2>4 DEF Unrecorded
<1> QED  BY <1>6, <1>7, <1>8, <1>9, <1>10, <1>11, <1>12
         DEF StartChild, backend, fields, slot, request, Busy, LiveChildren,
             Condemned, Unrecorded, Service!Unused, Service!Spawn

(* And published: health says so.                                           *)
LEMMA PublishRecords ==
  ASSUME IInv, NEW p \in Starters, StartPublish(p)
  PROVE  Service!Record
<1> USE ProcsAssumption, ChildrenAssumption
<1>1. /\ pc[p] = "start_publish" /\ p \in Procs
      /\ pc' = [pc EXCEPT ![p] = "start_port"]
      /\ state' = "running"
      /\ UNCHANGED <<target, call, child, signalled>>
  BY DEF StartPublish, At, Goto, Starters, Procs, Stoppers, outside, kids,
     request
<1>2. target[p] \in Unrecorded
  BY <1>1 DEF IInv, SlotInv, Unrecorded, Publishing
<1>3. Unrecorded' = {}
  <2>1. \A q \in Starters : pc[q] = "start_publish" => q = p
    BY <1>1 DEF IInv, LockInv, LifecycleHeld, LifecycleAt, StartAt, Starters,
       Procs, Stoppers
  <2>2. \A q \in Starters : pc'[q] # "start_publish"
    BY <1>1, <2>1 DEF IInv, TypeOK, ControlType, Starters, Procs, Stoppers
  <2> QED  BY <2>2 DEF Unrecorded, Publishing
<1>4. Stage' = Stage /\ Busy' = Busy
  <2>1. p = Main => SameStage(pc[p], "start_port")
    BY <1>1 DEF SameStage, StartAt
  <2> QED  BY <1>1, <2>1, GoesOn DEF IInv, Goto
<1> QED  BY <1>1, <1>2, <1>3, <1>4
         DEF Busy, Live, Unrecorded, Service!Record

(* The child is told to stop while it starts: no drain, so not condemned.   *)
LEMMA AbortUnseen ==
  ASSUME IInv, NEW p \in Starters, StartAbort(p), Unrecorded' = Unrecorded
  PROVE  UNCHANGED Service!vars
<1> USE ProcsAssumption, ChildrenAssumption
<1>1. /\ p \in Procs /\ pc[p] = "start_abort" /\ cmd \in Children
      /\ Goto(p, "start_reap")
      /\ signalled' = [signalled EXCEPT ![cmd] = "undrained"]
      /\ UNCHANGED <<call, child, state>>
  BY DEF StartAbort, Signal, At, Starters, Procs, Stoppers, IInv, TypeOK,
     SlotType, backend, fields, slot, request
<1>2. signalled[cmd] # "drained"
  BY <1>1 DEF IInv, LockInv, LifecycleHeld, LifecycleAt, SignalInv, WaitAt,
     StartAt
<1>3. \A c \in Children : signalled'[c] = "drained" <=> signalled[c] = "drained"
  BY <1>1, <1>2 DEF IInv, TypeOK, KidsType
<1>4. Condemned' = Condemned
  BY <1>1, <1>3 DEF Condemned, Live
<1>5. Stage' = Stage /\ Busy' = Busy
  <2>1. p = Main => SameStage(pc[p], "start_reap")
    BY <1>1 DEF SameStage, StartAt
  <2> QED  BY <1>1, <2>1, GoesOn DEF IInv
<1> QED  BY <1>1, <1>4, <1>5
         DEF Busy, Condemned, Live, Unrecorded, Service!vars, Service!kids

(* Stop returns: the child, if there was one, is gone and the readers are   *)
(* still locked out.                                                        *)
LEMMA StopSuspends ==
  ASSUME IInv, NEW p \in Stoppers, StopReturn(p), Unrecorded' = Unrecorded
  PROVE  [Service!Next]_(Service!vars)
<1> USE ProcsAssumption, ChildrenAssumption
<1>1. p \in Procs \ Rpcs /\ pc[p] = "stp_return"
  BY DEF StopReturn, At, Procs
<1>2. Unrecorded = {} /\ LiveChildren = {}
  <2>1. Unrecorded = {}
    BY <1>1, AllRecorded DEF IInv, LockInv, LifecycleHeld, LifecycleAt
  <2> QED  BY <1>1, <2>1 DEF IInv, SlotInv, LiveIsNamed, LiveChildren,
             Unrecorded
<1>3. \A r \in Rpcs : call[r] = NoChild
  BY <1>1 DEF IInv, LockInv, WriterHeld, CallsHold, PastDrain, DrainedAt
<1>4. UNCHANGED <<call, child, signalled>>
  BY DEF StopReturn, outside, kids, request
<1>5. Stage' = Stage /\ Busy' = Busy
  <2>1. PICK l \in {"stopped", "tick"} :
              Goto(p, l) /\ (p = Main => l = "stopped")
    BY DEF StopReturn
  <2>2. p = Main => SameStage(pc[p], l)
    BY <1>1, <2>1 DEF SameStage, StopAt
  <2> QED  BY <1>1, <2>1, <2>2, GoesOn DEF IInv
<1>6. state' \in {"suspended", state}
  BY DEF StopReturn
<1>7. Service!Suspend \/ UNCHANGED Service!vars
  BY <1>2, <1>3, <1>4, <1>5, <1>6
  DEF Busy, LiveChildren, Live, Unrecorded, Service!Suspend, Service!vars,
      Service!kids
<1> QED  BY <1>7 DEF Service!Next

-----------------------------------------------------------------------------
(* Every step of the daemon.                                                *)

(* Embed, EmbedBatch and restartIfDead, between calls.                      *)
LEMMA RpcQuiet ==
  ASSUME NEW r \in Rpcs,
         \/ EnsureLock(r) \/ EnsureCmd(r) \/ EnsureProbe(r) \/ EnsureRecent(r)
         \/ RestartLock(r) \/ RestartProbe(r) \/ RestartAnnounce(r)
         \/ RestartDrain(r) \/ RestartLifecycle(r)
         \/ RestartVerdict(r) /\ UNCHANGED fields
         \/ RestartWait(r) \/ EmbedRLock(r) \/ EmbedRetry(r)
  PROVE  /\ pc[r] # "idle"
         /\ \E l \in Locations \ {"idle"} : Goto(r, l)
         /\ UNCHANGED <<call, child, signalled, state>>
<1> USE DEF At, Locations, RpcAt, StartAt, backend, fields, slot, outside, kids,
            request
<1>1. CASE EnsureLock(r)
  BY <1>1 DEF EnsureLock
<1>2. CASE EnsureCmd(r)
  BY <1>2 DEF EnsureCmd, Step
<1>3. CASE EnsureProbe(r)
  BY <1>3 DEF EnsureProbe
<1>4. CASE EnsureRecent(r)
  BY <1>4 DEF EnsureRecent
<1>5. CASE RestartLock(r)
  BY <1>5 DEF RestartLock
<1>6. CASE RestartProbe(r)
  BY <1>6 DEF RestartProbe
<1>7. CASE RestartAnnounce(r)
  BY <1>7 DEF RestartAnnounce, Announce
<1>8. CASE RestartDrain(r)
  BY <1>8 DEF RestartDrain, Drain
<1>9. CASE RestartLifecycle(r)
  BY <1>9 DEF RestartLifecycle
<1>10. CASE RestartVerdict(r)
  BY <1>10 DEF RestartVerdict
<1>11. CASE RestartWait(r)
  BY <1>11 DEF RestartWait
<1>12. CASE EmbedRLock(r)
  BY <1>12 DEF EmbedRLock
<1>13. CASE EmbedRetry(r)
  BY <1>13 DEF EmbedRetry
<1> QED  BY <1>1, <1>2, <1>3, <1>4, <1>5, <1>6, <1>7, <1>8, <1>9, <1>10, <1>11,
            <1>12, <1>13

(* Every return of a handler but those of startLocked.                      *)
LEMMA RpcReturns ==
  ASSUME NEW r \in Rpcs,
         \/ EnsureRefused(r) \/ EmbedNothing(r) \/ EmbedExhausted(r)
         \/ EmbedSucceeds(r) \/ EmbedFails(r)
  PROVE  pc[r] # "idle" /\ Finish(r) /\ UNCHANGED <<child, signalled, state>>
BY DEF EnsureRefused, EmbedNothing, EmbedExhausted, EmbedSucceeds, EmbedFails,
       At, backend, fields, slot, kids

(* Embed and EmbedBatch, with restartIfDead.                                *)
LEMMA RpcServes ==
  ASSUME IInv, NEW r \in Rpcs, Arrive(r) \/ RpcStep(r),
         Unrecorded' = Unrecorded
  PROVE  [Service!Next]_(Service!vars)
<1> USE ProcsAssumption, ChildrenAssumption
<1>1. r \in Procs /\ r # Main /\ TypeOK
  BY DEF Procs, Stoppers, IInv
<1>2. CASE Arrive(r)
  <2>1. pc[Main] = "serve" /\ pc'[Main] = "serve"
    BY <1>1, <1>2 DEF Arrive, At, Goto, TypeOK, ControlType
  <2>2. r \notin Busy /\ Busy' = Busy \union {r}
    BY <1>1, <1>2 DEF Arrive, At, Goto, TypeOK, ControlType, Busy
  <2>3. UNCHANGED <<call, child, signalled, state>>
    BY <1>2 DEF Arrive, backend, fields, slot, kids
  <2>4. Stage = "serving" /\ Stage' = "serving"
    BY <2>1 DEF Stage, StartAt, StopAt
  <2>5. Service!Accept(r)
    BY <2>2, <2>3, <2>4 DEF Busy, Live, Unrecorded, Service!Accept,
       Service!kids
  <2> QED  BY <2>5 DEF Service!Next
<1>3. ASSUME /\ pc[r] # "idle"
             /\ \E l \in Locations \ {"idle"} : Goto(r, l)
             /\ UNCHANGED <<call, child, signalled, state>>
      PROVE  UNCHANGED Service!vars
  BY <1>1, <1>3, Unseen
<1>4. ASSUME \/ EnsureRefused(r) \/ EmbedNothing(r) \/ EmbedExhausted(r)
             \/ EmbedSucceeds(r) \/ EmbedFails(r)
      PROVE  [Service!Next]_(Service!vars)
  <2>1. Service!Return(r)
    BY <1>1, <1>4, RpcReturns, RpcFinishes
  <2> QED  BY <2>1 DEF Service!Next
<1>5. CASE RestartStop(r)
  BY <1>5, SignalCondemns DEF RestartStop
<1>6. CASE EmbedCall(r)
  <2>1. /\ pc[r] = "emb_port" /\ r \in readers /\ Goto(r, "emb_call")
        /\ UNCHANGED <<child, signalled, state>>
    BY <1>6 DEF EmbedCall, At, backend, fields, slot, kids
  <2>2. PICK c \in Children : c = port
    BY <1>1, <1>6 DEF EmbedCall, TypeOK, SlotType
  <2>3. call[r] = NoChild /\ call' = [call EXCEPT ![r] = c]
    BY <1>6, <2>1, <2>2 DEF EmbedCall, IInv, LockInv, CallsHold
  <2>4. c \notin Condemned
    <3> SUFFICES ASSUME signalled[c] = "drained", Live(c)
                 PROVE  FALSE
      BY DEF Condemned
    <3>1. PICK p \in Procs : pc[p] \in WaitAt
      BY <2>2 DEF IInv, SignalInv
    <3>2. readers = {}
      BY <3>1 DEF IInv, LockInv, WriterHeld, PastDrain, DrainedAt, WaitAt
    <3> QED  BY <2>1, <3>2
  <2>5. Stage' = Stage /\ Busy' = Busy /\ r \in Busy
    BY <1>1, <2>1, GoesOn DEF Busy
  <2>6. Service!Send(r, c)
    BY <2>1, <2>3, <2>4, <2>5 DEF Busy, Condemned, Live, Unrecorded,
       Service!Send, Service!kids
  <2> QED  BY <2>6 DEF Service!Next
<1>7. CASE RestartVerdict(r)
  <2>1. UNCHANGED fields
    BY <1>7 DEF RestartVerdict
  <2> QED  BY <1>3, <1>7, <2>1, RpcQuiet
<1> QED
  BY <1>2, <1>3, <1>4, <1>5, <1>6, <1>7, RpcQuiet DEF RpcStep

(* startLocked.                                                             *)
LEMMA StartServes ==
  ASSUME IInv, NEW p \in Starters, StartStep(p)
  PROVE  [Service!Next]_(Service!vars)
<1> USE ProcsAssumption, ChildrenAssumption
<1>1. p \in Procs /\ TypeOK
  BY DEF Procs, Stoppers, Starters, IInv
<1>2. CASE \E c \in Children : StartChild(p, c)
  BY <1>2, ChildSpawns DEF Service!Next
<1>3. CASE StartPublish(p)
  BY <1>3, PublishRecords DEF Service!Next
<1>4. CASE \/ StartFails(p) \/ StartHealthy(p) \/ StartAbortNothing(p)
           \/ StartReap(p)
  <2>1. pc[p] \in StartAt /\ \E ok \in BOOLEAN : StartReturns(p, ok)
    BY <1>4 DEF StartFails, StartHealthy, StartAbortNothing, StartReap, At,
       StartAt
  <2>2. UNCHANGED <<child, signalled, state>>
    BY <1>4 DEF StartFails, StartHealthy, StartAbortNothing, StartReap, fields,
       slot, kids
  <2>3. pc[p] # "start_publish" /\ pc'[p] # "start_publish"
    BY <1>1, <1>4 DEF StartFails, StartHealthy, StartAbortNothing, StartReap,
       StartReturns, Finish, At, Goto, TypeOK, ControlType
  <2>4. /\ \A q \in Procs \ {p} : pc'[q] = pc[q] /\ target'[q] = target[q]
    BY <1>1, <1>4 DEF StartFails, StartHealthy, StartAbortNothing, StartReap,
       StartReturns, Finish, At, Goto, TypeOK, ControlType
  <2>5. Unrecorded' = Unrecorded
    BY <2>3, <2>4 DEF Unrecorded, Publishing, Starters, Procs, Stoppers
  <2> QED  BY <1>1, <2>1, <2>2, <2>5, StartEnds
<1>5. CASE StartPort(p) \/ StartUnhealthy(p) \/ StartAbort(p)
  <2>1. pc[p] \in StartAt \ {"start_publish"}
    BY <1>5 DEF StartPort, StartUnhealthy, StartAbort, At, StartAt
  <2>2. PICK l \in StartAt \ {"start_publish"} : Goto(p, l)
    BY <1>5 DEF StartPort, StartUnhealthy, StartAbort, Signal, StartAt
  <2>3. \A q \in Procs \ {p} : target'[q] = target[q]
    BY <1>1, <1>5 DEF StartPort, StartUnhealthy, StartAbort, Signal, TypeOK,
       ControlType
  <2>4. Unrecorded' = Unrecorded
    BY <1>1, <2>1, <2>2, <2>3 DEF Unrecorded, Publishing, Starters, Procs,
       Stoppers, Goto, TypeOK, ControlType
  <2>5. CASE StartPort(p) \/ StartUnhealthy(p)
    <3>1. UNCHANGED <<call, child, signalled, state>>
      BY <2>5 DEF StartPort, StartUnhealthy, backend, fields, slot, outside,
         kids, request
    <3>2. l # "idle" /\ pc[p] # "idle" /\ SameStage(pc[p], l)
      BY <2>1, <2>2 DEF SameStage, StartAt
    <3> QED  BY <1>1, <2>2, <2>4, <3>1, <3>2, Unseen
  <2>6. CASE StartAbort(p)
    BY <2>4, <2>6, AbortUnseen
  <2> QED  BY <1>5, <2>5, <2>6
<1> QED  BY <1>2, <1>3, <1>4, <1>5 DEF StartStep

(* Stop.                                                                    *)
LEMMA StopServes ==
  ASSUME IInv, NEW p \in Stoppers, StopStep(p), Unrecorded' = Unrecorded
  PROVE  [Service!Next]_(Service!vars)
<1> USE ProcsAssumption, ChildrenAssumption
<1>1. p \in Procs \ Rpcs /\ TypeOK
  BY DEF Procs, IInv
<1>2. CASE StopAnnounce(p) \/ StopDrain(p) \/ StopLifecycle(p) \/ StopWait(p)
  <2>1. pc[p] \in StopAt /\ \E l \in StopAt : Goto(p, l)
    BY <1>2 DEF StopAnnounce, Announce, StopDrain, Drain, StopLifecycle,
       StopWait, At, StopAt
  <2>2. UNCHANGED <<call, child, signalled, state>>
    BY <1>2 DEF StopAnnounce, Announce, StopDrain, Drain, StopLifecycle,
       StopWait, backend, fields, slot, outside, kids, request
  <2>3. \A l \in StopAt : SameStage(pc[p], l)
    BY <2>1 DEF SameStage
  <2> QED  BY <1>1, <2>1, <2>2, <2>3, Unseen
<1>3. CASE StopSignal(p)
  BY <1>3, SignalCondemns DEF StopSignal
<1>4. CASE StopReturn(p)
  BY <1>4, StopSuspends
<1> QED  BY <1>2, <1>3, <1>4 DEF StopStep

(* The main goroutine outside startLocked and Stop.                         *)
LEMMA MainServes ==
  ASSUME IInv, MainStep, Unrecorded' = Unrecorded
  PROVE  [Service!Next]_(Service!vars)
<1> USE ProcsAssumption, ChildrenAssumption
<1>1. Main \in Procs \ Rpcs /\ TypeOK
  BY DEF Procs, Stoppers, IInv
<1>2. UNCHANGED <<call, child, signalled, state>>
  BY DEF MainStep, Boot, ShutdownBegins, Drained, Exit, Step, backend, fields,
     slot, outside, kids, request
<1>3. CASE Boot
  <2>1. Goto(Main, "start") /\ SameStage(pc[Main], "start")
    BY <1>3 DEF Boot, At, SameStage, StartAt
  <2> QED  BY <1>1, <1>2, <2>1, Unseen
<1>4. CASE ShutdownBegins
  <2>1. pc[Main] = "serve" /\ pc'[Main] = "drain"
    BY <1>1, <1>4 DEF ShutdownBegins, Step, At, Goto, TypeOK, ControlType
  <2>2. Stage = "serving" /\ Stage' = "closed"
    BY <2>1 DEF Stage, StartAt, StopAt
  <2>3. Busy' = Busy
    BY <1>1, <1>4 DEF ShutdownBegins, Step, Goto, TypeOK, ControlType, Busy
  <2>4. Service!Close
    BY <1>2, <2>2, <2>3 DEF Busy, Live, Unrecorded, Service!Close,
       Service!Enter, Service!kids
  <2> QED  BY <2>4 DEF Service!Next
<1>5. CASE Drained
  <2>1. Goto(Main, "stp_announce") /\ SameStage(pc[Main], "stp_announce")
    BY <1>5 DEF Drained, At, SameStage, StopAt
  <2> QED  BY <1>1, <1>2, <2>1, Unseen
<1>6. CASE Exit
  <2>1. pc[Main] = "stopped" /\ pc'[Main] = "halted"
    BY <1>1, <1>6 DEF Exit, Step, At, Goto, TypeOK, ControlType
  <2>2. Stage = "closed" /\ Stage' = "halted"
    BY <2>1 DEF Stage, StartAt, StopAt
  <2>3. Busy = {} /\ LiveChildren = {}
    BY <2>1 DEF IInv, SlotInv, LiveIsNamed, Publishing, Starters, Busy,
       LiveChildren
  <2>4. Busy' = Busy
    BY <1>1, <1>6 DEF Exit, Step, Goto, TypeOK, ControlType, Busy
  <2>5. Service!Halt
    BY <1>2, <2>2, <2>3, <2>4
    DEF Busy, LiveChildren, Live, Unrecorded, Service!Halt, Service!Enter,
        Service!kids
  <2> QED  BY <2>5 DEF Service!Next
<1> QED  BY <1>3, <1>4, <1>5, <1>6 DEF MainStep

(* The idle ticker outside Stop, and Health.                                *)
LEMMA LookersUnseen ==
  ASSUME IInv,
         \/ \E t \in Tickers : TickerStep(t)
         \/ \E m \in Monitors : MonitorStep(m),
         Unrecorded' = Unrecorded
  PROVE  UNCHANGED Service!vars
<1> USE ProcsAssumption
<1>1. UNCHANGED <<call, child, signalled, state>>
  BY DEF TickerStep, TickerStarts, Tick, TickProbe, MonitorStep, ServingRead,
     ServingProbe, ServingRecent, backend, fields, slot, outside, kids, request
<1>2. PICK p \in Tickers \union Monitors : \E l \in Locations : Goto(p, l)
  BY DEF TickerStep, TickerStarts, Tick, TickProbe, MonitorStep, ServingRead,
     ServingProbe, ServingRecent, Report, Locations, TickerAt, MonitorAt,
     StopAt
<1>3. p \in Procs /\ p \notin Rpcs /\ p # Main
  BY <1>2 DEF Procs, Stoppers
<1> QED  BY <1>1, <1>2, <1>3, Unseen DEF IInv

(* The watcher of a child, and what happens outside the daemon.             *)
LEMMA WorldServes ==
  ASSUME IInv, (\E c \in Children : WatcherStep(c)) \/ Environment,
         Unrecorded' = Unrecorded
  PROVE  [Service!Next]_(Service!vars)
<1> USE ChildrenAssumption
<1>1. UNCHANGED <<pc, call>>
  BY DEF WatcherStep, WatchClear, WatchDone, Environment, ChildAnnounces,
     ChildWedges, ChildRecovers, ChildExits, ChildMoves, GraceExpires, Evict,
     outside, request
<1>2. Stage' = Stage /\ Busy' = Busy
  BY <1>1 DEF Stage, Busy
<1>3. ASSUME NEW c \in Children, WatchClear(c)
      PROVE  [Service!Next]_(Service!vars)
  <2>1. \A d \in Children : Live(d)' <=> Live(d)
    BY <1>3 DEF WatchClear, Live, IInv, TypeOK, KidsType
  <2>2. LiveChildren' = LiveChildren
    BY <2>1 DEF LiveChildren
  <2>3. signalled' = signalled
    BY <1>3 DEF WatchClear
  <2>4. Condemned' = Condemned
    BY <2>1, <2>3 DEF Condemned
  <2>5. CASE cmd = c
    <3>1. Unrecorded = {} /\ LiveChildren = {}
      <4>1. Unrecorded = {}
        BY <2>5, AllRecorded
      <4> QED  BY <1>3, <2>5, <4>1 DEF WatchClear, Live, LiveChildren,
                 Unrecorded, IInv, SlotInv, LiveIsNamed
    <3>2. state # "suspended" /\ state' = "failed"
      BY <1>3, <2>5 DEF WatchClear, IInv, SlotInv
    <3>3. Service!Fail
      BY <1>1, <1>2, <2>2, <2>4, <3>1, <3>2
      DEF Busy, LiveChildren, Condemned, Unrecorded, Service!Fail,
          Service!kids
    <3> QED  BY <3>3 DEF Service!Next
  <2>6. CASE cmd # c
    <3>1. state' = state
      BY <1>3, <2>6 DEF WatchClear, slot
    <3> QED  BY <1>1, <1>2, <2>2, <2>4, <3>1
             DEF Busy, LiveChildren, Condemned, Unrecorded, Service!vars,
               Service!kids
  <2> QED  BY <2>5, <2>6
<1>4. ASSUME NEW c \in Children, WatchDone(c)
      PROVE  [Service!Next]_(Service!vars)
  <2>1. \A d \in Children : Live(d)' <=> Live(d)
    BY <1>4 DEF WatchDone, Live, IInv, TypeOK, KidsType
  <2>2. \A d \in Children : Live(d) => signalled'[d] = signalled[d]
    BY <1>4 DEF WatchDone, Live, IInv, TypeOK, KidsType
  <2>3. LiveChildren' = LiveChildren /\ Condemned' = Condemned
    BY <2>1, <2>2 DEF LiveChildren, Condemned
  <2>4. state' = state
    BY <1>4 DEF WatchDone, backend, fields, slot
  <2> QED  BY <1>1, <1>2, <2>3, <2>4
           DEF Busy, LiveChildren, Condemned, Unrecorded, Service!vars,
               Service!kids
<1>5. ASSUME NEW c \in Children,
             ChildAnnounces(c) \/ ChildWedges(c) \/ ChildRecovers(c)
      PROVE  [Service!Next]_(Service!vars)
  <2>1. \A d \in Children : Live(d)' <=> Live(d)
    BY <1>5 DEF ChildAnnounces, ChildWedges, ChildRecovers, ChildMoves, Live,
       IInv, TypeOK, KidsType
  <2>2. UNCHANGED <<signalled, state>>
    BY <1>5 DEF ChildAnnounces, ChildWedges, ChildRecovers, ChildMoves,
       backend, fields, slot
  <2>3. LiveChildren' = LiveChildren /\ Condemned' = Condemned
    BY <2>1, <2>2 DEF LiveChildren, Condemned
  <2> QED  BY <1>1, <1>2, <2>2, <2>3
           DEF Busy, LiveChildren, Condemned, Unrecorded, Service!vars,
               Service!kids
<1>6. ASSUME NEW c \in Children, ChildExits(c)
      PROVE  [Service!Next]_(Service!vars)
  <2>1. /\ Live(c) /\ UNCHANGED <<signalled, state>>
        /\ \A d \in Children : Live(d)' <=> Live(d) /\ d # c
    BY <1>6 DEF ChildExits, ChildMoves, Live, IInv, TypeOK, KidsType, backend,
       fields, slot
  <2>2. /\ c \in LiveChildren /\ LiveChildren' = LiveChildren \ {c}
        /\ Condemned' = Condemned \ {c}
    BY <2>1 DEF LiveChildren, Condemned
  <2>3. Service!Die(c)
    BY <1>1, <1>2, <2>1, <2>2
    DEF Busy, LiveChildren, Condemned, Unrecorded, Service!Die
  <2> QED  BY <2>3 DEF Service!Next
<1>7. CASE GraceExpires \/ Evict
  <2>1. UNCHANGED <<child, signalled, state>>
    BY <1>7 DEF GraceExpires, Evict, backend, fields, slot, outside, kids
  <2> QED  BY <1>1, <1>2, <2>1 DEF Busy, Live, Unrecorded, Service!vars,
             Service!kids
<1> QED  BY <1>3, <1>4, <1>5, <1>6, <1>7 DEF WatcherStep, Environment

(* Every step, then.                                                        *)
LEMMA ServiceStep == IInv /\ [Next]_vars => [Service!Next]_(Service!vars)
<1> SUFFICES ASSUME IInv, [Next]_vars PROVE [Service!Next]_(Service!vars)
  OBVIOUS
<1>1. CASE UNCHANGED vars
  BY <1>1 DEF vars, backend, fields, slot, outside, kids, request, Stage, Live,
     Publishing, Service!vars, Service!kids
<1>2. CASE \E p \in Starters : StartStep(p)
  BY <1>2, StartServes
<1>3. CASE /\ Next /\ ~UNCHANGED vars
           /\ \A p \in Starters : ~StartStep(p)
  <2>1. Unrecorded' = Unrecorded
    BY <1>3, StillRecorded DEF IInv, StartStep
  <2> QED  BY <1>3, <2>1, RpcServes, StopServes, MainServes, LookersUnseen,
             WorldServes DEF Next, Halted
<1> QED  BY <1>1, <1>2, <1>3

-----------------------------------------------------------------------------
(* No process, step or child of the daemon does what the service may not.   *)
THEOREM BackendRefines == Spec => ImplementsService
<1>1. Init => Service!Init
  <2> SUFFICES ASSUME Init PROVE Service!Init
    OBVIOUS
  <2>1. pc[Main] = "boot" /\ \A r \in Rpcs : pc[r] = "idle"
    BY ProcsAssumption DEF Init, Procs, Stoppers
  <2>2. \A c \in Children : ~Live(c) /\ ~Publishing(c)
    BY DEF Init, Live, Publishing, Starters, Procs, Stoppers
  <2>3. Stage = "booting"
    BY <2>1 DEF Stage, StartAt, StopAt
  <2> QED  BY <2>1, <2>2, <2>3 DEF Init, Service!Init
<1> QED  BY <1>1, ServiceStep, Invariance, PTL DEF Spec, ImplementsService,
            Service!Spec

(* Two things the service never does.  The late watcher of a stopped child  *)
(* does not turn the suspension into a failure: Health keeps saying IDLE    *)
(* until a child is started again.                                          *)
THEOREM SuspensionIsStable ==
    Spec => [][state = "suspended" => state' # "failed"]_vars
<1>1. [Service!Next]_(Service!vars)
      => (state = "suspended" => state' # "failed")
  BY DEF Service!Next, Service!vars, Service!Open, Service!Close, Service!Halt,
     Service!Enter, Service!Accept, Service!Return, Service!Send, Service!Spawn,
     Service!Record, Service!Condemn, Service!Die, Service!Fail, Service!Suspend
<1> QED  BY <1>1, ServiceStep, Invariance, PTL DEF Spec

(* And no llama-server is started but for the boot or for a request that    *)
(* has not returned: after the last Stop nothing can bring one back.        *)
THEOREM ChildrenAreNeeded ==
    Spec => [][(\E c \in Children : ~Live(c) /\ Live(c)')
                 => Stage = "booting" \/ \E r \in Rpcs : pc[r] # "idle"]_vars
<1> DEFINE Needed ==
      (\E c \in Children : ~Live(c) /\ Live(c)')
         => Stage = "booting" \/ \E r \in Rpcs : pc[r] # "idle"
<1>1. ASSUME [Service!Next]_(Service!vars) PROVE Needed
  <2>1. CASE LiveChildren' \subseteq LiveChildren
    BY <2>1 DEF LiveChildren
  <2>2. CASE \E c \in Children : Service!Spawn(c)
    <3>1. Stage = "booting" \/ Busy # {}
      BY <2>2 DEF Service!Spawn, Busy
    <3> QED  BY <3>1 DEF Busy
  <2>3. \/ LiveChildren' \subseteq LiveChildren
        \/ \E c \in Children : Service!Spawn(c)
    BY <1>1 DEF Service!Next, Service!vars, Service!kids, Service!Open,
       Service!Close, Service!Halt, Service!Enter, Service!Accept, Service!Return,
       Service!Send, Service!Record, Service!Condemn, Service!Die, Service!Fail,
       Service!Suspend, LiveChildren
  <2> QED  BY <2>1, <2>2, <2>3
<1>2. IInv /\ [Next]_vars => Needed
  BY <1>1, ServiceStep
<1> QED  BY <1>2, Invariance, PTL DEF Spec
=============================================================================
