------------------------- MODULE LlamaBackendSafety -------------------------
(***************************************************************************)
(* The safety of LlamaBackend, for any number of handlers and children.    *)
(*                                                                         *)
(* The properties are not inductive: they rest on who holds which lock at  *)
(* which point (LockInv), on the one slot for a child that lifecycleMu     *)
(* guards (SlotInv), on who may have signalled which child (SignalInv) and *)
(* on when port and cmd agree (PortInv).  Each part is preserved given the *)
(* parts before it; one step per action.                                   *)
(***************************************************************************)
EXTENDS LlamaBackendTypes

-----------------------------------------------------------------------------
(* The three locks.                                                         *)

(* Between Lock and Unlock of lifecycleMu.                                  *)
LifecycleAt == {"ens_cmd", "ens_probe", "ens_recent",
                "rst_verdict", "rst_stop", "rst_wait",
                "stp_signal", "stp_wait", "stp_return"} \union StartAt

(* Between Lock and Unlock of restartMu, outside startLocked.               *)
RestartAt == {"rst_probe", "rst_announce", "rst_drain", "rst_lifecycle",
              "rst_verdict", "rst_stop", "rst_wait"}

(* Between the return of inflightMu.Lock and Unlock.                        *)
DrainedAt == {"rst_lifecycle", "rst_verdict", "rst_stop", "rst_wait",
              "stp_lifecycle", "stp_signal", "stp_wait", "stp_return"}

PastDrain(p) == pc[p] \in DrainedAt \/ (pc[p] \in StartAt /\ restartMu = p)

LifecycleHeld == \A p \in Procs : pc[p] \in LifecycleAt <=> lifecycleMu = p

RestartHeld ==
    \A p \in Procs :
        /\ pc[p] \in RestartAt => restartMu = p
        /\ restartMu = p => pc[p] \in RestartAt \union StartAt

WriterHeld ==
    \A p \in Procs :
        /\ pc[p] \in {"rst_drain", "stp_drain"} => writer = p
        /\ PastDrain(p) => writer = p /\ readers = {}
        /\ writer = p => pc[p] \in {"rst_drain", "stp_drain"} \/ PastDrain(p)

CallsHold ==
    \A r \in Rpcs :
        /\ call[r] # NoChild => pc[r] = "emb_call"
        /\ pc[r] = "emb_call" => r \in readers
        /\ r \in readers \union blocked => pc[r] \in {"emb_port", "emb_call"}
        /\ r \in blocked => writer # NoProc /\ r \notin readers

LockInv == LifecycleHeld /\ RestartHeld /\ WriterHeld /\ CallsHold

(* Every step keeps the locks with the processes that took them.            *)
LEMMA LockNext ==
  ASSUME TypeOK, LockInv, [Next]_vars
  PROVE  LockInv'
<1> USE ProcsAssumption, ChildrenAssumption
<1> USE DEF TypeOK, ControlType, LockType, SlotType, KidsType, RequestType,
            LockInv, LifecycleHeld, RestartHeld, WriterHeld, CallsHold,
            PastDrain, LifecycleAt, RestartAt, DrainedAt, StartAt, RpcAt,
            MainAt, StopAt, TickerAt, MonitorAt, Procs, Starters, Stoppers, At,
            Goto, locks, inflight, slot, fields, backend, kids, request, world,
            outside
<1>1. ASSUME NEW r \in Rpcs, Arrive(r)
      PROVE  LockInv'
  BY <1>1 DEF Arrive
<1>2. ASSUME NEW r \in Rpcs, EnsureRefused(r)
      PROVE  LockInv'
  BY <1>2 DEF EnsureRefused, Finish
<1>3. ASSUME NEW r \in Rpcs, EnsureLock(r)
      PROVE  LockInv'
  BY <1>3 DEF EnsureLock
<1>4. ASSUME NEW r \in Rpcs, EnsureCmd(r)
      PROVE  LockInv'
  BY <1>4 DEF EnsureCmd, Step
<1>5. ASSUME NEW r \in Rpcs, EnsureProbe(r)
      PROVE  LockInv'
  BY <1>5 DEF EnsureProbe
<1>6. ASSUME NEW r \in Rpcs, EnsureRecent(r)
      PROVE  LockInv'
  BY <1>6 DEF EnsureRecent
<1>7. ASSUME NEW r \in Rpcs, RestartLock(r)
      PROVE  LockInv'
  BY <1>7 DEF RestartLock
<1>8. ASSUME NEW r \in Rpcs, RestartProbe(r)
      PROVE  LockInv'
  BY <1>8 DEF RestartProbe
<1>9. ASSUME NEW r \in Rpcs, RestartAnnounce(r)
      PROVE  LockInv'
  BY <1>9 DEF RestartAnnounce, Announce
<1>10. ASSUME NEW r \in Rpcs, RestartDrain(r)
      PROVE  LockInv'
  BY <1>10 DEF RestartDrain, Drain
<1>11. ASSUME NEW r \in Rpcs, RestartLifecycle(r)
      PROVE  LockInv'
  BY <1>11 DEF RestartLifecycle
<1>12. ASSUME NEW r \in Rpcs, RestartVerdict(r)
      PROVE  LockInv'
  BY <1>12 DEF RestartVerdict, UnlockInflight
<1>13. ASSUME NEW r \in Rpcs, RestartStop(r)
      PROVE  LockInv'
  BY <1>13 DEF RestartStop, StopLocked, Signal
<1>14. ASSUME NEW r \in Rpcs, RestartWait(r)
      PROVE  LockInv'
  BY <1>14 DEF RestartWait
<1>15. ASSUME NEW r \in Rpcs, EmbedNothing(r)
      PROVE  LockInv'
  BY <1>15 DEF EmbedNothing, Finish
<1>16. ASSUME NEW r \in Rpcs, EmbedRLock(r)
      PROVE  LockInv'
  BY <1>16 DEF EmbedRLock
<1>17. ASSUME NEW r \in Rpcs, EmbedCall(r)
      PROVE  LockInv'
  BY <1>17 DEF EmbedCall
<1>18. ASSUME NEW r \in Rpcs, EmbedRetry(r)
      PROVE  LockInv'
  BY <1>18 DEF EmbedRetry, RUnlock
<1>19. ASSUME NEW r \in Rpcs, EmbedExhausted(r)
      PROVE  LockInv'
  BY <1>19 DEF EmbedExhausted, Finish, RUnlock
<1>20. ASSUME NEW r \in Rpcs, EmbedSucceeds(r)
      PROVE  LockInv'
  BY <1>20 DEF EmbedSucceeds, Finish, RUnlock
<1>21. ASSUME NEW r \in Rpcs, EmbedFails(r)
      PROVE  LockInv'
  BY <1>21 DEF EmbedFails, Finish, RUnlock
<1>22. ASSUME NEW p \in Starters, NEW c \in Children, StartChild(p, c)
      PROVE  LockInv'
  BY <1>22 DEF StartChild
<1>23. ASSUME NEW p \in Starters, StartPublish(p)
      PROVE  LockInv'
  BY <1>23 DEF StartPublish
<1>24. ASSUME NEW p \in Starters, StartFails(p)
      PROVE  LockInv'
  BY <1>24 DEF StartFails, StartReturns, UnlockInflight, Finish
<1>25. ASSUME NEW p \in Starters, StartPort(p)
      PROVE  LockInv'
  BY <1>25 DEF StartPort
<1>26. ASSUME NEW p \in Starters, StartHealthy(p)
      PROVE  LockInv'
  BY <1>26 DEF StartHealthy, StartReturns, UnlockInflight, Finish
<1>27. ASSUME NEW p \in Starters, StartUnhealthy(p)
      PROVE  LockInv'
  BY <1>27 DEF StartUnhealthy
<1>28. ASSUME NEW p \in Starters, StartAbort(p)
      PROVE  LockInv'
  BY <1>28 DEF StartAbort, Signal
<1>29. ASSUME NEW p \in Starters, StartAbortNothing(p)
      PROVE  LockInv'
  BY <1>29 DEF StartAbortNothing, StartReturns, UnlockInflight, Finish
<1>30. ASSUME NEW p \in Starters, StartReap(p)
      PROVE  LockInv'
  BY <1>30 DEF StartReap, StartReturns, UnlockInflight, Finish
<1>31. ASSUME NEW p \in Stoppers, StopAnnounce(p)
      PROVE  LockInv'
  BY <1>31 DEF StopAnnounce, Announce
<1>32. ASSUME NEW p \in Stoppers, StopDrain(p)
      PROVE  LockInv'
  BY <1>32 DEF StopDrain, Drain
<1>33. ASSUME NEW p \in Stoppers, StopLifecycle(p)
      PROVE  LockInv'
  BY <1>33 DEF StopLifecycle
<1>34. ASSUME NEW p \in Stoppers, StopSignal(p)
      PROVE  LockInv'
  BY <1>34 DEF StopSignal, StopLocked, Signal
<1>35. ASSUME NEW p \in Stoppers, StopWait(p)
      PROVE  LockInv'
  BY <1>35 DEF StopWait
<1>36. ASSUME NEW p \in Stoppers, StopReturn(p)
      PROVE  LockInv'
  BY <1>36 DEF StopReturn, UnlockInflight
<1>37. ASSUME Boot
      PROVE  LockInv'
  BY <1>37 DEF Boot
<1>38. ASSUME ShutdownBegins
      PROVE  LockInv'
  BY <1>38 DEF ShutdownBegins, Step
<1>39. ASSUME Drained
      PROVE  LockInv'
  BY <1>39 DEF Drained
<1>40. ASSUME Exit
      PROVE  LockInv'
  BY <1>40 DEF Exit, Step
<1>41. ASSUME NEW t \in Tickers, TickerStarts(t)
      PROVE  LockInv'
  BY <1>41 DEF TickerStarts
<1>42. ASSUME NEW t \in Tickers, Tick(t)
      PROVE  LockInv'
  BY <1>42 DEF Tick
<1>43. ASSUME NEW t \in Tickers, TickProbe(t)
      PROVE  LockInv'
  BY <1>43 DEF TickProbe
<1>44. ASSUME NEW m \in Monitors, ServingRead(m)
      PROVE  LockInv'
  BY <1>44 DEF ServingRead, Report
<1>45. ASSUME NEW m \in Monitors, ServingProbe(m)
      PROVE  LockInv'
  BY <1>45 DEF ServingProbe, Report
<1>46. ASSUME NEW m \in Monitors, ServingRecent(m)
      PROVE  LockInv'
  BY <1>46 DEF ServingRecent, Report
<1>47. ASSUME NEW c \in Children, WatchClear(c)
      PROVE  LockInv'
  BY <1>47 DEF WatchClear
<1>48. ASSUME NEW c \in Children, WatchDone(c)
      PROVE  LockInv'
  BY <1>48 DEF WatchDone
<1>49. ASSUME NEW c \in Children, ChildAnnounces(c)
      PROVE  LockInv'
  BY <1>49 DEF ChildAnnounces, ChildMoves
<1>50. ASSUME NEW c \in Children, ChildWedges(c)
      PROVE  LockInv'
  BY <1>50 DEF ChildWedges, ChildMoves
<1>51. ASSUME NEW c \in Children, ChildRecovers(c)
      PROVE  LockInv'
  BY <1>51 DEF ChildRecovers, ChildMoves
<1>52. ASSUME NEW c \in Children, ChildExits(c)
      PROVE  LockInv'
  BY <1>52 DEF ChildExits, ChildMoves
<1>53. ASSUME GraceExpires
      PROVE  LockInv'
  BY <1>53 DEF GraceExpires
<1>54. ASSUME Evict
      PROVE  LockInv'
  BY <1>54 DEF Evict
<1>55. ASSUME UNCHANGED vars
      PROVE  LockInv'
  BY <1>55 DEF vars
<1> QED
  BY <1>1, <1>2, <1>3, <1>4, <1>5, <1>6, <1>7, <1>8, <1>9, <1>10, <1>11,
     <1>12, <1>13, <1>14, <1>15, <1>16, <1>17, <1>18, <1>19, <1>20, <1>21,
     <1>22, <1>23, <1>24, <1>25, <1>26, <1>27, <1>28, <1>29, <1>30, <1>31,
     <1>32, <1>33, <1>34, <1>35, <1>36, <1>37, <1>38, <1>39, <1>40, <1>41,
     <1>42, <1>43, <1>44, <1>45, <1>46, <1>47, <1>48, <1>49, <1>50, <1>51,
     <1>52, <1>53, <1>54, <1>55
     DEF Next, RpcStep, StartStep, StopStep, MainStep, TickerStep, MonitorStep,
     WatcherStep, Environment, Halted

-----------------------------------------------------------------------------
(* The slot of the one child.                                               *)

WaitAt == {"rst_wait", "stp_wait"}

LiveIsNamed == \A c \in Children : Live(c) => cmd = c \/ Publishing(c)

SlotInv ==
    /\ LiveIsNamed
    /\ \A p \in Procs :
          pc[p] = "start_publish" =>
              /\ target[p] \in Children \ {port}
              /\ child[target[p]] \notin {"cleared", "reaped"}
    /\ \A c \in Children : child[c] \in {"cleared", "reaped"} => cmd # c
    /\ \A p \in Procs :
          pc[p] \in {"start", "start_publish", "stp_return"} => cmd = NoChild
    /\ \A p \in Procs :
          pc[p] \in WaitAt \union StartAt
              => cmd \in {NoChild, target[p]}
    /\ pc[Main] \in {"boot", "stopped", "halted"} \union StartAt \union StopAt
          => \A r \in Rpcs : pc[r] = "idle"
    /\ pc[Main] \in {"boot", "stopped", "halted"} => cmd = NoChild
    /\ state = "suspended" => cmd = NoChild

(* Every step keeps the slot for one child, guarded by lifecycleMu.         *)
LEMMA SlotNext ==
  ASSUME TypeOK, LockInv, SlotInv, [Next]_vars
  PROVE  SlotInv'
<1> USE ProcsAssumption, ChildrenAssumption
<1> USE DEF TypeOK, ControlType, LockType, SlotType, KidsType, RequestType,
            LockInv, LifecycleHeld, SlotInv, LiveIsNamed, Publishing, Live,
            Fresh, LifecycleAt, WaitAt, StartAt, StopAt, RpcAt, MainAt,
            TickerAt, MonitorAt, Procs, Starters, Stoppers, At, Goto, locks,
            inflight, slot, fields, backend, kids, request, world, outside
<1>1. ASSUME NEW r \in Rpcs, Arrive(r)
      PROVE  SlotInv'
  BY <1>1 DEF Arrive
<1>2. ASSUME NEW r \in Rpcs, EnsureRefused(r)
      PROVE  SlotInv'
  BY <1>2 DEF EnsureRefused, Finish
<1>3. ASSUME NEW r \in Rpcs, EnsureLock(r)
      PROVE  SlotInv'
  BY <1>3 DEF EnsureLock
<1>4. ASSUME NEW r \in Rpcs, EnsureCmd(r)
      PROVE  SlotInv'
  BY <1>4 DEF EnsureCmd, Step
<1>5. ASSUME NEW r \in Rpcs, EnsureProbe(r)
      PROVE  SlotInv'
  BY <1>5 DEF EnsureProbe
<1>6. ASSUME NEW r \in Rpcs, EnsureRecent(r)
      PROVE  SlotInv'
  BY <1>6 DEF EnsureRecent
<1>7. ASSUME NEW r \in Rpcs, RestartLock(r)
      PROVE  SlotInv'
  BY <1>7 DEF RestartLock
<1>8. ASSUME NEW r \in Rpcs, RestartProbe(r)
      PROVE  SlotInv'
  BY <1>8 DEF RestartProbe
<1>9. ASSUME NEW r \in Rpcs, RestartAnnounce(r)
      PROVE  SlotInv'
  BY <1>9 DEF RestartAnnounce, Announce
<1>10. ASSUME NEW r \in Rpcs, RestartDrain(r)
      PROVE  SlotInv'
  BY <1>10 DEF RestartDrain, Drain
<1>11. ASSUME NEW r \in Rpcs, RestartLifecycle(r)
      PROVE  SlotInv'
  BY <1>11 DEF RestartLifecycle
<1>12. ASSUME NEW r \in Rpcs, RestartVerdict(r)
      PROVE  SlotInv'
  BY <1>12 DEF RestartVerdict, UnlockInflight
<1>13. ASSUME NEW r \in Rpcs, RestartStop(r)
      PROVE  SlotInv'
  BY <1>13 DEF RestartStop, StopLocked, Signal
<1>14. ASSUME NEW r \in Rpcs, RestartWait(r)
      PROVE  SlotInv'
  BY <1>14 DEF RestartWait
<1>15. ASSUME NEW r \in Rpcs, EmbedNothing(r)
      PROVE  SlotInv'
  BY <1>15 DEF EmbedNothing, Finish
<1>16. ASSUME NEW r \in Rpcs, EmbedRLock(r)
      PROVE  SlotInv'
  BY <1>16 DEF EmbedRLock
<1>17. ASSUME NEW r \in Rpcs, EmbedCall(r)
      PROVE  SlotInv'
  BY <1>17 DEF EmbedCall
<1>18. ASSUME NEW r \in Rpcs, EmbedRetry(r)
      PROVE  SlotInv'
  BY <1>18 DEF EmbedRetry, RUnlock
<1>19. ASSUME NEW r \in Rpcs, EmbedExhausted(r)
      PROVE  SlotInv'
  BY <1>19 DEF EmbedExhausted, Finish, RUnlock
<1>20. ASSUME NEW r \in Rpcs, EmbedSucceeds(r)
      PROVE  SlotInv'
  BY <1>20 DEF EmbedSucceeds, Finish, RUnlock
<1>21. ASSUME NEW r \in Rpcs, EmbedFails(r)
      PROVE  SlotInv'
  BY <1>21 DEF EmbedFails, Finish, RUnlock
<1>22. ASSUME NEW p \in Starters, NEW c \in Children, StartChild(p, c)
      PROVE  SlotInv'
  BY <1>22 DEF StartChild
<1>23. ASSUME NEW p \in Starters, StartPublish(p)
      PROVE  SlotInv'
  BY <1>23 DEF StartPublish
<1>24. ASSUME NEW p \in Starters, StartFails(p)
      PROVE  SlotInv'
  BY <1>24 DEF StartFails, StartReturns, UnlockInflight, Finish
<1>25. ASSUME NEW p \in Starters, StartPort(p)
      PROVE  SlotInv'
  BY <1>25 DEF StartPort
<1>26. ASSUME NEW p \in Starters, StartHealthy(p)
      PROVE  SlotInv'
  BY <1>26 DEF StartHealthy, StartReturns, UnlockInflight, Finish
<1>27. ASSUME NEW p \in Starters, StartUnhealthy(p)
      PROVE  SlotInv'
  BY <1>27 DEF StartUnhealthy
<1>28. ASSUME NEW p \in Starters, StartAbort(p)
      PROVE  SlotInv'
  BY <1>28 DEF StartAbort, Signal
<1>29. ASSUME NEW p \in Starters, StartAbortNothing(p)
      PROVE  SlotInv'
  BY <1>29 DEF StartAbortNothing, StartReturns, UnlockInflight, Finish
<1>30. ASSUME NEW p \in Starters, StartReap(p)
      PROVE  SlotInv'
  BY <1>30 DEF StartReap, StartReturns, UnlockInflight, Finish
<1>31. ASSUME NEW p \in Stoppers, StopAnnounce(p)
      PROVE  SlotInv'
  BY <1>31 DEF StopAnnounce, Announce
<1>32. ASSUME NEW p \in Stoppers, StopDrain(p)
      PROVE  SlotInv'
  BY <1>32 DEF StopDrain, Drain
<1>33. ASSUME NEW p \in Stoppers, StopLifecycle(p)
      PROVE  SlotInv'
  BY <1>33 DEF StopLifecycle
<1>34. ASSUME NEW p \in Stoppers, StopSignal(p)
      PROVE  SlotInv'
  BY <1>34 DEF StopSignal, StopLocked, Signal
<1>35. ASSUME NEW p \in Stoppers, StopWait(p)
      PROVE  SlotInv'
  BY <1>35 DEF StopWait
<1>36. ASSUME NEW p \in Stoppers, StopReturn(p)
      PROVE  SlotInv'
  BY <1>36 DEF StopReturn, UnlockInflight
<1>37. ASSUME Boot
      PROVE  SlotInv'
  BY <1>37 DEF Boot
<1>38. ASSUME ShutdownBegins
      PROVE  SlotInv'
  BY <1>38 DEF ShutdownBegins, Step
<1>39. ASSUME Drained
      PROVE  SlotInv'
  BY <1>39 DEF Drained
<1>40. ASSUME Exit
      PROVE  SlotInv'
  BY <1>40 DEF Exit, Step
<1>41. ASSUME NEW t \in Tickers, TickerStarts(t)
      PROVE  SlotInv'
  BY <1>41 DEF TickerStarts
<1>42. ASSUME NEW t \in Tickers, Tick(t)
      PROVE  SlotInv'
  BY <1>42 DEF Tick
<1>43. ASSUME NEW t \in Tickers, TickProbe(t)
      PROVE  SlotInv'
  BY <1>43 DEF TickProbe
<1>44. ASSUME NEW m \in Monitors, ServingRead(m)
      PROVE  SlotInv'
  BY <1>44 DEF ServingRead, Report
<1>45. ASSUME NEW m \in Monitors, ServingProbe(m)
      PROVE  SlotInv'
  BY <1>45 DEF ServingProbe, Report
<1>46. ASSUME NEW m \in Monitors, ServingRecent(m)
      PROVE  SlotInv'
  BY <1>46 DEF ServingRecent, Report
<1>47. ASSUME NEW c \in Children, WatchClear(c)
      PROVE  SlotInv'
  BY <1>47 DEF WatchClear
<1>48. ASSUME NEW c \in Children, WatchDone(c)
      PROVE  SlotInv'
  BY <1>48 DEF WatchDone
<1>49. ASSUME NEW c \in Children, ChildAnnounces(c)
      PROVE  SlotInv'
  BY <1>49 DEF ChildAnnounces, ChildMoves
<1>50. ASSUME NEW c \in Children, ChildWedges(c)
      PROVE  SlotInv'
  BY <1>50 DEF ChildWedges, ChildMoves
<1>51. ASSUME NEW c \in Children, ChildRecovers(c)
      PROVE  SlotInv'
  BY <1>51 DEF ChildRecovers, ChildMoves
<1>52. ASSUME NEW c \in Children, ChildExits(c)
      PROVE  SlotInv'
  BY <1>52 DEF ChildExits, ChildMoves
<1>53. ASSUME GraceExpires
      PROVE  SlotInv'
  BY <1>53 DEF GraceExpires
<1>54. ASSUME Evict
      PROVE  SlotInv'
  BY <1>54 DEF Evict
<1>55. ASSUME UNCHANGED vars
      PROVE  SlotInv'
  BY <1>55 DEF vars
<1> QED
  BY <1>1, <1>2, <1>3, <1>4, <1>5, <1>6, <1>7, <1>8, <1>9, <1>10, <1>11,
     <1>12, <1>13, <1>14, <1>15, <1>16, <1>17, <1>18, <1>19, <1>20, <1>21,
     <1>22, <1>23, <1>24, <1>25, <1>26, <1>27, <1>28, <1>29, <1>30, <1>31,
     <1>32, <1>33, <1>34, <1>35, <1>36, <1>37, <1>38, <1>39, <1>40, <1>41,
     <1>42, <1>43, <1>44, <1>45, <1>46, <1>47, <1>48, <1>49, <1>50, <1>51,
     <1>52, <1>53, <1>54, <1>55
     DEF Next, RpcStep, StartStep, StopStep, MainStep, TickerStep, MonitorStep,
     WatcherStep, Environment, Halted

-----------------------------------------------------------------------------
(* Who has signalled which child.                                           *)

SignalInv ==
    \A c \in Children :
        /\ child[c] = "reaped" => signalled[c] = "none"
        /\ signalled[c] = "drained" =>
              /\ cmd = c => \E p \in Procs : pc[p] \in WaitAt /\ target[p] = c
              /\ port = c => cmd = c
              /\ \A p \in Procs :
                    pc[p] \in {"start_publish", "start_port"} => target[p] # c

(* A drained signal is outstanding only while its sender waits, or after   *)
(* the child has left the slot.                                             *)
LEMMA SignalNext ==
  ASSUME TypeOK, LockInv, SlotInv, SignalInv, [Next]_vars
  PROVE  SignalInv'
<1> USE ProcsAssumption, ChildrenAssumption
<1> USE DEF TypeOK, ControlType, LockType, SlotType, KidsType, RequestType,
            LockInv, LifecycleHeld, SlotInv, SignalInv, Fresh, LifecycleAt,
            WaitAt, StartAt, Procs, Starters, Stoppers, At, Goto, locks,
            inflight, slot, fields, backend, kids, request, world, outside
<1>1. ASSUME NEW r \in Rpcs, Arrive(r)
      PROVE  SignalInv'
  BY <1>1 DEF Arrive
<1>2. ASSUME NEW r \in Rpcs, EnsureRefused(r)
      PROVE  SignalInv'
  BY <1>2 DEF EnsureRefused, Finish
<1>3. ASSUME NEW r \in Rpcs, EnsureLock(r)
      PROVE  SignalInv'
  BY <1>3 DEF EnsureLock
<1>4. ASSUME NEW r \in Rpcs, EnsureCmd(r)
      PROVE  SignalInv'
  BY <1>4 DEF EnsureCmd, Step
<1>5. ASSUME NEW r \in Rpcs, EnsureProbe(r)
      PROVE  SignalInv'
  BY <1>5 DEF EnsureProbe
<1>6. ASSUME NEW r \in Rpcs, EnsureRecent(r)
      PROVE  SignalInv'
  BY <1>6 DEF EnsureRecent
<1>7. ASSUME NEW r \in Rpcs, RestartLock(r)
      PROVE  SignalInv'
  BY <1>7 DEF RestartLock
<1>8. ASSUME NEW r \in Rpcs, RestartProbe(r)
      PROVE  SignalInv'
  BY <1>8 DEF RestartProbe
<1>9. ASSUME NEW r \in Rpcs, RestartAnnounce(r)
      PROVE  SignalInv'
  BY <1>9 DEF RestartAnnounce, Announce
<1>10. ASSUME NEW r \in Rpcs, RestartDrain(r)
      PROVE  SignalInv'
  BY <1>10 DEF RestartDrain, Drain
<1>11. ASSUME NEW r \in Rpcs, RestartLifecycle(r)
      PROVE  SignalInv'
  BY <1>11 DEF RestartLifecycle
<1>12. ASSUME NEW r \in Rpcs, RestartVerdict(r)
      PROVE  SignalInv'
  BY <1>12 DEF RestartVerdict, UnlockInflight
<1>13. ASSUME NEW r \in Rpcs, RestartStop(r)
      PROVE  SignalInv'
  BY <1>13 DEF RestartStop, StopLocked, Signal
<1>14. ASSUME NEW r \in Rpcs, RestartWait(r)
      PROVE  SignalInv'
  BY <1>14 DEF RestartWait
<1>15. ASSUME NEW r \in Rpcs, EmbedNothing(r)
      PROVE  SignalInv'
  BY <1>15 DEF EmbedNothing, Finish
<1>16. ASSUME NEW r \in Rpcs, EmbedRLock(r)
      PROVE  SignalInv'
  BY <1>16 DEF EmbedRLock
<1>17. ASSUME NEW r \in Rpcs, EmbedCall(r)
      PROVE  SignalInv'
  BY <1>17 DEF EmbedCall
<1>18. ASSUME NEW r \in Rpcs, EmbedRetry(r)
      PROVE  SignalInv'
  BY <1>18 DEF EmbedRetry, RUnlock
<1>19. ASSUME NEW r \in Rpcs, EmbedExhausted(r)
      PROVE  SignalInv'
  BY <1>19 DEF EmbedExhausted, Finish, RUnlock
<1>20. ASSUME NEW r \in Rpcs, EmbedSucceeds(r)
      PROVE  SignalInv'
  BY <1>20 DEF EmbedSucceeds, Finish, RUnlock
<1>21. ASSUME NEW r \in Rpcs, EmbedFails(r)
      PROVE  SignalInv'
  BY <1>21 DEF EmbedFails, Finish, RUnlock
<1>22. ASSUME NEW p \in Starters, NEW c \in Children, StartChild(p, c)
      PROVE  SignalInv'
  BY <1>22 DEF StartChild
<1>23. ASSUME NEW p \in Starters, StartPublish(p)
      PROVE  SignalInv'
  BY <1>23 DEF StartPublish
<1>24. ASSUME NEW p \in Starters, StartFails(p)
      PROVE  SignalInv'
  BY <1>24 DEF StartFails, StartReturns, UnlockInflight, Finish
<1>25. ASSUME NEW p \in Starters, StartPort(p)
      PROVE  SignalInv'
  BY <1>25 DEF StartPort
<1>26. ASSUME NEW p \in Starters, StartHealthy(p)
      PROVE  SignalInv'
  BY <1>26 DEF StartHealthy, StartReturns, UnlockInflight, Finish
<1>27. ASSUME NEW p \in Starters, StartUnhealthy(p)
      PROVE  SignalInv'
  BY <1>27 DEF StartUnhealthy
<1>28. ASSUME NEW p \in Starters, StartAbort(p)
      PROVE  SignalInv'
  BY <1>28 DEF StartAbort, Signal
<1>29. ASSUME NEW p \in Starters, StartAbortNothing(p)
      PROVE  SignalInv'
  BY <1>29 DEF StartAbortNothing, StartReturns, UnlockInflight, Finish
<1>30. ASSUME NEW p \in Starters, StartReap(p)
      PROVE  SignalInv'
  BY <1>30 DEF StartReap, StartReturns, UnlockInflight, Finish
<1>31. ASSUME NEW p \in Stoppers, StopAnnounce(p)
      PROVE  SignalInv'
  BY <1>31 DEF StopAnnounce, Announce
<1>32. ASSUME NEW p \in Stoppers, StopDrain(p)
      PROVE  SignalInv'
  BY <1>32 DEF StopDrain, Drain
<1>33. ASSUME NEW p \in Stoppers, StopLifecycle(p)
      PROVE  SignalInv'
  BY <1>33 DEF StopLifecycle
<1>34. ASSUME NEW p \in Stoppers, StopSignal(p)
      PROVE  SignalInv'
  BY <1>34 DEF StopSignal, StopLocked, Signal
<1>35. ASSUME NEW p \in Stoppers, StopWait(p)
      PROVE  SignalInv'
  BY <1>35 DEF StopWait
<1>36. ASSUME NEW p \in Stoppers, StopReturn(p)
      PROVE  SignalInv'
  BY <1>36 DEF StopReturn, UnlockInflight
<1>37. ASSUME Boot
      PROVE  SignalInv'
  BY <1>37 DEF Boot
<1>38. ASSUME ShutdownBegins
      PROVE  SignalInv'
  BY <1>38 DEF ShutdownBegins, Step
<1>39. ASSUME Drained
      PROVE  SignalInv'
  BY <1>39 DEF Drained
<1>40. ASSUME Exit
      PROVE  SignalInv'
  BY <1>40 DEF Exit, Step
<1>41. ASSUME NEW t \in Tickers, TickerStarts(t)
      PROVE  SignalInv'
  BY <1>41 DEF TickerStarts
<1>42. ASSUME NEW t \in Tickers, Tick(t)
      PROVE  SignalInv'
  BY <1>42 DEF Tick
<1>43. ASSUME NEW t \in Tickers, TickProbe(t)
      PROVE  SignalInv'
  BY <1>43 DEF TickProbe
<1>44. ASSUME NEW m \in Monitors, ServingRead(m)
      PROVE  SignalInv'
  BY <1>44 DEF ServingRead, Report
<1>45. ASSUME NEW m \in Monitors, ServingProbe(m)
      PROVE  SignalInv'
  BY <1>45 DEF ServingProbe, Report
<1>46. ASSUME NEW m \in Monitors, ServingRecent(m)
      PROVE  SignalInv'
  BY <1>46 DEF ServingRecent, Report
<1>47. ASSUME NEW c \in Children, WatchClear(c)
      PROVE  SignalInv'
  BY <1>47 DEF WatchClear
<1>48. ASSUME NEW c \in Children, WatchDone(c)
      PROVE  SignalInv'
  BY <1>48 DEF WatchDone
<1>49. ASSUME NEW c \in Children, ChildAnnounces(c)
      PROVE  SignalInv'
  BY <1>49 DEF ChildAnnounces, ChildMoves
<1>50. ASSUME NEW c \in Children, ChildWedges(c)
      PROVE  SignalInv'
  BY <1>50 DEF ChildWedges, ChildMoves
<1>51. ASSUME NEW c \in Children, ChildRecovers(c)
      PROVE  SignalInv'
  BY <1>51 DEF ChildRecovers, ChildMoves
<1>52. ASSUME NEW c \in Children, ChildExits(c)
      PROVE  SignalInv'
  BY <1>52 DEF ChildExits, ChildMoves
<1>53. ASSUME GraceExpires
      PROVE  SignalInv'
  BY <1>53 DEF GraceExpires
<1>54. ASSUME Evict
      PROVE  SignalInv'
  BY <1>54 DEF Evict
<1>55. ASSUME UNCHANGED vars
      PROVE  SignalInv'
  BY <1>55 DEF vars
<1> QED
  BY <1>1, <1>2, <1>3, <1>4, <1>5, <1>6, <1>7, <1>8, <1>9, <1>10, <1>11,
     <1>12, <1>13, <1>14, <1>15, <1>16, <1>17, <1>18, <1>19, <1>20, <1>21,
     <1>22, <1>23, <1>24, <1>25, <1>26, <1>27, <1>28, <1>29, <1>30, <1>31,
     <1>32, <1>33, <1>34, <1>35, <1>36, <1>37, <1>38, <1>39, <1>40, <1>41,
     <1>42, <1>43, <1>44, <1>45, <1>46, <1>47, <1>48, <1>49, <1>50, <1>51,
     <1>52, <1>53, <1>54, <1>55
     DEF Next, RpcStep, StartStep, StopStep, MainStep, TickerStep, MonitorStep,
     WatcherStep, Environment, Halted

-----------------------------------------------------------------------------
(* A signal finds no reader, and a reader finds no signalled child.         *)

(* Every step keeps outstanding calls away from signalled children.         *)
LEMMA WaitIsDrained ==
  ASSUME LockInv, NEW r \in readers, NEW p \in Procs
  PROVE  pc[p] \notin WaitAt
BY DEF LockInv, WriterHeld, PastDrain, DrainedAt, WaitAt

LEMMA DrainNext ==
  ASSUME TypeOK, LockInv, SlotInv, SignalInv, DrainBeforeStop, [Next]_vars
  PROVE  DrainBeforeStop'
<1> USE ProcsAssumption, ChildrenAssumption
<1> USE DEF TypeOK, ControlType, LockType, SlotType, KidsType, RequestType,
            LockInv, WriterHeld, CallsHold, PastDrain, DrainedAt, WaitAt,
            SlotInv, SignalInv, DrainBeforeStop, Fresh, Load, Procs, Starters,
            Stoppers, At, Goto, locks, inflight, slot, fields, backend, kids,
            request, world, outside
<1>1. ASSUME NEW r \in Rpcs, Arrive(r)
      PROVE  DrainBeforeStop'
  BY <1>1 DEF Arrive
<1>2. ASSUME NEW r \in Rpcs, EnsureRefused(r)
      PROVE  DrainBeforeStop'
  BY <1>2 DEF EnsureRefused, Finish
<1>3. ASSUME NEW r \in Rpcs, EnsureLock(r)
      PROVE  DrainBeforeStop'
  BY <1>3 DEF EnsureLock
<1>4. ASSUME NEW r \in Rpcs, EnsureCmd(r)
      PROVE  DrainBeforeStop'
  BY <1>4 DEF EnsureCmd, Step
<1>5. ASSUME NEW r \in Rpcs, EnsureProbe(r)
      PROVE  DrainBeforeStop'
  BY <1>5 DEF EnsureProbe
<1>6. ASSUME NEW r \in Rpcs, EnsureRecent(r)
      PROVE  DrainBeforeStop'
  BY <1>6 DEF EnsureRecent
<1>7. ASSUME NEW r \in Rpcs, RestartLock(r)
      PROVE  DrainBeforeStop'
  BY <1>7 DEF RestartLock
<1>8. ASSUME NEW r \in Rpcs, RestartProbe(r)
      PROVE  DrainBeforeStop'
  BY <1>8 DEF RestartProbe
<1>9. ASSUME NEW r \in Rpcs, RestartAnnounce(r)
      PROVE  DrainBeforeStop'
  BY <1>9 DEF RestartAnnounce, Announce
<1>10. ASSUME NEW r \in Rpcs, RestartDrain(r)
      PROVE  DrainBeforeStop'
  BY <1>10 DEF RestartDrain, Drain
<1>11. ASSUME NEW r \in Rpcs, RestartLifecycle(r)
      PROVE  DrainBeforeStop'
  BY <1>11 DEF RestartLifecycle
<1>12. ASSUME NEW r \in Rpcs, RestartVerdict(r)
      PROVE  DrainBeforeStop'
  BY <1>12 DEF RestartVerdict, UnlockInflight
<1>13. ASSUME NEW r \in Rpcs, RestartStop(r)
      PROVE  DrainBeforeStop'
  BY <1>13 DEF RestartStop, StopLocked, Signal
<1>14. ASSUME NEW r \in Rpcs, RestartWait(r)
      PROVE  DrainBeforeStop'
  BY <1>14 DEF RestartWait
<1>15. ASSUME NEW r \in Rpcs, EmbedNothing(r)
      PROVE  DrainBeforeStop'
  BY <1>15 DEF EmbedNothing, Finish
<1>16. ASSUME NEW r \in Rpcs, EmbedRLock(r)
      PROVE  DrainBeforeStop'
  BY <1>16 DEF EmbedRLock
<1>17. ASSUME NEW r \in Rpcs, EmbedCall(r)
      PROVE  DrainBeforeStop'
  BY <1>17 DEF EmbedCall
<1>18. ASSUME NEW r \in Rpcs, EmbedRetry(r)
      PROVE  DrainBeforeStop'
  BY <1>18 DEF EmbedRetry, RUnlock
<1>19. ASSUME NEW r \in Rpcs, EmbedExhausted(r)
      PROVE  DrainBeforeStop'
  BY <1>19 DEF EmbedExhausted, Finish, RUnlock
<1>20. ASSUME NEW r \in Rpcs, EmbedSucceeds(r)
      PROVE  DrainBeforeStop'
  BY <1>20 DEF EmbedSucceeds, Finish, RUnlock
<1>21. ASSUME NEW r \in Rpcs, EmbedFails(r)
      PROVE  DrainBeforeStop'
  BY <1>21 DEF EmbedFails, Finish, RUnlock
<1>22. ASSUME NEW p \in Starters, NEW c \in Children, StartChild(p, c)
      PROVE  DrainBeforeStop'
  BY <1>22 DEF StartChild
<1>23. ASSUME NEW p \in Starters, StartPublish(p)
      PROVE  DrainBeforeStop'
  BY <1>23 DEF StartPublish
<1>24. ASSUME NEW p \in Starters, StartFails(p)
      PROVE  DrainBeforeStop'
  BY <1>24 DEF StartFails, StartReturns, UnlockInflight, Finish
<1>25. ASSUME NEW p \in Starters, StartPort(p)
      PROVE  DrainBeforeStop'
  BY <1>25 DEF StartPort
<1>26. ASSUME NEW p \in Starters, StartHealthy(p)
      PROVE  DrainBeforeStop'
  BY <1>26 DEF StartHealthy, StartReturns, UnlockInflight, Finish
<1>27. ASSUME NEW p \in Starters, StartUnhealthy(p)
      PROVE  DrainBeforeStop'
  BY <1>27 DEF StartUnhealthy
<1>28. ASSUME NEW p \in Starters, StartAbort(p)
      PROVE  DrainBeforeStop'
  BY <1>28 DEF StartAbort, Signal
<1>29. ASSUME NEW p \in Starters, StartAbortNothing(p)
      PROVE  DrainBeforeStop'
  BY <1>29 DEF StartAbortNothing, StartReturns, UnlockInflight, Finish
<1>30. ASSUME NEW p \in Starters, StartReap(p)
      PROVE  DrainBeforeStop'
  BY <1>30 DEF StartReap, StartReturns, UnlockInflight, Finish
<1>31. ASSUME NEW p \in Stoppers, StopAnnounce(p)
      PROVE  DrainBeforeStop'
  BY <1>31 DEF StopAnnounce, Announce
<1>32. ASSUME NEW p \in Stoppers, StopDrain(p)
      PROVE  DrainBeforeStop'
  BY <1>32 DEF StopDrain, Drain
<1>33. ASSUME NEW p \in Stoppers, StopLifecycle(p)
      PROVE  DrainBeforeStop'
  BY <1>33 DEF StopLifecycle
<1>34. ASSUME NEW p \in Stoppers, StopSignal(p)
      PROVE  DrainBeforeStop'
  BY <1>34 DEF StopSignal, StopLocked, Signal
<1>35. ASSUME NEW p \in Stoppers, StopWait(p)
      PROVE  DrainBeforeStop'
  BY <1>35 DEF StopWait
<1>36. ASSUME NEW p \in Stoppers, StopReturn(p)
      PROVE  DrainBeforeStop'
  BY <1>36 DEF StopReturn, UnlockInflight
<1>37. ASSUME Boot
      PROVE  DrainBeforeStop'
  BY <1>37 DEF Boot
<1>38. ASSUME ShutdownBegins
      PROVE  DrainBeforeStop'
  BY <1>38 DEF ShutdownBegins, Step
<1>39. ASSUME Drained
      PROVE  DrainBeforeStop'
  BY <1>39 DEF Drained
<1>40. ASSUME Exit
      PROVE  DrainBeforeStop'
  BY <1>40 DEF Exit, Step
<1>41. ASSUME NEW t \in Tickers, TickerStarts(t)
      PROVE  DrainBeforeStop'
  BY <1>41 DEF TickerStarts
<1>42. ASSUME NEW t \in Tickers, Tick(t)
      PROVE  DrainBeforeStop'
  BY <1>42 DEF Tick
<1>43. ASSUME NEW t \in Tickers, TickProbe(t)
      PROVE  DrainBeforeStop'
  BY <1>43 DEF TickProbe
<1>44. ASSUME NEW m \in Monitors, ServingRead(m)
      PROVE  DrainBeforeStop'
  BY <1>44 DEF ServingRead, Report
<1>45. ASSUME NEW m \in Monitors, ServingProbe(m)
      PROVE  DrainBeforeStop'
  BY <1>45 DEF ServingProbe, Report
<1>46. ASSUME NEW m \in Monitors, ServingRecent(m)
      PROVE  DrainBeforeStop'
  BY <1>46 DEF ServingRecent, Report
<1>47. ASSUME NEW c \in Children, WatchClear(c)
      PROVE  DrainBeforeStop'
  BY <1>47 DEF WatchClear
<1>48. ASSUME NEW c \in Children, WatchDone(c)
      PROVE  DrainBeforeStop'
  BY <1>48 DEF WatchDone
<1>49. ASSUME NEW c \in Children, ChildAnnounces(c)
      PROVE  DrainBeforeStop'
  BY <1>49 DEF ChildAnnounces, ChildMoves
<1>50. ASSUME NEW c \in Children, ChildWedges(c)
      PROVE  DrainBeforeStop'
  BY <1>50 DEF ChildWedges, ChildMoves
<1>51. ASSUME NEW c \in Children, ChildRecovers(c)
      PROVE  DrainBeforeStop'
  BY <1>51 DEF ChildRecovers, ChildMoves
<1>52. ASSUME NEW c \in Children, ChildExits(c)
      PROVE  DrainBeforeStop'
  BY <1>52 DEF ChildExits, ChildMoves
<1>53. ASSUME GraceExpires
      PROVE  DrainBeforeStop'
  BY <1>53 DEF GraceExpires
<1>54. ASSUME Evict
      PROVE  DrainBeforeStop'
  BY <1>54 DEF Evict
<1>55. ASSUME UNCHANGED vars
      PROVE  DrainBeforeStop'
  BY <1>55 DEF vars
<1> QED
  BY <1>1, <1>2, <1>3, <1>4, <1>5, <1>6, <1>7, <1>8, <1>9, <1>10, <1>11,
     <1>12, <1>13, <1>14, <1>15, <1>16, <1>17, <1>18, <1>19, <1>20, <1>21,
     <1>22, <1>23, <1>24, <1>25, <1>26, <1>27, <1>28, <1>29, <1>30, <1>31,
     <1>32, <1>33, <1>34, <1>35, <1>36, <1>37, <1>38, <1>39, <1>40, <1>41,
     <1>42, <1>43, <1>44, <1>45, <1>46, <1>47, <1>48, <1>49, <1>50, <1>51,
     <1>52, <1>53, <1>54, <1>55
     DEF Next, RpcStep, StartStep, StopStep, MainStep, TickerStep, MonitorStep,
     WatcherStep, Environment, Halted

-----------------------------------------------------------------------------
(* The port of the child.                                                   *)

EnsuredAt == {"ens_probe", "ens_recent", "rst_lock", "emb_rlock", "emb_port"}

PortInv ==
    /\ \A c \in Children :
          cmd = c /\ port # c => \E p \in Procs :
              pc[p] \in {"start_port", "start_abort", "start_reap"}
    /\ \A p \in Procs :
          pc[p] = "start_health" /\ cmd # NoChild => port = cmd
    /\ \A r \in Rpcs :
          pc[r] \in EnsuredAt => down[r] \/ (cmd # NoChild /\ port = cmd)
    /\ \A r \in Rpcs : pc[r] # "idle" => attempt[r] # 0

(* Every step keeps the port of a child that is not starting in step with   *)
(* cmd, and the handlers that EnsureStarted let pass covered by it.         *)
LEMMA PortNext ==
  ASSUME TypeOK, LockInv, SlotInv, PortInv, [Next]_vars
  PROVE  PortInv'
<1> USE ProcsAssumption, ChildrenAssumption
<1> USE DEF TypeOK, ControlType, LockType, SlotType, KidsType, RequestType,
            LockInv, LifecycleHeld, SlotInv, LiveIsNamed, Publishing, PortInv,
            Live, Answers, DaemonProbeAnswers, EnsuredAt, LifecycleAt, WaitAt,
            StartAt, MaxAttempts, Procs, Starters, Stoppers, At, Goto, locks,
            inflight, slot, fields, backend, kids, request, world, outside
<1>1. ASSUME NEW r \in Rpcs, Arrive(r)
      PROVE  PortInv'
  BY <1>1 DEF Arrive
<1>2. ASSUME NEW r \in Rpcs, EnsureRefused(r)
      PROVE  PortInv'
  BY <1>2 DEF EnsureRefused, Finish
<1>3. ASSUME NEW r \in Rpcs, EnsureLock(r)
      PROVE  PortInv'
  BY <1>3 DEF EnsureLock
<1>4. ASSUME NEW r \in Rpcs, EnsureCmd(r)
      PROVE  PortInv'
  BY <1>4 DEF EnsureCmd, Step
<1>5. ASSUME NEW r \in Rpcs, EnsureProbe(r)
      PROVE  PortInv'
  BY <1>5 DEF EnsureProbe
<1>6. ASSUME NEW r \in Rpcs, EnsureRecent(r)
      PROVE  PortInv'
  BY <1>6 DEF EnsureRecent
<1>7. ASSUME NEW r \in Rpcs, RestartLock(r)
      PROVE  PortInv'
  BY <1>7 DEF RestartLock
<1>8. ASSUME NEW r \in Rpcs, RestartProbe(r)
      PROVE  PortInv'
  BY <1>8 DEF RestartProbe
<1>9. ASSUME NEW r \in Rpcs, RestartAnnounce(r)
      PROVE  PortInv'
  BY <1>9 DEF RestartAnnounce, Announce
<1>10. ASSUME NEW r \in Rpcs, RestartDrain(r)
      PROVE  PortInv'
  BY <1>10 DEF RestartDrain, Drain
<1>11. ASSUME NEW r \in Rpcs, RestartLifecycle(r)
      PROVE  PortInv'
  BY <1>11 DEF RestartLifecycle
<1>12. ASSUME NEW r \in Rpcs, RestartVerdict(r)
      PROVE  PortInv'
  BY <1>12 DEF RestartVerdict, UnlockInflight
<1>13. ASSUME NEW r \in Rpcs, RestartStop(r)
      PROVE  PortInv'
  BY <1>13 DEF RestartStop, StopLocked, Signal
<1>14. ASSUME NEW r \in Rpcs, RestartWait(r)
      PROVE  PortInv'
  BY <1>14 DEF RestartWait
<1>15. ASSUME NEW r \in Rpcs, EmbedNothing(r)
      PROVE  PortInv'
  BY <1>15 DEF EmbedNothing, Finish
<1>16. ASSUME NEW r \in Rpcs, EmbedRLock(r)
      PROVE  PortInv'
  BY <1>16 DEF EmbedRLock
<1>17. ASSUME NEW r \in Rpcs, EmbedCall(r)
      PROVE  PortInv'
  BY <1>17 DEF EmbedCall
<1>18. ASSUME NEW r \in Rpcs, EmbedRetry(r)
      PROVE  PortInv'
  BY <1>18 DEF EmbedRetry, RUnlock
<1>19. ASSUME NEW r \in Rpcs, EmbedExhausted(r)
      PROVE  PortInv'
  BY <1>19 DEF EmbedExhausted, Finish, RUnlock
<1>20. ASSUME NEW r \in Rpcs, EmbedSucceeds(r)
      PROVE  PortInv'
  BY <1>20 DEF EmbedSucceeds, Finish, RUnlock
<1>21. ASSUME NEW r \in Rpcs, EmbedFails(r)
      PROVE  PortInv'
  BY <1>21 DEF EmbedFails, Finish, RUnlock
<1>22. ASSUME NEW p \in Starters, NEW c \in Children, StartChild(p, c)
      PROVE  PortInv'
  BY <1>22 DEF StartChild
<1>23. ASSUME NEW p \in Starters, StartPublish(p)
      PROVE  PortInv'
  BY <1>23 DEF StartPublish
<1>24. ASSUME NEW p \in Starters, StartFails(p)
      PROVE  PortInv'
  BY <1>24 DEF StartFails, StartReturns, UnlockInflight, Finish
<1>25. ASSUME NEW p \in Starters, StartPort(p)
      PROVE  PortInv'
  BY <1>25 DEF StartPort
<1>26. ASSUME NEW p \in Starters, StartHealthy(p)
      PROVE  PortInv'
  BY <1>26 DEF StartHealthy, StartReturns, UnlockInflight, Finish
<1>27. ASSUME NEW p \in Starters, StartUnhealthy(p)
      PROVE  PortInv'
  BY <1>27 DEF StartUnhealthy
<1>28. ASSUME NEW p \in Starters, StartAbort(p)
      PROVE  PortInv'
  BY <1>28 DEF StartAbort, Signal
<1>29. ASSUME NEW p \in Starters, StartAbortNothing(p)
      PROVE  PortInv'
  BY <1>29 DEF StartAbortNothing, StartReturns, UnlockInflight, Finish
<1>30. ASSUME NEW p \in Starters, StartReap(p)
      PROVE  PortInv'
  BY <1>30 DEF StartReap, StartReturns, UnlockInflight, Finish
<1>31. ASSUME NEW p \in Stoppers, StopAnnounce(p)
      PROVE  PortInv'
  BY <1>31 DEF StopAnnounce, Announce
<1>32. ASSUME NEW p \in Stoppers, StopDrain(p)
      PROVE  PortInv'
  BY <1>32 DEF StopDrain, Drain
<1>33. ASSUME NEW p \in Stoppers, StopLifecycle(p)
      PROVE  PortInv'
  BY <1>33 DEF StopLifecycle
<1>34. ASSUME NEW p \in Stoppers, StopSignal(p)
      PROVE  PortInv'
  BY <1>34 DEF StopSignal, StopLocked, Signal
<1>35. ASSUME NEW p \in Stoppers, StopWait(p)
      PROVE  PortInv'
  BY <1>35 DEF StopWait
<1>36. ASSUME NEW p \in Stoppers, StopReturn(p)
      PROVE  PortInv'
  BY <1>36 DEF StopReturn, UnlockInflight
<1>37. ASSUME Boot
      PROVE  PortInv'
  BY <1>37 DEF Boot
<1>38. ASSUME ShutdownBegins
      PROVE  PortInv'
  BY <1>38 DEF ShutdownBegins, Step
<1>39. ASSUME Drained
      PROVE  PortInv'
  BY <1>39 DEF Drained
<1>40. ASSUME Exit
      PROVE  PortInv'
  BY <1>40 DEF Exit, Step
<1>41. ASSUME NEW t \in Tickers, TickerStarts(t)
      PROVE  PortInv'
  BY <1>41 DEF TickerStarts
<1>42. ASSUME NEW t \in Tickers, Tick(t)
      PROVE  PortInv'
  BY <1>42 DEF Tick
<1>43. ASSUME NEW t \in Tickers, TickProbe(t)
      PROVE  PortInv'
  BY <1>43 DEF TickProbe
<1>44. ASSUME NEW m \in Monitors, ServingRead(m)
      PROVE  PortInv'
  BY <1>44 DEF ServingRead, Report
<1>45. ASSUME NEW m \in Monitors, ServingProbe(m)
      PROVE  PortInv'
  BY <1>45 DEF ServingProbe, Report
<1>46. ASSUME NEW m \in Monitors, ServingRecent(m)
      PROVE  PortInv'
  BY <1>46 DEF ServingRecent, Report
<1>47. ASSUME NEW c \in Children, WatchClear(c)
      PROVE  PortInv'
  <2>1. CASE cmd = c
    <3>1. \A r \in Rpcs : pc[r] \in EnsuredAt => down'[r] = TRUE
      <4>1. down' = [r \in Rpcs |-> attempt[r] # 0]
        BY <1>47, <2>1 DEF WatchClear
      <4>2. \A r \in Rpcs : pc[r] \in EnsuredAt => attempt[r] # 0
        OBVIOUS
      <4> QED  BY <4>1, <4>2, Zenon
    <3> QED  BY <1>47, <2>1, <3>1 DEF WatchClear
  <2>2. CASE cmd # c
    BY <1>47, <2>2 DEF WatchClear
  <2> QED  BY <2>1, <2>2
<1>48. ASSUME NEW c \in Children, WatchDone(c)
      PROVE  PortInv'
  BY <1>48 DEF WatchDone
<1>49. ASSUME NEW c \in Children, ChildAnnounces(c)
      PROVE  PortInv'
  BY <1>49 DEF ChildAnnounces, ChildMoves
<1>50. ASSUME NEW c \in Children, ChildWedges(c)
      PROVE  PortInv'
  BY <1>50 DEF ChildWedges, ChildMoves
<1>51. ASSUME NEW c \in Children, ChildRecovers(c)
      PROVE  PortInv'
  BY <1>51 DEF ChildRecovers, ChildMoves
<1>52. ASSUME NEW c \in Children, ChildExits(c)
      PROVE  PortInv'
  BY <1>52 DEF ChildExits, ChildMoves
<1>53. ASSUME GraceExpires
      PROVE  PortInv'
  BY <1>53 DEF GraceExpires
<1>54. ASSUME Evict
      PROVE  PortInv'
  BY <1>54 DEF Evict
<1>55. ASSUME UNCHANGED vars
      PROVE  PortInv'
  BY <1>55 DEF vars
<1> QED
  BY <1>1, <1>2, <1>3, <1>4, <1>5, <1>6, <1>7, <1>8, <1>9, <1>10, <1>11,
     <1>12, <1>13, <1>14, <1>15, <1>16, <1>17, <1>18, <1>19, <1>20, <1>21,
     <1>22, <1>23, <1>24, <1>25, <1>26, <1>27, <1>28, <1>29, <1>30, <1>31,
     <1>32, <1>33, <1>34, <1>35, <1>36, <1>37, <1>38, <1>39, <1>40, <1>41,
     <1>42, <1>43, <1>44, <1>45, <1>46, <1>47, <1>48, <1>49, <1>50, <1>51,
     <1>52, <1>53, <1>54, <1>55
     DEF Next, RpcStep, StartStep, StopStep, MainStep, TickerStep, MonitorStep,
     WatcherStep, Environment, Halted

-----------------------------------------------------------------------------
(* The inductive invariant.                                                 *)

IInv == TypeOK /\ LockInv /\ SlotInv /\ SignalInv /\ DrainBeforeStop
            /\ PortInv

(* It holds before the daemon starts a child.                               *)
LEMMA IInvInit == Init => IInv
<1> SUFFICES ASSUME Init PROVE IInv
  OBVIOUS
<1> USE ProcsAssumption, ChildrenAssumption DEF Init, Procs, Stoppers
<1>1. TypeOK
  BY TypeInit
<1>2. LockInv
  BY DEF LockInv, LifecycleHeld, RestartHeld, WriterHeld, CallsHold,
         PastDrain, LifecycleAt, RestartAt, DrainedAt, StartAt
<1>3. SlotInv
  BY DEF SlotInv, LiveIsNamed, Live, WaitAt, StartAt, StopAt
<1>4. SignalInv /\ DrainBeforeStop
  BY DEF SignalInv, DrainBeforeStop
<1>5. PortInv
  BY DEF PortInv, EnsuredAt
<1> QED  BY <1>1, <1>2, <1>3, <1>4, <1>5 DEF IInv

(* Every step preserves it.                                                 *)
LEMMA IInvNext == IInv /\ [Next]_vars => IInv'
<1> SUFFICES ASSUME IInv, [Next]_vars PROVE IInv'
  OBVIOUS
<1> USE DEF IInv
<1>1. TypeOK'
  BY TypeNext
<1>2. LockInv'
  BY LockNext
<1>3. SlotInv'
  BY SlotNext
<1>4. SignalInv'
  BY SignalNext
<1>5. DrainBeforeStop'
  BY DrainNext
<1>6. PortInv'
  BY PortNext
<1> QED  BY <1>1, <1>2, <1>3, <1>4, <1>5, <1>6

(* So it holds throughout.                                                  *)
LEMMA Invariance == Spec => []IInv
BY IInvInit, IInvNext, PTL DEF Spec

-----------------------------------------------------------------------------
(* The theorems.                                                            *)

(* There are never two live llama-servers, and none that b.cmd does not     *)
(* name but one that is being started under lifecycleMu.                    *)
THEOREM OneLiveChild == Spec => []LiveChildIsOwned
<1>1. ASSUME IInv PROVE LiveChildIsOwned
  <2>1. ASSUME NEW c \in Children, NEW d \in Children, Live(c), Live(d)
        PROVE  c = d
    <3>1. \A e \in Children : Live(e) => cmd = e \/ Publishing(e)
      BY <1>1 DEF IInv, SlotInv, LiveIsNamed
    <3>2. CASE cmd # NoChild
      <4>1. \A e \in Children : ~Publishing(e)
        BY <1>1, <3>2 DEF IInv, SlotInv, Publishing, Starters, Procs, Stoppers
      <4> QED  BY <2>1, <3>1, <4>1
    <3>3. CASE cmd = NoChild
      <4>1. Publishing(c) /\ Publishing(d)
        BY <2>1, <3>1, <3>3, ChildrenAssumption
      <4>2. PICK p \in Starters : pc[p] = "start_publish" /\ target[p] = c
        BY <4>1 DEF Publishing
      <4>3. PICK q \in Starters : pc[q] = "start_publish" /\ target[q] = d
        BY <4>1 DEF Publishing
      <4>4. lifecycleMu = p /\ lifecycleMu = q
        BY <1>1, <4>2, <4>3 DEF IInv, LockInv, LifecycleHeld, LifecycleAt,
           StartAt, Starters, Procs, Stoppers
      <4> QED  BY <4>2, <4>3, <4>4
    <3> QED  BY <3>2, <3>3
  <2> QED  BY <1>1, <2>1 DEF IInv, SlotInv, LiveIsNamed, LiveChildIsOwned
<1> QED  BY <1>1, Invariance, PTL

(* No embed call is outstanding on a child that Stop or restartIfDead has   *)
(* signalled.                                                               *)
THEOREM NoEmbedIsCut == Spec => []DrainBeforeStop
<1>1. IInv => DrainBeforeStop
  BY DEF IInv
<1> QED  BY <1>1, Invariance, PTL

(* An orderly end of the daemon leaves no llama-server behind.              *)
THEOREM NoOrphan == Spec => []HaltedLeavesNoChild
<1>1. IInv => HaltedLeavesNoChild
  BY ChildrenAssumption
  DEF IInv, SlotInv, LiveIsNamed, Publishing, Starters, HaltedLeavesNoChild
<1> QED  BY <1>1, Invariance, PTL

(* ErrNotStarted is seen only by an attempt whose child went down under it. *)
THEOREM RetryIsForAnExit == Spec => []NotStartedOnlyAfterExit
<1>1. IInv => NotStartedOnlyAfterExit
  <2> SUFFICES ASSUME IInv, NEW r \in readers,
                      pc[r] = "emb_port", port = NoChild
               PROVE  down[r]
    BY DEF NotStartedOnlyAfterExit
  <2>1. r \in Rpcs /\ pc[r] \in EnsuredAt
    BY DEF IInv, TypeOK, LockType, EnsuredAt
  <2> QED  BY <2>1 DEF IInv, PortInv
<1> QED  BY <1>1, Invariance, PTL

-----------------------------------------------------------------------------
(* Whoever waits is further from the end of the lock order than whom it     *)
(* waits for.                                                               *)
Rank(p) ==
    CASE pc[p] = "drain" -> 4
      [] pc[p] = "rst_lock" -> 3
      [] pc[p] \in {"rst_announce", "stp_announce"} \/ p \in blocked -> 2
      [] pc[p] \in {"boot", "ens_lock", "rst_drain", "stp_drain",
                    "rst_lifecycle", "stp_lifecycle"} -> 1
      [] OTHER -> 0

LEMMA RankFalls ==
  ASSUME TypeOK, LockInv, NEW p \in Procs, NEW q \in Procs, HoldsUp(q, p)
  PROVE  Rank(q) < Rank(p)
<1> USE ProcsAssumption
<1> USE DEF TypeOK, ControlType, LockType, LockInv, LifecycleHeld, RestartHeld,
            WriterHeld, CallsHold, PastDrain, LifecycleAt, RestartAt, DrainedAt,
            StartAt, Procs, Stoppers
<1>1. q \in blocked => pc[q] \in {"emb_port", "emb_call"} /\ q \notin readers
  OBVIOUS
<1>2. p \in blocked => pc[p] \in {"emb_port", "emb_call"}
  OBVIOUS
<1>3. CASE /\ pc[p] \in {"boot", "ens_lock", "rst_lifecycle", "stp_lifecycle"}
           /\ q = lifecycleMu
  <2>1. pc[q] \in LifecycleAt
    BY <1>3
  <2>2. Rank(q) = 0
    BY <1>1, <2>1 DEF Rank
  <2>3. Rank(p) = 1
    BY <1>2, <1>3 DEF Rank
  <2> QED  BY <2>2, <2>3
<1>4. CASE pc[p] = "rst_lock" /\ q = restartMu
  <2>1. pc[q] \in RestartAt \union StartAt
    BY <1>4
  <2>2. Rank(q) \in {0, 1, 2}
    BY <1>1, <2>1 DEF Rank
  <2>3. Rank(p) = 3
    BY <1>4 DEF Rank
  <2> QED  BY <2>2, <2>3
<1>5. writer = q => Rank(q) \in {0, 1}
  <2>1. writer = q => pc[q] \in {"rst_drain", "stp_drain"} \union DrainedAt
                                 \union StartAt
    OBVIOUS
  <2> QED  BY <1>1, <2>1 DEF Rank
<1>6. CASE pc[p] \in {"rst_announce", "stp_announce"} /\ q = writer
  <2>1. Rank(p) = 2
    BY <1>6 DEF Rank
  <2> QED  BY <1>5, <1>6, <2>1
<1>7. CASE pc[p] \in {"rst_drain", "stp_drain"} /\ q \in readers
  <2>1. q \notin blocked /\ pc[q] \in {"emb_port", "emb_call"}
    BY <1>1, <1>7
  <2>2. Rank(q) = 0
    BY <2>1 DEF Rank
  <2>3. Rank(p) = 1
    BY <1>2, <1>7 DEF Rank
  <2> QED  BY <2>2, <2>3
<1>8. CASE p \in blocked /\ q = writer
  <2>1. Rank(p) = 2
    BY <1>2, <1>8 DEF Rank
  <2> QED  BY <1>5, <1>8, <2>1
<1>9. CASE pc[p] = "drain" /\ q \in Rpcs \union Monitors
  <2>1. pc[q] # "drain"
    BY <1>9 DEF RpcAt, MonitorAt
  <2>2. Rank(q) \in {0, 1, 2, 3}
    BY <2>1 DEF Rank
  <2>3. Rank(p) = 4
    BY <1>9 DEF Rank
  <2> QED  BY <2>2, <2>3
<1> QED  BY <1>3, <1>4, <1>6, <1>7, <1>8, <1>9 DEF HoldsUp

(* However many handlers run, no goroutines wait for each other in a circle.*)
THEOREM LockOrder == Spec => []NoCircularWait
<1>1. ASSUME IInv PROVE NoCircularWait
  <2> SUFFICES ASSUME NEW S \in SUBSET Procs,
                      \A p \in S : \E q \in S : HoldsUp(q, p)
               PROVE  S = {}
    BY DEF NoCircularWait
  <2>1. \A p \in S : \E q \in S : Rank(q) < Rank(p)
    BY <1>1, RankFalls DEF IInv
  <2>2. \A p \in S : Rank(p) \in {0, 1, 2, 3, 4}
    BY DEF Rank
  <2>3. \A p \in S : Rank(p) # 0
    BY <2>1, <2>2
  <2>4. \A p \in S : Rank(p) # 1
    BY <2>1, <2>2, <2>3
  <2>5. \A p \in S : Rank(p) # 2
    BY <2>1, <2>2, <2>3, <2>4
  <2>6. \A p \in S : Rank(p) # 3
    BY <2>1, <2>2, <2>3, <2>4, <2>5
  <2>7. \A p \in S : Rank(p) # 4
    BY <2>1, <2>2, <2>3, <2>4, <2>5, <2>6
  <2> QED  BY <2>2, <2>3, <2>4, <2>5, <2>6, <2>7
<1> QED  BY <1>1, Invariance, PTL

-----------------------------------------------------------------------------
(* What a step may do.                                                      *)

(* A verdict of restartIfDead is reached with no reader left, on the child  *)
(* whose port was probed.                                                   *)
LEMMA VerdictStep ==
  ASSUME IInv, NEW r \in Rpcs, pc[r] = "rst_verdict", ~ctxDone,
         cmd # NoChild, VerdictMisses
  PROVE  child[cmd] # "up"
<1> USE DEF IInv
<1>1. r \in Procs /\ lifecycleMu = r /\ readers = {}
  BY DEF LockInv, LifecycleHeld, WriterHeld, LifecycleAt, PastDrain,
         DrainedAt, Procs
<1>2. port = cmd
  <2>1. \A p \in Procs : pc[p] \notin StartAt
    BY <1>1 DEF LockInv, LifecycleHeld, LifecycleAt, StartAt
  <2> QED  BY <2>1 DEF PortInv, StartAt, TypeOK, SlotType
<1>3. ~Load(port)
  BY <1>1, <1>2 DEF LockInv, CallsHold, Load
<1> QED  BY <1>2, <1>3 DEF VerdictMisses, Answers

(* Only RestartVerdict leads from the verdict to the stop.                  *)
LEMMA CondemnStep ==
  ASSUME TypeOK, [Next]_vars, NEW r \in Rpcs,
         pc[r] = "rst_verdict", pc'[r] = "rst_stop"
  PROVE  VerdictMisses
<1> USE ProcsAssumption
<1> USE DEF TypeOK, ControlType, At, Goto, Procs, Starters, Stoppers, locks,
            inflight, slot, fields, backend, kids, request, world, outside
<1>1. ASSUME NEW q \in Rpcs, Arrive(q) \/ RpcStep(q)
      PROVE  VerdictMisses
  BY <1>1 DEF Arrive, RpcStep, EnsureRefused, Finish, EnsureLock, EnsureCmd,
     Step, EnsureProbe, EnsureRecent, RestartLock, RestartProbe,
     RestartAnnounce, Announce, RestartDrain, Drain, RestartLifecycle,
     RestartVerdict, UnlockInflight, RestartStop, StopLocked, Signal,
     RestartWait, EmbedNothing, EmbedRLock, EmbedCall, EmbedRetry, RUnlock,
     EmbedExhausted, EmbedSucceeds, EmbedFails
<1>2. ASSUME NEW p \in Starters, StartStep(p)
      PROVE  VerdictMisses
  BY <1>2 DEF StartStep, StartChild, StartPublish, StartFails, StartReturns,
     UnlockInflight, Finish, StartPort, StartHealthy, StartUnhealthy,
     StartAbort, Signal, StartAbortNothing, StartReap
<1>3. ASSUME NEW p \in Stoppers, StopStep(p)
      PROVE  VerdictMisses
  BY <1>3 DEF StopStep, StopAnnounce, Announce, StopDrain, Drain,
     StopLifecycle, StopSignal, StopLocked, Signal, StopWait, StopReturn,
     UnlockInflight
<1>4. ASSUME MainStep
      PROVE  VerdictMisses
  BY <1>4 DEF MainStep, Boot, ShutdownBegins, Step, Drained, Exit
<1>5. ASSUME NEW t \in Tickers, TickerStep(t)
      PROVE  VerdictMisses
  BY <1>5 DEF TickerStep, TickerStarts, Tick, TickProbe
<1>6. ASSUME NEW m \in Monitors, MonitorStep(m)
      PROVE  VerdictMisses
  BY <1>6 DEF MonitorStep, ServingRead, Report, ServingProbe, ServingRecent
<1>7. ASSUME NEW c \in Children, WatcherStep(c)
      PROVE  VerdictMisses
  BY <1>7 DEF WatcherStep, WatchClear, WatchDone
<1>8. ASSUME Environment
      PROVE  VerdictMisses
  BY <1>8 DEF Environment, ChildAnnounces, ChildMoves, ChildWedges,
     ChildRecovers, ChildExits, GraceExpires, Evict
<1>9. ASSUME UNCHANGED vars
      PROVE  VerdictMisses
  BY <1>9 DEF vars
<1> QED
  BY <1>1, <1>2, <1>3, <1>4, <1>5, <1>6, <1>7, <1>8, <1>9 DEF Next, Halted

(* restartIfDead never condemns a child that would answer.                  *)
THEOREM NoBusyChildCondemned == Spec => BusyChildIsSpared
<1> DEFINE Spared ==
      \A r \in Rpcs :
         /\ pc[r] = "rst_verdict" /\ pc'[r] = "rst_stop"
         /\ ~ctxDone /\ cmd # NoChild
         => child[cmd] # "up"
<1>1. IInv /\ [Next]_vars => Spared
  BY VerdictStep, CondemnStep DEF IInv
<1> QED  BY <1>1, Invariance, PTL DEF Spec, BusyChildIsSpared

(* Health answers IDLE only when the slot is empty.                         *)
LEMMA IdleStep ==
  ASSUME IInv, [Next]_vars, NEW m \in Monitors,
         report'[m] = "idle", report[m] # "idle"
  PROVE  cmd = NoChild
<1> USE ProcsAssumption
<1> USE DEF IInv, TypeOK, WorldType, At, Goto, locks, inflight, slot, fields,
            backend, kids, request, world, outside
<1>1. ASSUME NEW r \in Rpcs, Arrive(r) \/ RpcStep(r)
      PROVE  cmd = NoChild
  BY <1>1 DEF Arrive, RpcStep, EnsureRefused, Finish, EnsureLock, EnsureCmd,
     Step, EnsureProbe, EnsureRecent, RestartLock, RestartProbe,
     RestartAnnounce, Announce, RestartDrain, Drain, RestartLifecycle,
     RestartVerdict, UnlockInflight, RestartStop, StopLocked, Signal,
     RestartWait, EmbedNothing, EmbedRLock, EmbedCall, EmbedRetry, RUnlock,
     EmbedExhausted, EmbedSucceeds, EmbedFails
<1>2. ASSUME NEW p \in Starters, StartStep(p)
      PROVE  cmd = NoChild
  BY <1>2 DEF StartStep, StartChild, StartPublish, StartFails, StartReturns,
     UnlockInflight, Finish, StartPort, StartHealthy, StartUnhealthy,
     StartAbort, Signal, StartAbortNothing, StartReap
<1>3. ASSUME NEW p \in Stoppers, StopStep(p)
      PROVE  cmd = NoChild
  BY <1>3 DEF StopStep, StopAnnounce, Announce, StopDrain, Drain,
     StopLifecycle, StopSignal, StopLocked, Signal, StopWait, StopReturn,
     UnlockInflight
<1>4. ASSUME MainStep
      PROVE  cmd = NoChild
  BY <1>4 DEF MainStep, Boot, ShutdownBegins, Step, Drained, Exit
<1>5. ASSUME NEW t \in Tickers, TickerStep(t)
      PROVE  cmd = NoChild
  BY <1>5 DEF TickerStep, TickerStarts, Tick, TickProbe
<1>6. ASSUME NEW n \in Monitors, MonitorStep(n)
      PROVE  cmd = NoChild
  BY <1>6 DEF MonitorStep, ServingRead, Report, ServingProbe, ServingRecent
<1>7. ASSUME NEW c \in Children, WatcherStep(c)
      PROVE  cmd = NoChild
  BY <1>7 DEF WatcherStep, WatchClear, WatchDone
<1>8. ASSUME Environment
      PROVE  cmd = NoChild
  BY <1>8 DEF Environment, ChildAnnounces, ChildMoves, ChildWedges,
     ChildRecovers, ChildExits, GraceExpires, Evict
<1>9. ASSUME UNCHANGED vars
      PROVE  cmd = NoChild
  BY <1>9 DEF vars
<1> QED
  BY <1>1, <1>2, <1>3, <1>4, <1>5, <1>6, <1>7, <1>8, <1>9 DEF Next, Halted

(* When IDLE is answered the suspended llama-server is gone, and no other   *)
(* one exists but a child between cmd.Start and its entry into b.cmd.       *)
THEOREM IdleMeansSuspended == Spec => IdleReportIsTrue
<1> DEFINE True ==
      \A m \in Monitors :
         report'[m] = "idle" /\ report[m] # "idle"
         => \A c \in Children : Live(c) => Publishing(c)
<1>1. IInv /\ [Next]_vars => True
  BY IdleStep, ChildrenAssumption DEF IInv, SlotInv, LiveIsNamed
<1> QED  BY <1>1, Invariance, PTL DEF Spec, IdleReportIsTrue

-----------------------------------------------------------------------------
(* The safety half of EmbedReturns: how far a handler is from its return,   *)
(* if no attempt were left.                                                 *)
Left ==
    [ens_lock |-> 21, ens_cmd |-> 20, ens_probe |-> 19, ens_recent |-> 18,
     rst_lock |-> 17, rst_probe |-> 16, rst_announce |-> 15, rst_drain |-> 14,
     rst_lifecycle |-> 13, rst_verdict |-> 12, rst_stop |-> 11, rst_wait |-> 10,
     start |-> 9, start_publish |-> 8, start_port |-> 7, start_health |-> 6,
     start_abort |-> 5, start_reap |-> 4, emb_rlock |-> 3, emb_port |-> 2,
     emb_call |-> 1, idle |-> 0]

Work(r) ==
    IF pc[r] = "idle" THEN 0
    ELSE 21 * (MaxAttempts - attempt[r]) + Left[pc[r]]

(* A step of r.                                                             *)
Nearer(r) ==
    \/ pc'[r] = "idle"
    \/ attempt'[r] = attempt[r] /\ Left[pc'[r]] < Left[pc[r]]
    \/ /\ pc[r] = "emb_port" /\ pc'[r] = "ens_lock"
       /\ attempt'[r] = attempt[r] + 1

LEMMA RpcNearer ==
  ASSUME TypeOK, NEW r \in Rpcs, RpcStep(r)
  PROVE  Nearer(r)
<1> USE DEF TypeOK, ControlType, RequestType, At, Goto, Finish, Procs, outside,
            request, Nearer, Left
<1>1. CASE EnsureRefused(r) \/ EnsureLock(r)
  BY <1>1 DEF EnsureRefused, EnsureLock
<1>2. CASE EnsureCmd(r) \/ EnsureProbe(r) \/ EnsureRecent(r)
  BY <1>2 DEF EnsureCmd, Step, EnsureProbe, EnsureRecent
<1>3. CASE RestartLock(r) \/ RestartProbe(r)
  BY <1>3 DEF RestartLock, RestartProbe
<1>4. CASE RestartAnnounce(r) \/ RestartDrain(r)
  BY <1>4 DEF RestartAnnounce, Announce, RestartDrain, Drain
<1>5. CASE RestartLifecycle(r) \/ RestartVerdict(r)
  BY <1>5 DEF RestartLifecycle, RestartVerdict
<1>6. CASE RestartStop(r) \/ RestartWait(r)
  BY <1>6 DEF RestartStop, StopLocked, Signal, RestartWait
<1>7. CASE EmbedNothing(r) \/ EmbedRLock(r) \/ EmbedCall(r)
  BY <1>7 DEF EmbedNothing, EmbedRLock, EmbedCall
<1>8. CASE EmbedRetry(r) \/ EmbedExhausted(r)
  BY <1>8 DEF EmbedRetry, EmbedExhausted
<1>9. CASE EmbedSucceeds(r) \/ EmbedFails(r)
  BY <1>9 DEF EmbedSucceeds, EmbedFails
<1> QED  BY <1>1, <1>2, <1>3, <1>4, <1>5, <1>6, <1>7, <1>8, <1>9 DEF RpcStep

LEMMA StartNearer ==
  ASSUME TypeOK, NEW r \in Rpcs, StartStep(r)
  PROVE  Nearer(r)
<1> USE DEF TypeOK, ControlType, RequestType, At, Goto, Procs, outside, request,
            Nearer, Left
<1>1. r # Main
  BY ProcsAssumption DEF Stoppers
<1>2. ASSUME NEW ok \in BOOLEAN, StartReturns(r, ok), pc[r] \in StartAt
      PROVE  Nearer(r)
  BY <1>1, <1>2 DEF StartReturns, Finish, StartAt
<1>3. ASSUME NEW c \in Children, StartChild(r, c)
      PROVE  Nearer(r)
  BY <1>3 DEF StartChild
<1>4. CASE StartPublish(r) \/ StartPort(r) \/ StartUnhealthy(r)
  BY <1>4 DEF StartPublish, StartPort, StartUnhealthy
<1>5. CASE StartAbort(r)
  BY <1>5 DEF StartAbort, Signal
<1>6. CASE \/ StartFails(r) \/ StartHealthy(r) \/ StartAbortNothing(r)
           \/ StartReap(r)
  BY <1>2, <1>6 DEF StartFails, StartHealthy, StartAbortNothing, StartReap,
     StartAt
<1> QED  BY <1>3, <1>4, <1>5, <1>6 DEF StartStep

(* Nobody moves a handler but itself.                                       *)
LEMMA OthersLeaveIt ==
  ASSUME TypeOK, NEW r \in Rpcs, [Next]_vars, pc[r] # "idle",
         ~(RpcStep(r) \/ StartStep(r))
  PROVE  pc'[r] = pc[r] /\ attempt'[r] = attempt[r]
<1> DEFINE Same == pc'[r] = pc[r] /\ attempt'[r] = attempt[r]
<1> USE ProcsAssumption
<1> USE DEF TypeOK, ControlType, RequestType, At, Goto, Procs, Starters,
            Stoppers, request, backend, outside
<1>1. ASSUME NEW q \in Rpcs, Arrive(q) \/ RpcStep(q), q # r
      PROVE  Same
  BY <1>1 DEF Arrive, RpcStep, EnsureRefused, Finish, EnsureLock, EnsureCmd,
     Step, EnsureProbe, EnsureRecent, RestartLock, RestartProbe,
     RestartAnnounce, Announce, RestartDrain, Drain, RestartLifecycle,
     RestartVerdict, RestartStop, StopLocked, Signal, RestartWait,
     EmbedNothing, EmbedRLock, EmbedCall, EmbedRetry, EmbedExhausted,
     EmbedSucceeds, EmbedFails
<1>2. ~Arrive(r)
  BY DEF Arrive
<1>3. ASSUME NEW p \in Starters, StartStep(p), p # r
      PROVE  Same
  BY <1>3 DEF StartStep, StartChild, StartPublish, StartFails, StartReturns,
     Finish, StartPort, StartHealthy, StartUnhealthy, StartAbort, Signal,
     StartAbortNothing, StartReap
<1>4. ASSUME NEW p \in Stoppers, StopStep(p)
      PROVE  Same
  BY <1>4 DEF StopStep, StopAnnounce, Announce, StopDrain, Drain,
     StopLifecycle, StopSignal, StopLocked, Signal, StopWait, StopReturn
<1>5. ASSUME MainStep
      PROVE  Same
  BY <1>5 DEF MainStep, Boot, ShutdownBegins, Step, Drained, Exit
<1>6. ASSUME NEW t \in Tickers, TickerStep(t)
      PROVE  Same
  BY <1>6 DEF TickerStep, TickerStarts, Tick, TickProbe
<1>7. ASSUME NEW m \in Monitors, MonitorStep(m)
      PROVE  Same
  BY <1>7 DEF MonitorStep, ServingRead, Report, ServingProbe, ServingRecent
<1>8. ASSUME \/ \E c \in Children : WatcherStep(c)
             \/ Environment
             \/ UNCHANGED vars
      PROVE  Same
  BY <1>8 DEF WatcherStep, WatchClear, WatchDone, Environment, ChildAnnounces,
     ChildMoves, ChildWedges, ChildRecovers, ChildExits, GraceExpires, Evict,
     vars
<1> QED
  BY <1>1, <1>2, <1>3, <1>4, <1>5, <1>6, <1>7, <1>8 DEF Next, Halted

(* No request goes round in a circle between EnsureStarted, restartIfDead,  *)
(* startLocked and Embed: whatever the other goroutines do to it, each step *)
(* of its own takes away from the work it has left, and none of theirs adds *)
(* to it.                                                                   *)
THEOREM RequestsWind ==
    Spec => [][\A r \in Rpcs :
                 /\ RpcStep(r) \/ StartStep(r) => Work(r)' < Work(r)
                 /\ pc[r] # "idle" => Work(r)' <= Work(r)]_vars
<1>1. ASSUME IInv, IInv', NEW r \in Rpcs, RpcStep(r) \/ StartStep(r)
      PROVE  Work(r)' < Work(r)
  <2>1. Nearer(r) /\ pc[r] # "idle"
    <3>1. Nearer(r)
      BY <1>1, RpcNearer, StartNearer DEF IInv
    <3>2. CASE RpcStep(r)
      BY <3>1, <3>2 DEF At, RpcStep, EnsureRefused, EnsureLock, EnsureCmd,
         Step, EnsureProbe, EnsureRecent, RestartLock, RestartProbe,
         RestartAnnounce, Announce, RestartDrain, Drain, RestartLifecycle,
         RestartVerdict, RestartStop, StopLocked, RestartWait, EmbedNothing,
         EmbedRLock, EmbedCall, EmbedRetry, EmbedExhausted, EmbedSucceeds,
         EmbedFails
    <3>3. CASE StartStep(r)
      BY <3>1, <3>3 DEF At, StartStep, StartChild, StartPublish, StartFails,
         StartPort, StartHealthy, StartUnhealthy, StartAbort, StartAbortNothing,
         StartReap
    <3> QED  BY <1>1, <3>1, <3>2, <3>3
  <2>2. /\ Left[pc[r]] \in 1 .. 21 /\ Left[pc'[r]] \in 0 .. 21
        /\ attempt[r] \in 0 .. 2 /\ attempt'[r] \in 0 .. 2
    BY <1>1, <2>1 DEF IInv, TypeOK, ControlType, RequestType, MaxAttempts,
       Left, RpcAt, StartAt
  <2>3. CASE pc'[r] = "idle"
    BY <2>1, <2>2, <2>3 DEF Work, MaxAttempts
  <2>4. CASE attempt'[r] = attempt[r] /\ Left[pc'[r]] < Left[pc[r]]
    BY <2>1, <2>2, <2>4 DEF Work, MaxAttempts
  <2>5. CASE /\ pc[r] = "emb_port" /\ pc'[r] = "ens_lock"
             /\ attempt'[r] = attempt[r] + 1
    <3>1. Left[pc[r]] = 2 /\ Left[pc'[r]] = 21
      BY <2>5 DEF Left
    <3> QED  BY <2>2, <2>5, <3>1 DEF Work, MaxAttempts
  <2> QED  BY <2>1, <2>3, <2>4, <2>5 DEF Nearer
<1>2. ASSUME IInv, IInv', [Next]_vars, NEW r \in Rpcs, pc[r] # "idle"
      PROVE  Work(r)' <= Work(r)
  <2>1. Work(r) \in Nat /\ Work(r)' \in Nat
    <3>1. Left[pc[r]] \in 0 .. 21 /\ Left[pc'[r]] \in 0 .. 21
      BY <1>2 DEF IInv, TypeOK, ControlType, Left, RpcAt, StartAt
    <3> QED  BY <1>2, <3>1 DEF IInv, TypeOK, RequestType, MaxAttempts, Work
  <2>2. CASE RpcStep(r) \/ StartStep(r)
    BY <1>1, <1>2, <2>1, <2>2
  <2>3. CASE ~(RpcStep(r) \/ StartStep(r))
    <3>1. Work(r)' = Work(r)
      BY <1>2, <2>3, OthersLeaveIt DEF IInv, Work
    <3> QED  BY <2>1, <3>1
  <2> QED  BY <2>2, <2>3
<1>3. IInv /\ [Next]_vars => \A r \in Rpcs :
         /\ RpcStep(r) \/ StartStep(r) => Work(r)' < Work(r)
         /\ pc[r] # "idle" => Work(r)' <= Work(r)
  BY <1>1, <1>2, IInvNext
<1> QED  BY <1>3, Invariance, PTL DEF Spec

(* So a request makes at most 42 steps before its handler returns: the loop *)
(* over embedMaxAttempts is the only one there is.                          *)
THEOREM RequestsAreBounded == Spec => [](\A r \in Rpcs : Work(r) \in 0 .. 42)
<1>1. ASSUME IInv, NEW r \in Rpcs
      PROVE  Work(r) \in 0 .. 42
  <2>1. Left[pc[r]] \in 0 .. 21
    BY <1>1 DEF IInv, TypeOK, ControlType, Left, RpcAt, StartAt
  <2>2. pc[r] # "idle" => attempt[r] \in 1 .. 2
    BY <1>1 DEF IInv, PortInv, TypeOK, RequestType, MaxAttempts
  <2> QED  BY <2>1, <2>2 DEF Work, MaxAttempts
<1>2. IInv => \A r \in Rpcs : Work(r) \in 0 .. 42
  BY <1>1
<1> QED  BY <1>2, Invariance, PTL
=============================================================================
