------------------------- MODULE LlamaBackendTypes --------------------------
(* Type correctness of LlamaBackend, for any number of handlers, children   *)
(* and idle goroutines.                                                     *)
EXTENDS LlamaBackend, TLAPS

(* The variables have their types when the daemon begins.                   *)
LEMMA TypeInit == Init => TypeOK
<1> SUFFICES ASSUME Init PROVE TypeOK
  OBVIOUS
<1> USE DEF Init
<1>1. ControlType
  BY ProcsAssumption
  DEF ControlType, Procs, Stoppers, Locations, RpcAt, StartAt, StopAt, MainAt,
      TickerAt, MonitorAt
<1>2. LockType
  BY DEF LockType
<1>3. SlotType
  <2>1. recent \in BOOLEAN /\ wasRunning \in BOOLEAN
    BY Zenon
  <2> QED  BY <2>1 DEF SlotType
<1>4. KidsType
  BY DEF KidsType, ChildStatus, Why
<1>5. RequestType
  <2>1. down \in [Rpcs -> BOOLEAN]
    BY Zenon
  <2> QED  BY <2>1 DEF RequestType, MaxAttempts
<1>6. WorldType
  <2>1. ctxDone \in BOOLEAN
    BY Zenon
  <2> QED  BY <2>1 DEF WorldType, Reports
<1> QED  BY <1>1, <1>2, <1>3, <1>4, <1>5, <1>6 DEF TypeOK

(* A handler that returns leaves its request well-typed.                    *)
LEMMA FinishType ==
  ASSUME TypeOK, NEW r \in Rpcs, Finish(r)
  PROVE  RequestType' /\ pc' = [pc EXCEPT ![r] = "idle"]
<1>1. down' \in [Rpcs -> BOOLEAN]
  BY Zenon DEF Finish, TypeOK, RequestType
<1>2. attempt' \in [Rpcs -> 0 .. MaxAttempts]
  BY DEF Finish, TypeOK, RequestType, MaxAttempts
<1>3. call' \in [Rpcs -> Children \union {NoChild}]
  BY DEF Finish, TypeOK, RequestType
<1> QED  BY <1>1, <1>2, <1>3 DEF RequestType, Finish, Goto

(* The return from startLocked to any of its three callers keeps the        *)
(* control, the locks and the requests well-typed.                          *)
LEMMA StartReturnsType ==
  ASSUME TypeOK, NEW p \in Starters, NEW ok \in BOOLEAN, StartReturns(p, ok)
  PROVE  ControlType' /\ LockType' /\ RequestType'
<1> USE DEF TypeOK, ControlType, LockType
<1>1. LockType'
  BY ProcsAssumption DEF StartReturns, UnlockInflight, inflight, Starters
<1>2. RequestType'
  <2>1. ASSUME UNCHANGED request PROVE RequestType'
    BY <2>1 DEF request, RequestType
  <2> QED  BY <2>1, FinishType DEF StartReturns, Starters
<1>3. target' \in [Procs -> Children \union {NoChild}]
  BY DEF StartReturns
<1>4. PICK l \in {"serve", "stp_announce", "emb_rlock", "idle"} :
        /\ pc' = [pc EXCEPT ![p] = l]
        /\ p = Main => l \in {"serve", "stp_announce"}
        /\ p # Main => l \in {"emb_rlock", "idle"}
  BY DEF StartReturns, Finish, Goto
<1> QED
  BY <1>1, <1>2, <1>3, <1>4, ProcsAssumption
  DEF Starters, Procs, Stoppers, Locations, RpcAt, StartAt, StopAt, MainAt,
      TickerAt, MonitorAt

(* Every step keeps the variables in their types.                           *)
LEMMA TypeNext == TypeOK /\ [Next]_vars => TypeOK'
<1> SUFFICES ASSUME TypeOK, [Next]_vars PROVE TypeOK'
  OBVIOUS
<1> USE ProcsAssumption, ChildrenAssumption
<1> USE DEF TypeOK, ControlType, LockType, SlotType, KidsType, RequestType,
            WorldType, Procs, Starters, Stoppers, MaxAttempts, ChildStatus,
            Why, Reports, Locations, RpcAt, StartAt, StopAt, MainAt, TickerAt,
            MonitorAt, At, Goto, locks, inflight, slot, fields, backend,
            kids, request, world, outside
<1>1. ASSUME NEW r \in Rpcs, Arrive(r)
      PROVE  TypeOK'
  BY <1>1 DEF Arrive
<1>2. ASSUME NEW r \in Rpcs, EnsureRefused(r)
      PROVE  TypeOK'
  <2>1. RequestType' /\ pc' = [pc EXCEPT ![r] = "idle"]
    BY <1>2, FinishType DEF EnsureRefused
  <2> QED  BY <1>2, <2>1 DEF EnsureRefused
<1>3. ASSUME NEW r \in Rpcs, EnsureLock(r)
      PROVE  TypeOK'
  <2>1. down' = [down EXCEPT ![r] = FALSE]
    BY <1>3 DEF EnsureLock
  <2>2. down' \in [Rpcs -> BOOLEAN]
    BY <2>1, Zenon
  <2> QED  BY <1>3, <2>2 DEF EnsureLock
<1>4. ASSUME NEW r \in Rpcs, EnsureCmd(r)
      PROVE  TypeOK'
  BY <1>4 DEF EnsureCmd, Step
<1>5. ASSUME NEW r \in Rpcs, EnsureProbe(r)
      PROVE  TypeOK'
  BY <1>5 DEF EnsureProbe
<1>6. ASSUME NEW r \in Rpcs, EnsureRecent(r)
      PROVE  TypeOK'
  BY <1>6 DEF EnsureRecent
<1>7. ASSUME NEW r \in Rpcs, RestartLock(r)
      PROVE  TypeOK'
  BY <1>7 DEF RestartLock
<1>8. ASSUME NEW r \in Rpcs, RestartProbe(r)
      PROVE  TypeOK'
  BY <1>8 DEF RestartProbe
<1>9. ASSUME NEW r \in Rpcs, RestartAnnounce(r)
      PROVE  TypeOK'
  BY <1>9 DEF RestartAnnounce, Announce
<1>10. ASSUME NEW r \in Rpcs, RestartDrain(r)
      PROVE  TypeOK'
  BY <1>10 DEF RestartDrain, Drain
<1>11. ASSUME NEW r \in Rpcs, RestartLifecycle(r)
      PROVE  TypeOK'
  BY <1>11 DEF RestartLifecycle
<1>12. ASSUME NEW r \in Rpcs, RestartVerdict(r)
      PROVE  TypeOK'
  BY <1>12 DEF RestartVerdict, UnlockInflight
<1>13. ASSUME NEW r \in Rpcs, RestartStop(r)
      PROVE  TypeOK'
  BY <1>13 DEF RestartStop, StopLocked, Signal
<1>14. ASSUME NEW r \in Rpcs, RestartWait(r)
      PROVE  TypeOK'
  BY <1>14 DEF RestartWait
<1>15. ASSUME NEW r \in Rpcs, EmbedNothing(r)
      PROVE  TypeOK'
  <2>1. RequestType' /\ pc' = [pc EXCEPT ![r] = "idle"]
    BY <1>15, FinishType DEF EmbedNothing
  <2> QED  BY <1>15, <2>1 DEF EmbedNothing
<1>16. ASSUME NEW r \in Rpcs, EmbedRLock(r)
      PROVE  TypeOK'
  BY <1>16 DEF EmbedRLock
<1>17. ASSUME NEW r \in Rpcs, EmbedCall(r)
      PROVE  TypeOK'
  BY <1>17 DEF EmbedCall
<1>18. ASSUME NEW r \in Rpcs, EmbedRetry(r)
      PROVE  TypeOK'
  BY <1>18 DEF EmbedRetry, RUnlock
<1>19. ASSUME NEW r \in Rpcs, EmbedExhausted(r)
      PROVE  TypeOK'
  <2>1. RequestType' /\ pc' = [pc EXCEPT ![r] = "idle"]
    BY <1>19, FinishType DEF EmbedExhausted
  <2> QED  BY <1>19, <2>1 DEF EmbedExhausted, RUnlock
<1>20. ASSUME NEW r \in Rpcs, EmbedSucceeds(r)
      PROVE  TypeOK'
  <2>1. RequestType' /\ pc' = [pc EXCEPT ![r] = "idle"]
    BY <1>20, FinishType DEF EmbedSucceeds
  <2>2. recent' \in BOOLEAN
    BY <1>20, Zenon DEF EmbedSucceeds
  <2> QED  BY <1>20, <2>1, <2>2 DEF EmbedSucceeds, RUnlock
<1>21. ASSUME NEW r \in Rpcs, EmbedFails(r)
      PROVE  TypeOK'
  <2>1. RequestType' /\ pc' = [pc EXCEPT ![r] = "idle"]
    BY <1>21, FinishType DEF EmbedFails
  <2> QED  BY <1>21, <2>1 DEF EmbedFails, RUnlock
<1>22. ASSUME NEW p \in Starters, NEW c \in Children, StartChild(p, c)
      PROVE  TypeOK'
  BY <1>22 DEF StartChild
<1>23. ASSUME NEW p \in Starters, StartPublish(p)
      PROVE  TypeOK'
  BY <1>23 DEF StartPublish
<1>24. ASSUME NEW p \in Starters, StartFails(p)
      PROVE  TypeOK'
  <2>1. ControlType' /\ LockType' /\ RequestType'
    BY <1>24, StartReturnsType DEF StartFails
  <2> QED  BY <1>24, <2>1 DEF StartFails
<1>25. ASSUME NEW p \in Starters, StartPort(p)
      PROVE  TypeOK'
  BY <1>25 DEF StartPort
<1>26. ASSUME NEW p \in Starters, StartHealthy(p)
      PROVE  TypeOK'
  <2>1. ControlType' /\ LockType' /\ RequestType'
    BY <1>26, StartReturnsType DEF StartHealthy
  <2>2. recent' \in BOOLEAN
    BY <1>26, Zenon DEF StartHealthy
  <2> QED  BY <1>26, <2>1, <2>2 DEF StartHealthy
<1>27. ASSUME NEW p \in Starters, StartUnhealthy(p)
      PROVE  TypeOK'
  BY <1>27 DEF StartUnhealthy
<1>28. ASSUME NEW p \in Starters, StartAbort(p)
      PROVE  TypeOK'
  BY <1>28 DEF StartAbort, Signal
<1>29. ASSUME NEW p \in Starters, StartAbortNothing(p)
      PROVE  TypeOK'
  <2>1. ControlType' /\ LockType' /\ RequestType'
    BY <1>29, StartReturnsType DEF StartAbortNothing
  <2> QED  BY <1>29, <2>1 DEF StartAbortNothing
<1>30. ASSUME NEW p \in Starters, StartReap(p)
      PROVE  TypeOK'
  <2>1. ControlType' /\ LockType' /\ RequestType'
    BY <1>30, StartReturnsType DEF StartReap
  <2> QED  BY <1>30, <2>1 DEF StartReap
<1>31. ASSUME NEW p \in Stoppers, StopAnnounce(p)
      PROVE  TypeOK'
  BY <1>31 DEF StopAnnounce, Announce
<1>32. ASSUME NEW p \in Stoppers, StopDrain(p)
      PROVE  TypeOK'
  BY <1>32 DEF StopDrain, Drain
<1>33. ASSUME NEW p \in Stoppers, StopLifecycle(p)
      PROVE  TypeOK'
  <2>1. wasRunning' \in BOOLEAN
    BY <1>33, Zenon DEF StopLifecycle
  <2> QED  BY <1>33, <2>1 DEF StopLifecycle
<1>34. ASSUME NEW p \in Stoppers, StopSignal(p)
      PROVE  TypeOK'
  BY <1>34 DEF StopSignal, StopLocked, Signal
<1>35. ASSUME NEW p \in Stoppers, StopWait(p)
      PROVE  TypeOK'
  BY <1>35 DEF StopWait
<1>36. ASSUME NEW p \in Stoppers, StopReturn(p)
      PROVE  TypeOK'
  <2>1. wasRunning' \in BOOLEAN
    BY <1>36, Zenon DEF StopReturn, UnlockInflight
  <2> QED  BY <1>36, <2>1 DEF StopReturn, UnlockInflight
<1>37. ASSUME Boot
      PROVE  TypeOK'
  BY <1>37 DEF Boot
<1>38. ASSUME ShutdownBegins
      PROVE  TypeOK'
  BY <1>38 DEF ShutdownBegins, Step
<1>39. ASSUME Drained
      PROVE  TypeOK'
  BY <1>39 DEF Drained
<1>40. ASSUME Exit
      PROVE  TypeOK'
  BY <1>40 DEF Exit, Step
<1>41. ASSUME NEW t \in Tickers, TickerStarts(t)
      PROVE  TypeOK'
  BY <1>41 DEF TickerStarts
<1>42. ASSUME NEW t \in Tickers, Tick(t)
      PROVE  TypeOK'
  BY <1>42 DEF Tick
<1>43. ASSUME NEW t \in Tickers, TickProbe(t)
      PROVE  TypeOK'
  <2>1. recent' \in BOOLEAN
    BY <1>43, Zenon DEF TickProbe
  <2> QED  BY <1>43, <2>1 DEF TickProbe
<1>44. ASSUME NEW m \in Monitors, ServingRead(m)
      PROVE  TypeOK'
  BY <1>44 DEF ServingRead, Report
<1>45. ASSUME NEW m \in Monitors, ServingProbe(m)
      PROVE  TypeOK'
  <2>1. recent' \in BOOLEAN
    BY <1>45, Zenon DEF ServingProbe, Report
  <2> QED  BY <1>45, <2>1 DEF ServingProbe, Report
<1>46. ASSUME NEW m \in Monitors, ServingRecent(m)
      PROVE  TypeOK'
  BY <1>46 DEF ServingRecent, Report
<1>47. ASSUME NEW c \in Children, WatchClear(c)
      PROVE  TypeOK'
  <2>1. down' \in [Rpcs -> BOOLEAN]
    <3>1. CASE cmd = c
      <4>1. down' = [r \in Rpcs |-> attempt[r] # 0]
        BY <1>47, <3>1 DEF WatchClear
      <4>2. \A r \in Rpcs : (attempt[r] # 0) \in BOOLEAN
        OBVIOUS
      <4> QED  BY <4>1, <4>2, Zenon
    <3>2. CASE cmd # c
      BY <1>47, <3>2 DEF WatchClear
    <3> QED  BY <3>1, <3>2
  <2> QED  BY <1>47, <2>1 DEF WatchClear
<1>48. ASSUME NEW c \in Children, WatchDone(c)
      PROVE  TypeOK'
  BY <1>48 DEF WatchDone
<1>49. ASSUME NEW c \in Children, ChildAnnounces(c)
      PROVE  TypeOK'
  BY <1>49 DEF ChildAnnounces, ChildMoves
<1>50. ASSUME NEW c \in Children, ChildWedges(c)
      PROVE  TypeOK'
  BY <1>50 DEF ChildWedges, ChildMoves
<1>51. ASSUME NEW c \in Children, ChildRecovers(c)
      PROVE  TypeOK'
  BY <1>51 DEF ChildRecovers, ChildMoves
<1>52. ASSUME NEW c \in Children, ChildExits(c)
      PROVE  TypeOK'
  BY <1>52 DEF ChildExits, ChildMoves
<1>53. ASSUME GraceExpires
      PROVE  TypeOK'
  <2>1. recent' \in BOOLEAN
    BY <1>53, Zenon DEF GraceExpires
  <2> QED  BY <1>53, <2>1 DEF GraceExpires
<1>54. ASSUME Evict
      PROVE  TypeOK'
  <2>1. ctxDone' \in BOOLEAN
    BY <1>54, Zenon DEF Evict
  <2> QED  BY <1>54, <2>1 DEF Evict
<1>55. ASSUME UNCHANGED vars
      PROVE  TypeOK'
  BY <1>55 DEF vars
<1> QED
  BY <1>1, <1>2, <1>3, <1>4, <1>5, <1>6, <1>7, <1>8, <1>9, <1>10, <1>11,
     <1>12, <1>13, <1>14, <1>15, <1>16, <1>17, <1>18, <1>19, <1>20, <1>21,
     <1>22, <1>23, <1>24, <1>25, <1>26, <1>27, <1>28, <1>29, <1>30, <1>31,
     <1>32, <1>33, <1>34, <1>35, <1>36, <1>37, <1>38, <1>39, <1>40, <1>41,
     <1>42, <1>43, <1>44, <1>45, <1>46, <1>47, <1>48, <1>49, <1>50, <1>51,
     <1>52, <1>53, <1>54, <1>55
     DEF Next, RpcStep, StartStep, StopStep, MainStep, TickerStep, MonitorStep,
     WatcherStep, Environment, Halted

(* In every reachable state of any instance the variables have their types. *)
THEOREM TypeCorrect == Spec => []TypeOK
<1>1. Init => TypeOK
  BY TypeInit
<1>2. TypeOK /\ [Next]_vars => TypeOK'
  BY TypeNext
<1> QED  BY <1>1, <1>2, PTL DEF Spec
=============================================================================
