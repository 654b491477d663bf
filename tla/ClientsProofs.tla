--------------------------- MODULE ClientsProofs ----------------------------
(***************************************************************************)
(* Proofs about Clients, for any number of processes, calls and daemons.   *)
(***************************************************************************)
EXTENDS Clients, TLAPS

Ensuring == {"probe", "open", "wait"} \union Launching

(* How manieth request a thread is at, by where it is.                      *)
StageInv ==
    \A t \in Threads :
        /\ pc[t] \in Ensuring => try[t] = IF t \in Calls THEN 2 ELSE 1
        /\ pc[t] = "reconnect" => t \in Calls /\ try[t] = 2
        /\ pc[t] \in {"off", "lock"} => try[t] = 1
        /\ pc[t] = "lock" => t \in Calls
        /\ t \in Procs => try[t] # 2

(* Connect is over when its Client is there, and calls need the Client.     *)
OpenInv ==
    /\ \A p \in open : pc[p] = "done"
    /\ \A c \in Calls : pc[c] \notin {"off", "done"} => Owner[c] \in open
    /\ \A t \in Threads : pc[t] = "answer" => at[t] \in Daemons

MuInv ==
    \A p \in Procs, c \in Calls : mu[p] = c <=> Locking(c) /\ Owner[c] = p

FlockInv ==
    \A t \in Threads, g \in 0 .. MaxEvents :
        holder[g] = t <=> pc[t] \in Launching /\ lfd[t] = g

(* Nobody is connected to a dead daemon, and none answers at the path.      *)
AliveInv ==
    /\ FrontIsAlive
    /\ \A p \in Procs : link[p] \in Daemons => life[link[p]] # "gone"

(* As long as no daemon ended or lost the path every Client that was made   *)
(* is connected, and no call ever sees an error that it retries on.         *)
UpInv ==
    ~outage =>
        /\ \A d \in Daemons : life[d] # "gone"
        /\ \A p \in Procs :
              p \in open \/ pc[p] = "answer" => link[p] \in Daemons
        /\ \A c \in Calls :
              /\ pc[c] \in {"off", "send", "answer", "done"}
              /\ c \in stale => Owner[c] \in closed

(* As long as only clients act there is one spawn.lock, and a daemon that   *)
(* does not listen yet is awaited by the thread that launched it.           *)
CalmInv ==
    calm =>
        /\ wipes = 0
        /\ \A t \in Threads : lfd[t] = 0
        /\ \A d \in Daemons :
              /\ life[d] # "gone"
              /\ life[d] \in {"loading", "ready"} => front = d
              /\ life[d] = "starting" =>
                    \E t \in Threads : pc[t] = "await"
        /\ \A t \in Threads :
              pc[t] = "launch" => \A d \in Daemons : life[d] = "off"
        /\ OneDaemonWhenCalm

(* A thread that EnsureDaemon served, and that saw no outage since, has a   *)
(* daemon at the path, and at the other end of its connection.              *)
ServedInv ==
    /\ \A c \in Calls : try[c] > 1 => c \notin stale
    /\ \A t \in Threads :
          Respawned(t) /\ t \notin lost =>
              /\ front \in Daemons
              /\ pc[t] = "send" => link[ProcOf(t)] \in Daemons \union {Idle}
              /\ pc[t] = "answer" => life[at[t]] # "gone"

IInv ==
    /\ TypeOK /\ StageInv /\ OpenInv /\ MuInv /\ FlockInv /\ AliveInv
    /\ UpInv /\ CalmInv /\ ServedInv

-----------------------------------------------------------------------------
(* t returns r from a request that a daemon had.                            *)
Ends(t, r) ==
    /\ Finish(t, r)
    /\ r = "canceled" => t \in stale
    /\ r = "unavailable" => life[at[t]] = "gone"

(* What a request may come to: only a call is cut, and only a missing       *)
(* daemon makes a thread retry (Respawns).                                  *)
LEMMA SendCases ==
    ASSUME TypeOK, NEW t \in Threads, Send(t)
    PROVE  \/ t \in stale /\ Finish(t, "canceled") /\ UNCHANGED link
           \/ t \notin stale /\ Reach(t)
           \/ /\ t \notin stale /\ Miss(t)
              /\ Respawns(t, "unavailable") /\ Retry(t)
           \/ t \notin stale /\ Miss(t) /\ Finish(t, "unavailable")
  <1>1. t \in stale => ~ Respawns(t, "canceled")
    BY ClientsAssumption DEF TypeOK, Respawns, Threads
  <1> QED BY <1>1 DEF Send, Miss, Outcome

(* A request that a daemon had ends, or is retried if the daemon did.       *)
LEMMA AnswerCases ==
    ASSUME TypeOK, NEW t \in Threads, Answer(t)
    PROVE  \/ life[at[t]] = "gone" /\ try[t] < 3 /\ Retry(t)
           \/ \E r \in Outcomes : Ends(t, r)
  <1>1. CASE \E r \in Served(t, life[at[t]]) : Outcome(t, r)
    <2>1. PICK r \in Served(t, life[at[t]]) : Outcome(t, r)
      BY <1>1
    <2>2. r \in {"ok", "refused"} /\ ~ Respawns(t, r)
      BY <2>1, ClientsAssumption DEF Served, Respawns, Threads
    <2> QED BY <2>1, <2>2 DEF Outcome, Ends, Outcomes, Threads
  <1>2. CASE life[at[t]] = "gone" /\ Outcome(t, "unavailable")
    <2>1. CASE Respawns(t, "unavailable")
      BY <1>2, <2>1 DEF Outcome, Respawns
    <2>2. CASE ~ Respawns(t, "unavailable")
      BY <1>2, <2>2 DEF Outcome, Ends, Outcomes, Failures
    <2> QED BY <2>1, <2>2
  <1>3. CASE t \in stale /\ Outcome(t, "canceled")
    <2>1. ~ Respawns(t, "canceled")
      BY <1>3, ClientsAssumption DEF TypeOK, Respawns, Threads
    <2> QED BY <1>3, <2>1 DEF Outcome, Ends, Outcomes, Failures
  <1> QED BY <1>1, <1>2, <1>3 DEF Answer

(* The histories stay Booleans.                                             *)
LEMMA HistoryStep ==
    ASSUME TypeOK, [Next]_vars
    PROVE  HistoryTypeOK'
  <1>1. ASSUME NEW t \in Threads, BeginCall(t)
      PROVE  HistoryTypeOK'
    BY <1>1 DEF BeginCall, Goto, locks, endpoint, setup, environment,
      history, TypeOK, HistoryTypeOK
  <1>2. ASSUME NEW t \in Threads, Send(t)
      PROVE  HistoryTypeOK'
    <2>0. /\ pc[t] = "send"
          /\ UNCHANGED <<endpoint, noSpawn, closed, environment, history>>
      BY <1>2 DEF Send
    <2>1. CASE t \in stale /\ Finish(t, "canceled") /\ UNCHANGED link
      BY <2>0, <2>1 DEF Finish, Return, Over, endpoint, setup, environment,
        history, TypeOK, HistoryTypeOK
    <2>2. CASE t \notin stale /\ Reach(t)
      BY <2>0, <2>2 DEF Reach, locks, endpoint, setup, environment, history,
        TypeOK, HistoryTypeOK
    <2>3. CASE t \notin stale /\ Miss(t) /\ Respawns(t, "unavailable") /\
      Retry(t)
      BY <2>0, <2>3 DEF Miss, Respawns, Retry, locks, endpoint, setup,
        environment, history, TypeOK, HistoryTypeOK
    <2>4. CASE t \notin stale /\ Miss(t) /\ Finish(t, "unavailable")
      BY <2>0, <2>4 DEF Miss, Finish, Return, Over, endpoint, setup,
        environment, history, TypeOK, HistoryTypeOK
    <2> QED BY <1>2, <2>1, <2>2, <2>3, <2>4, SendCases
  <1>3. ASSUME NEW t \in Threads, Answer(t)
      PROVE  HistoryTypeOK'
    <2>0. /\ pc[t] = "answer"
          /\ UNCHANGED <<endpoint, noSpawn, closed, link, environment, history>>
      BY <1>3 DEF Answer
    <2>1. CASE life[at[t]] = "gone" /\ try[t] < 3 /\ Retry(t)
      BY <2>0, <2>1 DEF Retry, locks, endpoint, setup, environment, history,
        TypeOK, HistoryTypeOK
    <2>2. CASE \E r \in Outcomes : Ends(t, r)
      BY <2>0, <2>2 DEF Ends, Finish, Return, Over, endpoint, setup,
        environment, history, TypeOK, HistoryTypeOK
    <2> QED BY <1>3, <2>1, <2>2, AnswerCases
  <1>4. ASSUME NEW t \in Threads, Probe(t)
      PROVE  HistoryTypeOK'
    <2>0. /\ pc[t] = "probe"
          /\ UNCHANGED <<endpoint, setup, environment, history>>
      BY <1>4 DEF Probe
    <2>1. CASE Ensured(t)
      <3>1. CASE ConnectAnew(t)
        BY <2>0, <2>1, <3>1 DEF Ensured, endpoint, setup, environment,
          history, TypeOK, HistoryTypeOK, ConnectAnew
      <3>2. CASE GoReconnect(t)
        BY <2>0, <2>1, <3>2 DEF Ensured, endpoint, setup, environment,
          history, TypeOK, HistoryTypeOK, GoReconnect
      <3> QED BY <2>1, <3>1, <3>2 DEF Ensured
    <2>2. CASE front = File /\ NotEnsured(t)
      BY <2>0, <2>2 DEF NotEnsured, Return, Over, endpoint, setup,
        environment, history, TypeOK, HistoryTypeOK
    <2>3. CASE Absent(t, "open")
      BY <2>0, <2>3 DEF Absent, locks, endpoint, setup, environment, history,
        TypeOK, HistoryTypeOK
    <2> QED BY <1>4, <2>1, <2>2, <2>3 DEF Probe, Probed
  <1>5. ASSUME NEW t \in Threads, OpenLock(t)
      PROVE  HistoryTypeOK'
    BY <1>5 DEF OpenLock, Goto, locks, endpoint, setup, environment, history,
      TypeOK, HistoryTypeOK
  <1>6. ASSUME NEW t \in Threads, AcquireLock(t)
      PROVE  HistoryTypeOK'
    BY <1>6 DEF AcquireLock, Goto, endpoint, setup, environment, history,
      TypeOK, HistoryTypeOK
  <1>7. ASSUME NEW t \in Threads, LockTimeout(t)
      PROVE  HistoryTypeOK'
    BY <1>7 DEF LockTimeout, NotEnsured, Return, Over, endpoint, setup,
      environment, history, TypeOK, HistoryTypeOK
  <1>8. ASSUME NEW t \in Threads, Recheck(t)
      PROVE  HistoryTypeOK'
    <2>0. /\ pc[t] = "recheck"
          /\ UNCHANGED <<endpoint, setup, environment, history>>
      BY <1>8 DEF Recheck
    <2>1. CASE Ensured(t)
      <3>1. CASE ConnectAnew(t)
        BY <2>0, <2>1, <3>1 DEF Ensured, endpoint, setup, environment,
          history, TypeOK, HistoryTypeOK, ConnectAnew
      <3>2. CASE GoReconnect(t)
        BY <2>0, <2>1, <3>2 DEF Ensured, endpoint, setup, environment,
          history, TypeOK, HistoryTypeOK, GoReconnect
      <3> QED BY <2>1, <3>1, <3>2 DEF Ensured
    <2>2. CASE front = File /\ NotEnsured(t)
      BY <2>0, <2>2 DEF NotEnsured, Return, Over, endpoint, setup,
        environment, history, TypeOK, HistoryTypeOK
    <2>3. CASE Absent(t, "launch")
      BY <2>0, <2>3 DEF Absent, locks, endpoint, setup, environment, history,
        TypeOK, HistoryTypeOK
    <2> QED BY <1>8, <2>1, <2>2, <2>3 DEF Recheck, Probed
  <1>9. ASSUME NEW t \in Threads, NEW d \in Daemons, Launch(t, d)
      PROVE  HistoryTypeOK'
    BY <1>9 DEF Launch, Goto, Begin, Turn, setup, locks, environment,
      history, TypeOK, HistoryTypeOK
  <1>10. ASSUME NEW t \in Threads, LaunchFails(t)
      PROVE  HistoryTypeOK'
    BY <1>10 DEF LaunchFails, NotEnsured, Return, Over, endpoint, setup,
      environment, history, TypeOK, HistoryTypeOK
  <1>11. ASSUME NEW t \in Threads, AwaitReady(t)
      PROVE  HistoryTypeOK'
    <2>1. CASE ConnectAnew(t)
      BY <1>11, <2>1 DEF AwaitReady, Ensured, endpoint, setup, environment,
        history, TypeOK, HistoryTypeOK, ConnectAnew
    <2>2. CASE GoReconnect(t)
      BY <1>11, <2>2 DEF AwaitReady, Ensured, endpoint, setup, environment,
        history, TypeOK, HistoryTypeOK, GoReconnect
    <2> QED BY <1>11, <2>1, <2>2 DEF AwaitReady, Ensured
  <1>12. ASSUME NEW t \in Threads, AwaitTimeout(t)
      PROVE  HistoryTypeOK'
    BY <1>12 DEF AwaitTimeout, NotEnsured, Return, Over, endpoint, setup,
      environment, TypeOK, HistoryTypeOK
  <1>13. ASSUME NEW c \in Calls, TakeMu(c)
      PROVE  HistoryTypeOK'
    BY <1>13 DEF TakeMu, Goto, endpoint, setup, environment, history, TypeOK,
      HistoryTypeOK
  <1>14. ASSUME NEW c \in Calls, Reconnect(c)
      PROVE  HistoryTypeOK'
    BY <1>14 DEF Reconnect, Goto, locks, endpoint, setup, environment,
      history, TypeOK, HistoryTypeOK
  <1>15. ASSUME NEW p \in Procs, Redial(p)
      PROVE  HistoryTypeOK'
    BY <1>15 DEF Redial, threads, locks, endpoint, setup, environment,
      history, TypeOK, HistoryTypeOK
  <1>16. ASSUME NEW p \in Procs, Close(p)
      PROVE  HistoryTypeOK'
    BY <1>16 DEF Close, endpoint, threads, locks, environment, history,
      TypeOK, HistoryTypeOK
  <1>17. ASSUME NEW p \in Procs, Crash(p)
      PROVE  HistoryTypeOK'
    BY <1>17 DEF Crash, Event, Over, endpoint, setup, TypeOK, HistoryTypeOK
  <1>18. ASSUME NEW d \in Daemons, DaemonAdvances(d)
      PROVE  HistoryTypeOK'
    BY <1>18 DEF DaemonAdvances, Listen, Ready, Turn, setup, threads, locks,
      environment, history, TypeOK, HistoryTypeOK
  <1>19. ASSUME NEW d \in Daemons, StartDirectly(d)
      PROVE  HistoryTypeOK'
    BY <1>19 DEF StartDirectly, Begin, Turn, Event, setup, threads, locks,
      TypeOK, HistoryTypeOK
  <1>20. ASSUME NEW d \in Daemons, DaemonEnds(d)
      PROVE  HistoryTypeOK'
    BY <1>20 DEF DaemonEnds, End, Turn, Outage, setup, locks, environment,
      TypeOK, HistoryTypeOK
  <1>21. CASE PathLost
    BY <1>21 DEF PathLost, Lose, Event, Outage, setup, locks, TypeOK,
      HistoryTypeOK
  <1>22. CASE Wipe
    BY <1>22 DEF Wipe, Event, Outage, setup, locks, TypeOK, HistoryTypeOK
  <1>23. CASE UNCHANGED vars
    BY <1>23 DEF vars, threads, locks, endpoint, setup, environment, history,
      TypeOK, HistoryTypeOK
  <1> QED BY <1>1, <1>2, <1>3, <1>4, <1>5, <1>6, <1>7, <1>8, <1>9, <1>10,
    <1>11, <1>12, <1>13, <1>14, <1>15, <1>16, <1>17, <1>18, <1>19, <1>20,
    <1>21, <1>22, <1>23, ClientsAssumption DEF Next, Step, Ensure, Threads

(* Every step keeps the types.                                              *)
LEMMA TypeStep ==
    ASSUME TypeOK, OpenInv, HistoryTypeOK', [Next]_vars
    PROVE  TypeOK'
  <1>1. ASSUME NEW t \in Threads, BeginCall(t)
      PROVE  TypeOK'
    BY <1>1, ClientsAssumption, EndpointAssumption DEF BeginCall, Goto,
      locks, endpoint, setup, environment, history, TypeOK, EndpointTypeOK,
      OpenInv, Threads, ProcOf, Target, Lives, Places, Outcomes, Failures,
      Launching
  <1>2. ASSUME NEW t \in Threads, Send(t)
      PROVE  TypeOK'
    <2>0. /\ pc[t] = "send"
          /\ UNCHANGED <<endpoint, noSpawn, closed, environment, history>>
      BY <1>2 DEF Send
    <2>1. CASE t \in stale /\ Finish(t, "canceled") /\ UNCHANGED link
      BY <2>0, <2>1, ClientsAssumption, EndpointAssumption DEF Finish,
        Return, Over, endpoint, setup, environment, history, TypeOK,
        EndpointTypeOK, OpenInv, Threads, ProcOf, Target, Lives, Places,
        Outcomes, Failures, Launching
    <2>2. CASE t \notin stale /\ Reach(t)
      BY <2>0, <2>2, ClientsAssumption, EndpointAssumption DEF Reach, locks,
        endpoint, setup, environment, history, TypeOK, EndpointTypeOK,
        OpenInv, Threads, ProcOf, Target, Lives, Places, Outcomes, Failures,
        Launching
    <2>3. CASE t \notin stale /\ Miss(t) /\ Respawns(t, "unavailable") /\
      Retry(t)
      BY <2>0, <2>3, ClientsAssumption, EndpointAssumption DEF Miss,
        Respawns, Retry, locks, endpoint, setup, environment, history,
        TypeOK, EndpointTypeOK, OpenInv, Threads, ProcOf, Target, Lives,
        Places, Outcomes, Failures, Launching
    <2>4. CASE t \notin stale /\ Miss(t) /\ Finish(t, "unavailable")
      BY <2>0, <2>4, ClientsAssumption, EndpointAssumption DEF Miss, Finish,
        Return, Over, endpoint, setup, environment, history, TypeOK,
        EndpointTypeOK, OpenInv, Threads, ProcOf, Target, Lives, Places,
        Outcomes, Failures, Launching
    <2> QED BY <1>2, <2>1, <2>2, <2>3, <2>4, SendCases
  <1>3. ASSUME NEW t \in Threads, Answer(t)
      PROVE  TypeOK'
    <2>0. /\ pc[t] = "answer"
          /\ UNCHANGED <<endpoint, noSpawn, closed, link, environment, history>>
      BY <1>3 DEF Answer
    <2>1. CASE life[at[t]] = "gone" /\ try[t] < 3 /\ Retry(t)
      BY <2>0, <2>1, ClientsAssumption, EndpointAssumption DEF Retry, locks,
        endpoint, setup, environment, history, TypeOK, EndpointTypeOK,
        OpenInv, Threads, ProcOf, Target, Lives, Places, Outcomes, Failures,
        Launching
    <2>2. CASE \E r \in Outcomes : Ends(t, r)
      BY <2>0, <2>2, ClientsAssumption, EndpointAssumption DEF Ends, Finish,
        Return, Over, endpoint, setup, environment, history, TypeOK,
        EndpointTypeOK, OpenInv, Threads, ProcOf, Target, Lives, Places,
        Outcomes, Failures, Launching
    <2> QED BY <1>3, <2>1, <2>2, AnswerCases
  <1>4. ASSUME NEW t \in Threads, Probe(t)
      PROVE  TypeOK'
    <2>0. /\ pc[t] = "probe"
          /\ UNCHANGED <<endpoint, setup, environment, history>>
      BY <1>4 DEF Probe
    <2>1. CASE Ensured(t)
      <3>1. CASE ConnectAnew(t)
        BY <2>0, <2>1, ClientsAssumption, EndpointAssumption, <3>1 DEF
          Ensured, endpoint, setup, environment, history, TypeOK,
          EndpointTypeOK, OpenInv, Threads, ProcOf, Target, Lives, Places,
          Outcomes, Failures, Launching, ConnectAnew
      <3>2. CASE GoReconnect(t)
        BY <2>0, <2>1, ClientsAssumption, EndpointAssumption, <3>2 DEF
          Ensured, endpoint, setup, environment, history, TypeOK,
          EndpointTypeOK, OpenInv, Threads, ProcOf, Target, Lives, Places,
          Outcomes, Failures, Launching, GoReconnect
      <3> QED BY <2>1, <3>1, <3>2 DEF Ensured
    <2>2. CASE front = File /\ NotEnsured(t)
      BY <2>0, <2>2, ClientsAssumption, EndpointAssumption DEF NotEnsured,
        Return, Over, endpoint, setup, environment, history, TypeOK,
        EndpointTypeOK, OpenInv, Threads, ProcOf, Target, Lives, Places,
        Outcomes, Failures, Launching
    <2>3. CASE Absent(t, "open")
      BY <2>0, <2>3, ClientsAssumption, EndpointAssumption DEF Absent, locks,
        endpoint, setup, environment, history, TypeOK, EndpointTypeOK,
        OpenInv, Threads, ProcOf, Target, Lives, Places, Outcomes, Failures,
        Launching
    <2> QED BY <1>4, <2>1, <2>2, <2>3 DEF Probe, Probed
  <1>5. ASSUME NEW t \in Threads, OpenLock(t)
      PROVE  TypeOK'
    BY <1>5, ClientsAssumption, EndpointAssumption DEF OpenLock, Goto, locks,
      endpoint, setup, environment, history, TypeOK, EndpointTypeOK, OpenInv,
      Threads, ProcOf, Target, Lives, Places, Outcomes, Failures, Launching
  <1>6. ASSUME NEW t \in Threads, AcquireLock(t)
      PROVE  TypeOK'
    BY <1>6, ClientsAssumption, EndpointAssumption DEF AcquireLock, Goto,
      endpoint, setup, environment, history, TypeOK, EndpointTypeOK, OpenInv,
      Threads, ProcOf, Target, Lives, Places, Outcomes, Failures, Launching
  <1>7. ASSUME NEW t \in Threads, LockTimeout(t)
      PROVE  TypeOK'
    BY <1>7, ClientsAssumption, EndpointAssumption DEF LockTimeout,
      NotEnsured, Return, Over, endpoint, setup, environment, history,
      TypeOK, EndpointTypeOK, OpenInv, Threads, ProcOf, Target, Lives,
      Places, Outcomes, Failures, Launching
  <1>8. ASSUME NEW t \in Threads, Recheck(t)
      PROVE  TypeOK'
    <2>0. /\ pc[t] = "recheck"
          /\ UNCHANGED <<endpoint, setup, environment, history>>
      BY <1>8 DEF Recheck
    <2>1. CASE Ensured(t)
      <3>1. CASE ConnectAnew(t)
        BY <2>0, <2>1, ClientsAssumption, EndpointAssumption, <3>1 DEF
          Ensured, endpoint, setup, environment, history, TypeOK,
          EndpointTypeOK, OpenInv, Threads, ProcOf, Target, Lives, Places,
          Outcomes, Failures, Launching, ConnectAnew
      <3>2. CASE GoReconnect(t)
        BY <2>0, <2>1, ClientsAssumption, EndpointAssumption, <3>2 DEF
          Ensured, endpoint, setup, environment, history, TypeOK,
          EndpointTypeOK, OpenInv, Threads, ProcOf, Target, Lives, Places,
          Outcomes, Failures, Launching, GoReconnect
      <3> QED BY <2>1, <3>1, <3>2 DEF Ensured
    <2>2. CASE front = File /\ NotEnsured(t)
      BY <2>0, <2>2, ClientsAssumption, EndpointAssumption DEF NotEnsured,
        Return, Over, endpoint, setup, environment, history, TypeOK,
        EndpointTypeOK, OpenInv, Threads, ProcOf, Target, Lives, Places,
        Outcomes, Failures, Launching
    <2>3. CASE Absent(t, "launch")
      BY <2>0, <2>3, ClientsAssumption, EndpointAssumption DEF Absent, locks,
        endpoint, setup, environment, history, TypeOK, EndpointTypeOK,
        OpenInv, Threads, ProcOf, Target, Lives, Places, Outcomes, Failures,
        Launching
    <2> QED BY <1>8, <2>1, <2>2, <2>3 DEF Recheck, Probed
  <1>9. ASSUME NEW t \in Threads, NEW d \in Daemons, Launch(t, d)
      PROVE  TypeOK'
    BY <1>9, ClientsAssumption, EndpointAssumption DEF Launch, Goto, Begin,
      Turn, setup, locks, environment, history, TypeOK, EndpointTypeOK,
      OpenInv, Threads, ProcOf, Target, Lives, Places, Outcomes, Failures,
      Launching
  <1>10. ASSUME NEW t \in Threads, LaunchFails(t)
      PROVE  TypeOK'
    BY <1>10, ClientsAssumption, EndpointAssumption DEF LaunchFails,
      NotEnsured, Return, Over, endpoint, setup, environment, history,
      TypeOK, EndpointTypeOK, OpenInv, Threads, ProcOf, Target, Lives,
      Places, Outcomes, Failures, Launching
  <1>11. ASSUME NEW t \in Threads, AwaitReady(t)
      PROVE  TypeOK'
    <2>1. CASE ConnectAnew(t)
      BY <1>11, ClientsAssumption, EndpointAssumption, <2>1 DEF AwaitReady,
        Ensured, endpoint, setup, environment, history, TypeOK,
        EndpointTypeOK, OpenInv, Threads, ProcOf, Target, Lives, Places,
        Outcomes, Failures, Launching, ConnectAnew
    <2>2. CASE GoReconnect(t)
      BY <1>11, ClientsAssumption, EndpointAssumption, <2>2 DEF AwaitReady,
        Ensured, endpoint, setup, environment, history, TypeOK,
        EndpointTypeOK, OpenInv, Threads, ProcOf, Target, Lives, Places,
        Outcomes, Failures, Launching, GoReconnect
    <2> QED BY <1>11, <2>1, <2>2 DEF AwaitReady, Ensured
  <1>12. ASSUME NEW t \in Threads, AwaitTimeout(t)
      PROVE  TypeOK'
    BY <1>12, ClientsAssumption, EndpointAssumption DEF AwaitTimeout,
      NotEnsured, Return, Over, endpoint, setup, environment, TypeOK,
      EndpointTypeOK, OpenInv, Threads, ProcOf, Target, Lives, Places,
      Outcomes, Failures, Launching
  <1>13. ASSUME NEW c \in Calls, TakeMu(c)
      PROVE  TypeOK'
    BY <1>13, ClientsAssumption, EndpointAssumption DEF TakeMu, Goto,
      endpoint, setup, environment, history, TypeOK, EndpointTypeOK, OpenInv,
      Threads, ProcOf, Target, Lives, Places, Outcomes, Failures, Launching
  <1>14. ASSUME NEW c \in Calls, Reconnect(c)
      PROVE  TypeOK'
    BY <1>14, ClientsAssumption, EndpointAssumption DEF Reconnect, Goto,
      locks, endpoint, setup, environment, history, TypeOK, EndpointTypeOK,
      OpenInv, Threads, ProcOf, Target, Lives, Places, Outcomes, Failures,
      Launching
  <1>15. ASSUME NEW p \in Procs, Redial(p)
      PROVE  TypeOK'
    BY <1>15, ClientsAssumption, EndpointAssumption DEF Redial, threads,
      locks, endpoint, setup, environment, history, TypeOK, EndpointTypeOK,
      OpenInv, Threads, ProcOf, Target, Lives, Places, Outcomes, Failures,
      Launching
  <1>16. ASSUME NEW p \in Procs, Close(p)
      PROVE  TypeOK'
    BY <1>16, ClientsAssumption, EndpointAssumption DEF Close, endpoint,
      threads, locks, environment, history, TypeOK, EndpointTypeOK, OpenInv,
      Threads, ProcOf, Target, Lives, Places, Outcomes, Failures, Launching
  <1>17. ASSUME NEW p \in Procs, Crash(p)
      PROVE  TypeOK'
    BY <1>17, ClientsAssumption, EndpointAssumption DEF Crash, Event, Over,
      endpoint, setup, TypeOK, EndpointTypeOK, OpenInv, Threads, ProcOf,
      Target, Lives, Places, Outcomes, Failures, Launching
  <1>18. ASSUME NEW d \in Daemons, DaemonAdvances(d)
      PROVE  TypeOK'
    BY <1>18, ClientsAssumption, EndpointAssumption DEF DaemonAdvances,
      Listen, Ready, Turn, setup, threads, locks, environment, history,
      TypeOK, EndpointTypeOK, OpenInv, Threads, ProcOf, Target, Lives,
      Places, Outcomes, Failures, Launching
  <1>19. ASSUME NEW d \in Daemons, StartDirectly(d)
      PROVE  TypeOK'
    BY <1>19, ClientsAssumption, EndpointAssumption DEF StartDirectly, Begin,
      Turn, Event, setup, threads, locks, TypeOK, EndpointTypeOK, OpenInv,
      Threads, ProcOf, Target, Lives, Places, Outcomes, Failures, Launching
  <1>20. ASSUME NEW d \in Daemons, DaemonEnds(d)
      PROVE  TypeOK'
    BY <1>20, ClientsAssumption, EndpointAssumption DEF DaemonEnds, End,
      Turn, Outage, setup, locks, environment, TypeOK, EndpointTypeOK,
      OpenInv, Threads, ProcOf, Target, Lives, Places, Outcomes, Failures,
      Launching
  <1>21. CASE PathLost
    BY <1>21, ClientsAssumption, EndpointAssumption DEF PathLost, Lose,
      Event, Outage, setup, locks, TypeOK, EndpointTypeOK, OpenInv, Threads,
      ProcOf, Target, Lives, Places, Outcomes, Failures, Launching
  <1>22. CASE Wipe
    BY <1>22, ClientsAssumption, EndpointAssumption DEF Wipe, Event, Outage,
      setup, locks, TypeOK, EndpointTypeOK, OpenInv, Threads, ProcOf, Target,
      Lives, Places, Outcomes, Failures, Launching
  <1>23. CASE UNCHANGED vars
    BY <1>23, ClientsAssumption, EndpointAssumption DEF vars, threads, locks,
      endpoint, setup, environment, history, TypeOK, EndpointTypeOK, OpenInv,
      Threads, ProcOf, Target, Lives, Places, Outcomes, Failures, Launching
  <1> QED BY <1>1, <1>2, <1>3, <1>4, <1>5, <1>6, <1>7, <1>8, <1>9, <1>10,
    <1>11, <1>12, <1>13, <1>14, <1>15, <1>16, <1>17, <1>18, <1>19, <1>20,
    <1>21, <1>22, <1>23, ClientsAssumption DEF Next, Step, Ensure, Threads

(* Every step keeps the count of a thread's requests.                       *)
LEMMA StageStep ==
    ASSUME TypeOK, StageInv, [Next]_vars
    PROVE  StageInv'
  <1>1. ASSUME NEW t \in Threads, BeginCall(t)
      PROVE  StageInv'
    BY <1>1, ClientsAssumption DEF BeginCall, Goto, locks, endpoint, setup,
      environment, history, TypeOK, StageInv, Threads, Launching, Ensuring
  <1>2. ASSUME NEW t \in Threads, Send(t)
      PROVE  StageInv'
    <2>0. /\ pc[t] = "send"
          /\ UNCHANGED <<endpoint, noSpawn, closed, environment, history>>
      BY <1>2 DEF Send
    <2>1. CASE t \in stale /\ Finish(t, "canceled") /\ UNCHANGED link
      BY <2>0, <2>1, ClientsAssumption DEF Finish, Return, Over, endpoint,
        setup, environment, history, TypeOK, StageInv, Threads, Launching,
        Ensuring
    <2>2. CASE t \notin stale /\ Reach(t)
      BY <2>0, <2>2, ClientsAssumption DEF Reach, locks, endpoint, setup,
        environment, history, TypeOK, StageInv, Threads, Launching, Ensuring
    <2>3. CASE t \notin stale /\ Miss(t) /\ Respawns(t, "unavailable") /\
      Retry(t)
      BY <2>0, <2>3, ClientsAssumption DEF Miss, Respawns, Retry, locks,
        endpoint, setup, environment, history, TypeOK, StageInv, Threads,
        Launching, Ensuring
    <2>4. CASE t \notin stale /\ Miss(t) /\ Finish(t, "unavailable")
      BY <2>0, <2>4, ClientsAssumption DEF Miss, Finish, Return, Over,
        endpoint, setup, environment, history, TypeOK, StageInv, Threads,
        Launching, Ensuring
    <2> QED BY <1>2, <2>1, <2>2, <2>3, <2>4, SendCases
  <1>3. ASSUME NEW t \in Threads, Answer(t)
      PROVE  StageInv'
    <2>0. /\ pc[t] = "answer"
          /\ UNCHANGED <<endpoint, noSpawn, closed, link, environment, history>>
      BY <1>3 DEF Answer
    <2>1. CASE life[at[t]] = "gone" /\ try[t] < 3 /\ Retry(t)
      BY <2>0, <2>1, ClientsAssumption DEF Retry, locks, endpoint, setup,
        environment, history, TypeOK, StageInv, Threads, Launching, Ensuring
    <2>2. CASE \E r \in Outcomes : Ends(t, r)
      BY <2>0, <2>2, ClientsAssumption DEF Ends, Finish, Return, Over,
        endpoint, setup, environment, history, TypeOK, StageInv, Threads,
        Launching, Ensuring
    <2> QED BY <1>3, <2>1, <2>2, AnswerCases
  <1>4. ASSUME NEW t \in Threads, Probe(t)
      PROVE  StageInv'
    <2>0. /\ pc[t] = "probe"
          /\ UNCHANGED <<endpoint, setup, environment, history>>
      BY <1>4 DEF Probe
    <2>1. CASE Ensured(t)
      <3>1. CASE ConnectAnew(t)
        BY <2>0, <2>1, ClientsAssumption, <3>1 DEF Ensured, endpoint, setup,
          environment, history, TypeOK, StageInv, Threads, Launching,
          Ensuring, ConnectAnew
      <3>2. CASE GoReconnect(t)
        BY <2>0, <2>1, ClientsAssumption, <3>2 DEF Ensured, endpoint, setup,
          environment, history, TypeOK, StageInv, Threads, Launching,
          Ensuring, GoReconnect
      <3> QED BY <2>1, <3>1, <3>2 DEF Ensured
    <2>2. CASE front = File /\ NotEnsured(t)
      BY <2>0, <2>2, ClientsAssumption DEF NotEnsured, Return, Over,
        endpoint, setup, environment, history, TypeOK, StageInv, Threads,
        Launching, Ensuring
    <2>3. CASE Absent(t, "open")
      BY <2>0, <2>3, ClientsAssumption DEF Absent, locks, endpoint, setup,
        environment, history, TypeOK, StageInv, Threads, Launching, Ensuring
    <2> QED BY <1>4, <2>1, <2>2, <2>3 DEF Probe, Probed
  <1>5. ASSUME NEW t \in Threads, OpenLock(t)
      PROVE  StageInv'
    BY <1>5, ClientsAssumption DEF OpenLock, Goto, locks, endpoint, setup,
      environment, history, TypeOK, StageInv, Threads, Launching, Ensuring
  <1>6. ASSUME NEW t \in Threads, AcquireLock(t)
      PROVE  StageInv'
    BY <1>6, ClientsAssumption DEF AcquireLock, Goto, endpoint, setup,
      environment, history, TypeOK, StageInv, Threads, Launching, Ensuring
  <1>7. ASSUME NEW t \in Threads, LockTimeout(t)
      PROVE  StageInv'
    BY <1>7, ClientsAssumption DEF LockTimeout, NotEnsured, Return, Over,
      endpoint, setup, environment, history, TypeOK, StageInv, Threads,
      Launching, Ensuring
  <1>8. ASSUME NEW t \in Threads, Recheck(t)
      PROVE  StageInv'
    <2>0. /\ pc[t] = "recheck"
          /\ UNCHANGED <<endpoint, setup, environment, history>>
      BY <1>8 DEF Recheck
    <2>1. CASE Ensured(t)
      <3>1. CASE ConnectAnew(t)
        BY <2>0, <2>1, ClientsAssumption, <3>1 DEF Ensured, endpoint, setup,
          environment, history, TypeOK, StageInv, Threads, Launching,
          Ensuring, ConnectAnew
      <3>2. CASE GoReconnect(t)
        BY <2>0, <2>1, ClientsAssumption, <3>2 DEF Ensured, endpoint, setup,
          environment, history, TypeOK, StageInv, Threads, Launching,
          Ensuring, GoReconnect
      <3> QED BY <2>1, <3>1, <3>2 DEF Ensured
    <2>2. CASE front = File /\ NotEnsured(t)
      BY <2>0, <2>2, ClientsAssumption DEF NotEnsured, Return, Over,
        endpoint, setup, environment, history, TypeOK, StageInv, Threads,
        Launching, Ensuring
    <2>3. CASE Absent(t, "launch")
      BY <2>0, <2>3, ClientsAssumption DEF Absent, locks, endpoint, setup,
        environment, history, TypeOK, StageInv, Threads, Launching, Ensuring
    <2> QED BY <1>8, <2>1, <2>2, <2>3 DEF Recheck, Probed
  <1>9. ASSUME NEW t \in Threads, NEW d \in Daemons, Launch(t, d)
      PROVE  StageInv'
    BY <1>9, ClientsAssumption DEF Launch, Goto, Begin, Turn, setup, locks,
      environment, history, TypeOK, StageInv, Threads, Launching, Ensuring
  <1>10. ASSUME NEW t \in Threads, LaunchFails(t)
      PROVE  StageInv'
    BY <1>10, ClientsAssumption DEF LaunchFails, NotEnsured, Return, Over,
      endpoint, setup, environment, history, TypeOK, StageInv, Threads,
      Launching, Ensuring
  <1>11. ASSUME NEW t \in Threads, AwaitReady(t)
      PROVE  StageInv'
    <2>1. CASE ConnectAnew(t)
      BY <1>11, ClientsAssumption, <2>1 DEF AwaitReady, Ensured, endpoint,
        setup, environment, history, TypeOK, StageInv, Threads, Launching,
        Ensuring, ConnectAnew
    <2>2. CASE GoReconnect(t)
      BY <1>11, ClientsAssumption, <2>2 DEF AwaitReady, Ensured, endpoint,
        setup, environment, history, TypeOK, StageInv, Threads, Launching,
        Ensuring, GoReconnect
    <2> QED BY <1>11, <2>1, <2>2 DEF AwaitReady, Ensured
  <1>12. ASSUME NEW t \in Threads, AwaitTimeout(t)
      PROVE  StageInv'
    BY <1>12, ClientsAssumption DEF AwaitTimeout, NotEnsured, Return, Over,
      endpoint, setup, environment, TypeOK, StageInv, Threads, Launching,
      Ensuring
  <1>13. ASSUME NEW c \in Calls, TakeMu(c)
      PROVE  StageInv'
    BY <1>13, ClientsAssumption DEF TakeMu, Goto, endpoint, setup,
      environment, history, TypeOK, StageInv, Threads, Launching, Ensuring
  <1>14. ASSUME NEW c \in Calls, Reconnect(c)
      PROVE  StageInv'
    BY <1>14, ClientsAssumption DEF Reconnect, Goto, locks, endpoint, setup,
      environment, history, TypeOK, StageInv, Threads, Launching, Ensuring
  <1>15. ASSUME NEW p \in Procs, Redial(p)
      PROVE  StageInv'
    BY <1>15, ClientsAssumption DEF Redial, threads, locks, endpoint, setup,
      environment, history, TypeOK, StageInv, Threads, Launching, Ensuring
  <1>16. ASSUME NEW p \in Procs, Close(p)
      PROVE  StageInv'
    BY <1>16, ClientsAssumption DEF Close, endpoint, threads, locks,
      environment, history, TypeOK, StageInv, Threads, Launching, Ensuring
  <1>17. ASSUME NEW p \in Procs, Crash(p)
      PROVE  StageInv'
    BY <1>17, ClientsAssumption DEF Crash, Event, Over, endpoint, setup,
      TypeOK, StageInv, Threads, Launching, Ensuring
  <1>18. ASSUME NEW d \in Daemons, DaemonAdvances(d)
      PROVE  StageInv'
    BY <1>18, ClientsAssumption DEF DaemonAdvances, Listen, Ready, Turn,
      setup, threads, locks, environment, history, TypeOK, StageInv, Threads,
      Launching, Ensuring
  <1>19. ASSUME NEW d \in Daemons, StartDirectly(d)
      PROVE  StageInv'
    BY <1>19, ClientsAssumption DEF StartDirectly, Begin, Turn, Event, setup,
      threads, locks, TypeOK, StageInv, Threads, Launching, Ensuring
  <1>20. ASSUME NEW d \in Daemons, DaemonEnds(d)
      PROVE  StageInv'
    BY <1>20, ClientsAssumption DEF DaemonEnds, End, Turn, Outage, setup,
      locks, environment, TypeOK, StageInv, Threads, Launching, Ensuring
  <1>21. CASE PathLost
    BY <1>21, ClientsAssumption DEF PathLost, Lose, Event, Outage, setup,
      locks, TypeOK, StageInv, Threads, Launching, Ensuring
  <1>22. CASE Wipe
    BY <1>22, ClientsAssumption DEF Wipe, Event, Outage, setup, locks,
      TypeOK, StageInv, Threads, Launching, Ensuring
  <1>23. CASE UNCHANGED vars
    BY <1>23, ClientsAssumption DEF vars, threads, locks, endpoint, setup,
      environment, history, TypeOK, StageInv, Threads, Launching, Ensuring
  <1> QED BY <1>1, <1>2, <1>3, <1>4, <1>5, <1>6, <1>7, <1>8, <1>9, <1>10,
    <1>11, <1>12, <1>13, <1>14, <1>15, <1>16, <1>17, <1>18, <1>19, <1>20,
    <1>21, <1>22, <1>23, ClientsAssumption DEF Next, Step, Ensure, Threads

(* Every step keeps Clients and their calls in order.                       *)
LEMMA OpenStep ==
    ASSUME TypeOK, StageInv, OpenInv, [Next]_vars
    PROVE  OpenInv'
  <1>1. ASSUME NEW t \in Threads, BeginCall(t)
      PROVE  OpenInv'
    BY <1>1, ClientsAssumption DEF BeginCall, Goto, locks, endpoint, setup,
      environment, history, TypeOK, StageInv, OpenInv, Threads, ProcOf,
      Places, Launching, Ensuring
  <1>2. ASSUME NEW t \in Threads, Send(t)
      PROVE  OpenInv'
    <2>0. /\ pc[t] = "send"
          /\ UNCHANGED <<endpoint, noSpawn, closed, environment, history>>
      BY <1>2 DEF Send
    <2>1. CASE t \in stale /\ Finish(t, "canceled") /\ UNCHANGED link
      BY <2>0, <2>1, ClientsAssumption DEF Finish, Return, Over, endpoint,
        setup, environment, history, TypeOK, StageInv, OpenInv, Threads,
        ProcOf, Places, Launching, Ensuring
    <2>2. CASE t \notin stale /\ Reach(t)
      BY <2>0, <2>2, ClientsAssumption DEF Reach, locks, endpoint, setup,
        environment, history, TypeOK, StageInv, OpenInv, Threads, ProcOf,
        Places, Launching, Ensuring
    <2>3. CASE t \notin stale /\ Miss(t) /\ Respawns(t, "unavailable") /\
      Retry(t)
      BY <2>0, <2>3, ClientsAssumption DEF Miss, Respawns, Retry, locks,
        endpoint, setup, environment, history, TypeOK, StageInv, OpenInv,
        Threads, ProcOf, Places, Launching, Ensuring
    <2>4. CASE t \notin stale /\ Miss(t) /\ Finish(t, "unavailable")
      BY <2>0, <2>4, ClientsAssumption DEF Miss, Finish, Return, Over,
        endpoint, setup, environment, history, TypeOK, StageInv, OpenInv,
        Threads, ProcOf, Places, Launching, Ensuring
    <2> QED BY <1>2, <2>1, <2>2, <2>3, <2>4, SendCases
  <1>3. ASSUME NEW t \in Threads, Answer(t)
      PROVE  OpenInv'
    <2>0. /\ pc[t] = "answer"
          /\ UNCHANGED <<endpoint, noSpawn, closed, link, environment, history>>
      BY <1>3 DEF Answer
    <2>1. CASE life[at[t]] = "gone" /\ try[t] < 3 /\ Retry(t)
      BY <2>0, <2>1, ClientsAssumption DEF Retry, locks, endpoint, setup,
        environment, history, TypeOK, StageInv, OpenInv, Threads, ProcOf,
        Places, Launching, Ensuring
    <2>2. CASE \E r \in Outcomes : Ends(t, r)
      BY <2>0, <2>2, ClientsAssumption DEF Ends, Finish, Return, Over,
        endpoint, setup, environment, history, TypeOK, StageInv, OpenInv,
        Threads, ProcOf, Places, Launching, Ensuring
    <2> QED BY <1>3, <2>1, <2>2, AnswerCases
  <1>4. ASSUME NEW t \in Threads, Probe(t)
      PROVE  OpenInv'
    <2>0. /\ pc[t] = "probe"
          /\ UNCHANGED <<endpoint, setup, environment, history>>
      BY <1>4 DEF Probe
    <2>1. CASE Ensured(t)
      <3>1. CASE ConnectAnew(t)
        BY <2>0, <2>1, ClientsAssumption, <3>1 DEF Ensured, endpoint, setup,
          environment, history, TypeOK, StageInv, OpenInv, Threads, ProcOf,
          Places, Launching, Ensuring, ConnectAnew
      <3>2. CASE GoReconnect(t)
        BY <2>0, <2>1, ClientsAssumption, <3>2 DEF Ensured, endpoint, setup,
          environment, history, TypeOK, StageInv, OpenInv, Threads, ProcOf,
          Places, Launching, Ensuring, GoReconnect
      <3> QED BY <2>1, <3>1, <3>2 DEF Ensured
    <2>2. CASE front = File /\ NotEnsured(t)
      BY <2>0, <2>2, ClientsAssumption DEF NotEnsured, Return, Over,
        endpoint, setup, environment, history, TypeOK, StageInv, OpenInv,
        Threads, ProcOf, Places, Launching, Ensuring
    <2>3. CASE Absent(t, "open")
      BY <2>0, <2>3, ClientsAssumption DEF Absent, locks, endpoint, setup,
        environment, history, TypeOK, StageInv, OpenInv, Threads, ProcOf,
        Places, Launching, Ensuring
    <2> QED BY <1>4, <2>1, <2>2, <2>3 DEF Probe, Probed
  <1>5. ASSUME NEW t \in Threads, OpenLock(t)
      PROVE  OpenInv'
    BY <1>5, ClientsAssumption DEF OpenLock, Goto, locks, endpoint, setup,
      environment, history, TypeOK, StageInv, OpenInv, Threads, ProcOf,
      Places, Launching, Ensuring
  <1>6. ASSUME NEW t \in Threads, AcquireLock(t)
      PROVE  OpenInv'
    BY <1>6, ClientsAssumption DEF AcquireLock, Goto, endpoint, setup,
      environment, history, TypeOK, StageInv, OpenInv, Threads, ProcOf,
      Places, Launching, Ensuring
  <1>7. ASSUME NEW t \in Threads, LockTimeout(t)
      PROVE  OpenInv'
    BY <1>7, ClientsAssumption DEF LockTimeout, NotEnsured, Return, Over,
      endpoint, setup, environment, history, TypeOK, StageInv, OpenInv,
      Threads, ProcOf, Places, Launching, Ensuring
  <1>8. ASSUME NEW t \in Threads, Recheck(t)
      PROVE  OpenInv'
    <2>0. /\ pc[t] = "recheck"
          /\ UNCHANGED <<endpoint, setup, environment, history>>
      BY <1>8 DEF Recheck
    <2>1. CASE Ensured(t)
      <3>1. CASE ConnectAnew(t)
        BY <2>0, <2>1, ClientsAssumption, <3>1 DEF Ensured, endpoint, setup,
          environment, history, TypeOK, StageInv, OpenInv, Threads, ProcOf,
          Places, Launching, Ensuring, ConnectAnew
      <3>2. CASE GoReconnect(t)
        BY <2>0, <2>1, ClientsAssumption, <3>2 DEF Ensured, endpoint, setup,
          environment, history, TypeOK, StageInv, OpenInv, Threads, ProcOf,
          Places, Launching, Ensuring, GoReconnect
      <3> QED BY <2>1, <3>1, <3>2 DEF Ensured
    <2>2. CASE front = File /\ NotEnsured(t)
      BY <2>0, <2>2, ClientsAssumption DEF NotEnsured, Return, Over,
        endpoint, setup, environment, history, TypeOK, StageInv, OpenInv,
        Threads, ProcOf, Places, Launching, Ensuring
    <2>3. CASE Absent(t, "launch")
      BY <2>0, <2>3, ClientsAssumption DEF Absent, locks, endpoint, setup,
        environment, history, TypeOK, StageInv, OpenInv, Threads, ProcOf,
        Places, Launching, Ensuring
    <2> QED BY <1>8, <2>1, <2>2, <2>3 DEF Recheck, Probed
  <1>9. ASSUME NEW t \in Threads, NEW d \in Daemons, Launch(t, d)
      PROVE  OpenInv'
    BY <1>9, ClientsAssumption DEF Launch, Goto, Begin, Turn, setup, locks,
      environment, history, TypeOK, StageInv, OpenInv, Threads, ProcOf,
      Places, Launching, Ensuring
  <1>10. ASSUME NEW t \in Threads, LaunchFails(t)
      PROVE  OpenInv'
    BY <1>10, ClientsAssumption DEF LaunchFails, NotEnsured, Return, Over,
      endpoint, setup, environment, history, TypeOK, StageInv, OpenInv,
      Threads, ProcOf, Places, Launching, Ensuring
  <1>11. ASSUME NEW t \in Threads, AwaitReady(t)
      PROVE  OpenInv'
    <2>1. CASE ConnectAnew(t)
      BY <1>11, ClientsAssumption, <2>1 DEF AwaitReady, Ensured, endpoint,
        setup, environment, history, TypeOK, StageInv, OpenInv, Threads,
        ProcOf, Places, Launching, Ensuring, ConnectAnew
    <2>2. CASE GoReconnect(t)
      BY <1>11, ClientsAssumption, <2>2 DEF AwaitReady, Ensured, endpoint,
        setup, environment, history, TypeOK, StageInv, OpenInv, Threads,
        ProcOf, Places, Launching, Ensuring, GoReconnect
    <2> QED BY <1>11, <2>1, <2>2 DEF AwaitReady, Ensured
  <1>12. ASSUME NEW t \in Threads, AwaitTimeout(t)
      PROVE  OpenInv'
    BY <1>12, ClientsAssumption DEF AwaitTimeout, NotEnsured, Return, Over,
      endpoint, setup, environment, TypeOK, StageInv, OpenInv, Threads,
      ProcOf, Places, Launching, Ensuring
  <1>13. ASSUME NEW c \in Calls, TakeMu(c)
      PROVE  OpenInv'
    BY <1>13, ClientsAssumption DEF TakeMu, Goto, endpoint, setup,
      environment, history, TypeOK, StageInv, OpenInv, Threads, ProcOf,
      Places, Launching, Ensuring
  <1>14. ASSUME NEW c \in Calls, Reconnect(c)
      PROVE  OpenInv'
    BY <1>14, ClientsAssumption DEF Reconnect, Goto, locks, endpoint, setup,
      environment, history, TypeOK, StageInv, OpenInv, Threads, ProcOf,
      Places, Launching, Ensuring
  <1>15. ASSUME NEW p \in Procs, Redial(p)
      PROVE  OpenInv'
    BY <1>15, ClientsAssumption DEF Redial, threads, locks, endpoint, setup,
      environment, history, TypeOK, StageInv, OpenInv, Threads, ProcOf,
      Places, Launching, Ensuring
  <1>16. ASSUME NEW p \in Procs, Close(p)
      PROVE  OpenInv'
    BY <1>16, ClientsAssumption DEF Close, endpoint, threads, locks,
      environment, history, TypeOK, StageInv, OpenInv, Threads, ProcOf,
      Places, Launching, Ensuring
  <1>17. ASSUME NEW p \in Procs, Crash(p)
      PROVE  OpenInv'
    BY <1>17, ClientsAssumption DEF Crash, Event, Over, endpoint, setup,
      TypeOK, StageInv, OpenInv, Threads, ProcOf, Places, Launching, Ensuring
  <1>18. ASSUME NEW d \in Daemons, DaemonAdvances(d)
      PROVE  OpenInv'
    BY <1>18, ClientsAssumption DEF DaemonAdvances, Listen, Ready, Turn,
      setup, threads, locks, environment, history, TypeOK, StageInv, OpenInv,
      Threads, ProcOf, Places, Launching, Ensuring
  <1>19. ASSUME NEW d \in Daemons, StartDirectly(d)
      PROVE  OpenInv'
    BY <1>19, ClientsAssumption DEF StartDirectly, Begin, Turn, Event, setup,
      threads, locks, TypeOK, StageInv, OpenInv, Threads, ProcOf, Places,
      Launching, Ensuring
  <1>20. ASSUME NEW d \in Daemons, DaemonEnds(d)
      PROVE  OpenInv'
    BY <1>20, ClientsAssumption DEF DaemonEnds, End, Turn, Outage, setup,
      locks, environment, TypeOK, StageInv, OpenInv, Threads, ProcOf, Places,
      Launching, Ensuring
  <1>21. CASE PathLost
    BY <1>21, ClientsAssumption DEF PathLost, Lose, Event, Outage, setup,
      locks, TypeOK, StageInv, OpenInv, Threads, ProcOf, Places, Launching,
      Ensuring
  <1>22. CASE Wipe
    BY <1>22, ClientsAssumption DEF Wipe, Event, Outage, setup, locks,
      TypeOK, StageInv, OpenInv, Threads, ProcOf, Places, Launching, Ensuring
  <1>23. CASE UNCHANGED vars
    BY <1>23, ClientsAssumption DEF vars, threads, locks, endpoint, setup,
      environment, history, TypeOK, StageInv, OpenInv, Threads, ProcOf,
      Places, Launching, Ensuring
  <1> QED BY <1>1, <1>2, <1>3, <1>4, <1>5, <1>6, <1>7, <1>8, <1>9, <1>10,
    <1>11, <1>12, <1>13, <1>14, <1>15, <1>16, <1>17, <1>18, <1>19, <1>20,
    <1>21, <1>22, <1>23, ClientsAssumption DEF Next, Step, Ensure, Threads

(* Every step keeps mu with the one call that is past its first request.    *)
LEMMA MuStep ==
    ASSUME TypeOK, StageInv, MuInv, [Next]_vars
    PROVE  MuInv'
  <1>1. ASSUME NEW t \in Threads, BeginCall(t)
      PROVE  MuInv'
    BY <1>1, ClientsAssumption DEF BeginCall, Goto, locks, endpoint, setup,
      environment, history, TypeOK, StageInv, MuInv, Threads, Locking,
      Launching, Ensuring
  <1>2. ASSUME NEW t \in Threads, Send(t)
      PROVE  MuInv'
    <2>0. /\ pc[t] = "send"
          /\ UNCHANGED <<endpoint, noSpawn, closed, environment, history>>
      BY <1>2 DEF Send
    <2>1. CASE t \in stale /\ Finish(t, "canceled") /\ UNCHANGED link
      BY <2>0, <2>1, ClientsAssumption DEF Finish, Return, Over, endpoint,
        setup, environment, history, TypeOK, StageInv, MuInv, Threads,
        Locking, Launching, Ensuring
    <2>2. CASE t \notin stale /\ Reach(t)
      BY <2>0, <2>2, ClientsAssumption DEF Reach, locks, endpoint, setup,
        environment, history, TypeOK, StageInv, MuInv, Threads, Locking,
        Launching, Ensuring
    <2>3. CASE t \notin stale /\ Miss(t) /\ Respawns(t, "unavailable") /\
      Retry(t)
      BY <2>0, <2>3, ClientsAssumption DEF Miss, Respawns, Retry, locks,
        endpoint, setup, environment, history, TypeOK, StageInv, MuInv,
        Threads, Locking, Launching, Ensuring
    <2>4. CASE t \notin stale /\ Miss(t) /\ Finish(t, "unavailable")
      BY <2>0, <2>4, ClientsAssumption DEF Miss, Finish, Return, Over,
        endpoint, setup, environment, history, TypeOK, StageInv, MuInv,
        Threads, Locking, Launching, Ensuring
    <2> QED BY <1>2, <2>1, <2>2, <2>3, <2>4, SendCases
  <1>3. ASSUME NEW t \in Threads, Answer(t)
      PROVE  MuInv'
    <2>0. /\ pc[t] = "answer"
          /\ UNCHANGED <<endpoint, noSpawn, closed, link, environment, history>>
      BY <1>3 DEF Answer
    <2>1. CASE life[at[t]] = "gone" /\ try[t] < 3 /\ Retry(t)
      BY <2>0, <2>1, ClientsAssumption DEF Retry, locks, endpoint, setup,
        environment, history, TypeOK, StageInv, MuInv, Threads, Locking,
        Launching, Ensuring
    <2>2. CASE \E r \in Outcomes : Ends(t, r)
      BY <2>0, <2>2, ClientsAssumption DEF Ends, Finish, Return, Over,
        endpoint, setup, environment, history, TypeOK, StageInv, MuInv,
        Threads, Locking, Launching, Ensuring
    <2> QED BY <1>3, <2>1, <2>2, AnswerCases
  <1>4. ASSUME NEW t \in Threads, Probe(t)
      PROVE  MuInv'
    <2>0. /\ pc[t] = "probe"
          /\ UNCHANGED <<endpoint, setup, environment, history>>
      BY <1>4 DEF Probe
    <2>1. CASE Ensured(t)
      <3>1. CASE ConnectAnew(t)
        BY <2>0, <2>1, ClientsAssumption, <3>1 DEF Ensured, endpoint, setup,
          environment, history, TypeOK, StageInv, MuInv, Threads, Locking,
          Launching, Ensuring, ConnectAnew
      <3>2. CASE GoReconnect(t)
        BY <2>0, <2>1, ClientsAssumption, <3>2 DEF Ensured, endpoint, setup,
          environment, history, TypeOK, StageInv, MuInv, Threads, Locking,
          Launching, Ensuring, GoReconnect
      <3> QED BY <2>1, <3>1, <3>2 DEF Ensured
    <2>2. CASE front = File /\ NotEnsured(t)
      BY <2>0, <2>2, ClientsAssumption DEF NotEnsured, Return, Over,
        endpoint, setup, environment, history, TypeOK, StageInv, MuInv,
        Threads, Locking, Launching, Ensuring
    <2>3. CASE Absent(t, "open")
      BY <2>0, <2>3, ClientsAssumption DEF Absent, locks, endpoint, setup,
        environment, history, TypeOK, StageInv, MuInv, Threads, Locking,
        Launching, Ensuring
    <2> QED BY <1>4, <2>1, <2>2, <2>3 DEF Probe, Probed
  <1>5. ASSUME NEW t \in Threads, OpenLock(t)
      PROVE  MuInv'
    BY <1>5, ClientsAssumption DEF OpenLock, Goto, locks, endpoint, setup,
      environment, history, TypeOK, StageInv, MuInv, Threads, Locking,
      Launching, Ensuring
  <1>6. ASSUME NEW t \in Threads, AcquireLock(t)
      PROVE  MuInv'
    BY <1>6, ClientsAssumption DEF AcquireLock, Goto, endpoint, setup,
      environment, history, TypeOK, StageInv, MuInv, Threads, Locking,
      Launching, Ensuring
  <1>7. ASSUME NEW t \in Threads, LockTimeout(t)
      PROVE  MuInv'
    BY <1>7, ClientsAssumption DEF LockTimeout, NotEnsured, Return, Over,
      endpoint, setup, environment, history, TypeOK, StageInv, MuInv,
      Threads, Locking, Launching, Ensuring
  <1>8. ASSUME NEW t \in Threads, Recheck(t)
      PROVE  MuInv'
    <2>0. /\ pc[t] = "recheck"
          /\ UNCHANGED <<endpoint, setup, environment, history>>
      BY <1>8 DEF Recheck
    <2>1. CASE Ensured(t)
      <3>1. CASE ConnectAnew(t)
        BY <2>0, <2>1, ClientsAssumption, <3>1 DEF Ensured, endpoint, setup,
          environment, history, TypeOK, StageInv, MuInv, Threads, Locking,
          Launching, Ensuring, ConnectAnew
      <3>2. CASE GoReconnect(t)
        BY <2>0, <2>1, ClientsAssumption, <3>2 DEF Ensured, endpoint, setup,
          environment, history, TypeOK, StageInv, MuInv, Threads, Locking,
          Launching, Ensuring, GoReconnect
      <3> QED BY <2>1, <3>1, <3>2 DEF Ensured
    <2>2. CASE front = File /\ NotEnsured(t)
      BY <2>0, <2>2, ClientsAssumption DEF NotEnsured, Return, Over,
        endpoint, setup, environment, history, TypeOK, StageInv, MuInv,
        Threads, Locking, Launching, Ensuring
    <2>3. CASE Absent(t, "launch")
      BY <2>0, <2>3, ClientsAssumption DEF Absent, locks, endpoint, setup,
        environment, history, TypeOK, StageInv, MuInv, Threads, Locking,
        Launching, Ensuring
    <2> QED BY <1>8, <2>1, <2>2, <2>3 DEF Recheck, Probed
  <1>9. ASSUME NEW t \in Threads, NEW d \in Daemons, Launch(t, d)
      PROVE  MuInv'
    BY <1>9, ClientsAssumption DEF Launch, Goto, Begin, Turn, setup, locks,
      environment, history, TypeOK, StageInv, MuInv, Threads, Locking,
      Launching, Ensuring
  <1>10. ASSUME NEW t \in Threads, LaunchFails(t)
      PROVE  MuInv'
    BY <1>10, ClientsAssumption DEF LaunchFails, NotEnsured, Return, Over,
      endpoint, setup, environment, history, TypeOK, StageInv, MuInv,
      Threads, Locking, Launching, Ensuring
  <1>11. ASSUME NEW t \in Threads, AwaitReady(t)
      PROVE  MuInv'
    <2>1. CASE ConnectAnew(t)
      BY <1>11, ClientsAssumption, <2>1 DEF AwaitReady, Ensured, endpoint,
        setup, environment, history, TypeOK, StageInv, MuInv, Threads,
        Locking, Launching, Ensuring, ConnectAnew
    <2>2. CASE GoReconnect(t)
      BY <1>11, ClientsAssumption, <2>2 DEF AwaitReady, Ensured, endpoint,
        setup, environment, history, TypeOK, StageInv, MuInv, Threads,
        Locking, Launching, Ensuring, GoReconnect
    <2> QED BY <1>11, <2>1, <2>2 DEF AwaitReady, Ensured
  <1>12. ASSUME NEW t \in Threads, AwaitTimeout(t)
      PROVE  MuInv'
    BY <1>12, ClientsAssumption DEF AwaitTimeout, NotEnsured, Return, Over,
      endpoint, setup, environment, TypeOK, StageInv, MuInv, Threads,
      Locking, Launching, Ensuring
  <1>13. ASSUME NEW c \in Calls, TakeMu(c)
      PROVE  MuInv'
    BY <1>13, ClientsAssumption DEF TakeMu, Goto, endpoint, setup,
      environment, history, TypeOK, StageInv, MuInv, Threads, Locking,
      Launching, Ensuring
  <1>14. ASSUME NEW c \in Calls, Reconnect(c)
      PROVE  MuInv'
    BY <1>14, ClientsAssumption DEF Reconnect, Goto, locks, endpoint, setup,
      environment, history, TypeOK, StageInv, MuInv, Threads, Locking,
      Launching, Ensuring
  <1>15. ASSUME NEW p \in Procs, Redial(p)
      PROVE  MuInv'
    BY <1>15, ClientsAssumption DEF Redial, threads, locks, endpoint, setup,
      environment, history, TypeOK, StageInv, MuInv, Threads, Locking,
      Launching, Ensuring
  <1>16. ASSUME NEW p \in Procs, Close(p)
      PROVE  MuInv'
    BY <1>16, ClientsAssumption DEF Close, endpoint, threads, locks,
      environment, history, TypeOK, StageInv, MuInv, Threads, Locking,
      Launching, Ensuring
  <1>17. ASSUME NEW p \in Procs, Crash(p)
      PROVE  MuInv'
    BY <1>17, ClientsAssumption DEF Crash, Event, Over, endpoint, setup,
      TypeOK, StageInv, MuInv, Threads, Locking, Launching, Ensuring
  <1>18. ASSUME NEW d \in Daemons, DaemonAdvances(d)
      PROVE  MuInv'
    BY <1>18, ClientsAssumption DEF DaemonAdvances, Listen, Ready, Turn,
      setup, threads, locks, environment, history, TypeOK, StageInv, MuInv,
      Threads, Locking, Launching, Ensuring
  <1>19. ASSUME NEW d \in Daemons, StartDirectly(d)
      PROVE  MuInv'
    BY <1>19, ClientsAssumption DEF StartDirectly, Begin, Turn, Event, setup,
      threads, locks, TypeOK, StageInv, MuInv, Threads, Locking, Launching,
      Ensuring
  <1>20. ASSUME NEW d \in Daemons, DaemonEnds(d)
      PROVE  MuInv'
    BY <1>20, ClientsAssumption DEF DaemonEnds, End, Turn, Outage, setup,
      locks, environment, TypeOK, StageInv, MuInv, Threads, Locking,
      Launching, Ensuring
  <1>21. CASE PathLost
    BY <1>21, ClientsAssumption DEF PathLost, Lose, Event, Outage, setup,
      locks, TypeOK, StageInv, MuInv, Threads, Locking, Launching, Ensuring
  <1>22. CASE Wipe
    BY <1>22, ClientsAssumption DEF Wipe, Event, Outage, setup, locks,
      TypeOK, StageInv, MuInv, Threads, Locking, Launching, Ensuring
  <1>23. CASE UNCHANGED vars
    BY <1>23, ClientsAssumption DEF vars, threads, locks, endpoint, setup,
      environment, history, TypeOK, StageInv, MuInv, Threads, Locking,
      Launching, Ensuring
  <1> QED BY <1>1, <1>2, <1>3, <1>4, <1>5, <1>6, <1>7, <1>8, <1>9, <1>10,
    <1>11, <1>12, <1>13, <1>14, <1>15, <1>16, <1>17, <1>18, <1>19, <1>20,
    <1>21, <1>22, <1>23, ClientsAssumption DEF Next, Step, Ensure, Threads

(* Every step keeps each spawn.lock with the one thread that is past it.    *)
LEMMA FlockStep ==
    ASSUME TypeOK, FlockInv, [Next]_vars
    PROVE  FlockInv'
  <1>1. ASSUME NEW t \in Threads, BeginCall(t)
      PROVE  FlockInv'
    BY <1>1, ClientsAssumption DEF BeginCall, Goto, locks, endpoint, setup,
      environment, history, TypeOK, FlockInv, Threads, Launching
  <1>2. ASSUME NEW t \in Threads, Send(t)
      PROVE  FlockInv'
    <2>0. /\ pc[t] = "send"
          /\ UNCHANGED <<endpoint, noSpawn, closed, environment, history>>
      BY <1>2 DEF Send
    <2>1. CASE t \in stale /\ Finish(t, "canceled") /\ UNCHANGED link
      BY <2>0, <2>1, ClientsAssumption DEF Finish, Return, Over, endpoint,
        setup, environment, history, TypeOK, FlockInv, Threads, Launching
    <2>2. CASE t \notin stale /\ Reach(t)
      BY <2>0, <2>2, ClientsAssumption DEF Reach, locks, endpoint, setup,
        environment, history, TypeOK, FlockInv, Threads, Launching
    <2>3. CASE t \notin stale /\ Miss(t) /\ Respawns(t, "unavailable") /\
      Retry(t)
      BY <2>0, <2>3, ClientsAssumption DEF Miss, Respawns, Retry, locks,
        endpoint, setup, environment, history, TypeOK, FlockInv, Threads,
        Launching
    <2>4. CASE t \notin stale /\ Miss(t) /\ Finish(t, "unavailable")
      BY <2>0, <2>4, ClientsAssumption DEF Miss, Finish, Return, Over,
        endpoint, setup, environment, history, TypeOK, FlockInv, Threads,
        Launching
    <2> QED BY <1>2, <2>1, <2>2, <2>3, <2>4, SendCases
  <1>3. ASSUME NEW t \in Threads, Answer(t)
      PROVE  FlockInv'
    <2>0. /\ pc[t] = "answer"
          /\ UNCHANGED <<endpoint, noSpawn, closed, link, environment, history>>
      BY <1>3 DEF Answer
    <2>1. CASE life[at[t]] = "gone" /\ try[t] < 3 /\ Retry(t)
      BY <2>0, <2>1, ClientsAssumption DEF Retry, locks, endpoint, setup,
        environment, history, TypeOK, FlockInv, Threads, Launching
    <2>2. CASE \E r \in Outcomes : Ends(t, r)
      BY <2>0, <2>2, ClientsAssumption DEF Ends, Finish, Return, Over,
        endpoint, setup, environment, history, TypeOK, FlockInv, Threads,
        Launching
    <2> QED BY <1>3, <2>1, <2>2, AnswerCases
  <1>4. ASSUME NEW t \in Threads, Probe(t)
      PROVE  FlockInv'
    <2>0. /\ pc[t] = "probe"
          /\ UNCHANGED <<endpoint, setup, environment, history>>
      BY <1>4 DEF Probe
    <2>1. CASE Ensured(t)
      <3>1. CASE ConnectAnew(t)
        BY <2>0, <2>1, ClientsAssumption, <3>1 DEF Ensured, endpoint, setup,
          environment, history, TypeOK, FlockInv, Threads, Launching,
          ConnectAnew
      <3>2. CASE GoReconnect(t)
        BY <2>0, <2>1, ClientsAssumption, <3>2 DEF Ensured, endpoint, setup,
          environment, history, TypeOK, FlockInv, Threads, Launching,
          GoReconnect
      <3> QED BY <2>1, <3>1, <3>2 DEF Ensured
    <2>2. CASE front = File /\ NotEnsured(t)
      BY <2>0, <2>2, ClientsAssumption DEF NotEnsured, Return, Over,
        endpoint, setup, environment, history, TypeOK, FlockInv, Threads,
        Launching
    <2>3. CASE Absent(t, "open")
      BY <2>0, <2>3, ClientsAssumption DEF Absent, locks, endpoint, setup,
        environment, history, TypeOK, FlockInv, Threads, Launching
    <2> QED BY <1>4, <2>1, <2>2, <2>3 DEF Probe, Probed
  <1>5. ASSUME NEW t \in Threads, OpenLock(t)
      PROVE  FlockInv'
    BY <1>5, ClientsAssumption DEF OpenLock, Goto, locks, endpoint, setup,
      environment, history, TypeOK, FlockInv, Threads, Launching
  <1>6. ASSUME NEW t \in Threads, AcquireLock(t)
      PROVE  FlockInv'
    BY <1>6, ClientsAssumption DEF AcquireLock, Goto, endpoint, setup,
      environment, history, TypeOK, FlockInv, Threads, Launching
  <1>7. ASSUME NEW t \in Threads, LockTimeout(t)
      PROVE  FlockInv'
    BY <1>7, ClientsAssumption DEF LockTimeout, NotEnsured, Return, Over,
      endpoint, setup, environment, history, TypeOK, FlockInv, Threads,
      Launching
  <1>8. ASSUME NEW t \in Threads, Recheck(t)
      PROVE  FlockInv'
    <2>0. /\ pc[t] = "recheck"
          /\ UNCHANGED <<endpoint, setup, environment, history>>
      BY <1>8 DEF Recheck
    <2>1. CASE Ensured(t)
      <3>1. CASE ConnectAnew(t)
        BY <2>0, <2>1, ClientsAssumption, <3>1 DEF Ensured, endpoint, setup,
          environment, history, TypeOK, FlockInv, Threads, Launching,
          ConnectAnew
      <3>2. CASE GoReconnect(t)
        BY <2>0, <2>1, ClientsAssumption, <3>2 DEF Ensured, endpoint, setup,
          environment, history, TypeOK, FlockInv, Threads, Launching,
          GoReconnect
      <3> QED BY <2>1, <3>1, <3>2 DEF Ensured
    <2>2. CASE front = File /\ NotEnsured(t)
      BY <2>0, <2>2, ClientsAssumption DEF NotEnsured, Return, Over,
        endpoint, setup, environment, history, TypeOK, FlockInv, Threads,
        Launching
    <2>3. CASE Absent(t, "launch")
      BY <2>0, <2>3, ClientsAssumption DEF Absent, locks, endpoint, setup,
        environment, history, TypeOK, FlockInv, Threads, Launching
    <2> QED BY <1>8, <2>1, <2>2, <2>3 DEF Recheck, Probed
  <1>9. ASSUME NEW t \in Threads, NEW d \in Daemons, Launch(t, d)
      PROVE  FlockInv'
    BY <1>9, ClientsAssumption DEF Launch, Goto, Begin, Turn, setup, locks,
      environment, history, TypeOK, FlockInv, Threads, Launching
  <1>10. ASSUME NEW t \in Threads, LaunchFails(t)
      PROVE  FlockInv'
    BY <1>10, ClientsAssumption DEF LaunchFails, NotEnsured, Return, Over,
      endpoint, setup, environment, history, TypeOK, FlockInv, Threads,
      Launching
  <1>11. ASSUME NEW t \in Threads, AwaitReady(t)
      PROVE  FlockInv'
    <2>1. CASE ConnectAnew(t)
      BY <1>11, ClientsAssumption, <2>1 DEF AwaitReady, Ensured, endpoint,
        setup, environment, history, TypeOK, FlockInv, Threads, Launching,
        ConnectAnew
    <2>2. CASE GoReconnect(t)
      BY <1>11, ClientsAssumption, <2>2 DEF AwaitReady, Ensured, endpoint,
        setup, environment, history, TypeOK, FlockInv, Threads, Launching,
        GoReconnect
    <2> QED BY <1>11, <2>1, <2>2 DEF AwaitReady, Ensured
  <1>12. ASSUME NEW t \in Threads, AwaitTimeout(t)
      PROVE  FlockInv'
    BY <1>12, ClientsAssumption DEF AwaitTimeout, NotEnsured, Return, Over,
      endpoint, setup, environment, TypeOK, FlockInv, Threads, Launching
  <1>13. ASSUME NEW c \in Calls, TakeMu(c)
      PROVE  FlockInv'
    BY <1>13, ClientsAssumption DEF TakeMu, Goto, endpoint, setup,
      environment, history, TypeOK, FlockInv, Threads, Launching
  <1>14. ASSUME NEW c \in Calls, Reconnect(c)
      PROVE  FlockInv'
    BY <1>14, ClientsAssumption DEF Reconnect, Goto, locks, endpoint, setup,
      environment, history, TypeOK, FlockInv, Threads, Launching
  <1>15. ASSUME NEW p \in Procs, Redial(p)
      PROVE  FlockInv'
    BY <1>15, ClientsAssumption DEF Redial, threads, locks, endpoint, setup,
      environment, history, TypeOK, FlockInv, Threads, Launching
  <1>16. ASSUME NEW p \in Procs, Close(p)
      PROVE  FlockInv'
    BY <1>16, ClientsAssumption DEF Close, endpoint, threads, locks,
      environment, history, TypeOK, FlockInv, Threads, Launching
  <1>17. ASSUME NEW p \in Procs, Crash(p)
      PROVE  FlockInv'
    BY <1>17, ClientsAssumption DEF Crash, Event, Over, endpoint, setup,
      TypeOK, FlockInv, Threads, Launching
  <1>18. ASSUME NEW d \in Daemons, DaemonAdvances(d)
      PROVE  FlockInv'
    BY <1>18, ClientsAssumption DEF DaemonAdvances, Listen, Ready, Turn,
      setup, threads, locks, environment, history, TypeOK, FlockInv, Threads,
      Launching
  <1>19. ASSUME NEW d \in Daemons, StartDirectly(d)
      PROVE  FlockInv'
    BY <1>19, ClientsAssumption DEF StartDirectly, Begin, Turn, Event, setup,
      threads, locks, TypeOK, FlockInv, Threads, Launching
  <1>20. ASSUME NEW d \in Daemons, DaemonEnds(d)
      PROVE  FlockInv'
    BY <1>20, ClientsAssumption DEF DaemonEnds, End, Turn, Outage, setup,
      locks, environment, TypeOK, FlockInv, Threads, Launching
  <1>21. CASE PathLost
    BY <1>21, ClientsAssumption DEF PathLost, Lose, Event, Outage, setup,
      locks, TypeOK, FlockInv, Threads, Launching
  <1>22. CASE Wipe
    BY <1>22, ClientsAssumption DEF Wipe, Event, Outage, setup, locks,
      TypeOK, FlockInv, Threads, Launching
  <1>23. CASE UNCHANGED vars
    BY <1>23, ClientsAssumption DEF vars, threads, locks, endpoint, setup,
      environment, history, TypeOK, FlockInv, Threads, Launching
  <1> QED BY <1>1, <1>2, <1>3, <1>4, <1>5, <1>6, <1>7, <1>8, <1>9, <1>10,
    <1>11, <1>12, <1>13, <1>14, <1>15, <1>16, <1>17, <1>18, <1>19, <1>20,
    <1>21, <1>22, <1>23, ClientsAssumption DEF Next, Step, Ensure, Threads

(* Every step keeps the connections and the path with the living.           *)
LEMMA AliveStep ==
    ASSUME TypeOK, AliveInv, [Next]_vars
    PROVE  AliveInv'
  <1>1. ASSUME NEW t \in Threads, BeginCall(t)
      PROVE  AliveInv'
    BY <1>1, ClientsAssumption, EndpointAssumption DEF BeginCall, Goto,
      locks, endpoint, setup, environment, history, TypeOK, EndpointTypeOK,
      Lives, AliveInv, FrontIsAlive, Threads, ProcOf, Target
  <1>2. ASSUME NEW t \in Threads, Send(t)
      PROVE  AliveInv'
    <2>0. /\ pc[t] = "send"
          /\ UNCHANGED <<endpoint, noSpawn, closed, environment, history>>
      BY <1>2 DEF Send
    <2>1. CASE t \in stale /\ Finish(t, "canceled") /\ UNCHANGED link
      BY <2>0, <2>1, ClientsAssumption, EndpointAssumption DEF Finish,
        Return, Over, endpoint, setup, environment, history, TypeOK,
        EndpointTypeOK, Lives, AliveInv, FrontIsAlive, Threads, ProcOf,
        Target
    <2>2. CASE t \notin stale /\ Reach(t)
      BY <2>0, <2>2, ClientsAssumption, EndpointAssumption DEF Reach, locks,
        endpoint, setup, environment, history, TypeOK, EndpointTypeOK, Lives,
        AliveInv, FrontIsAlive, Threads, ProcOf, Target
    <2>3. CASE t \notin stale /\ Miss(t) /\ Respawns(t, "unavailable") /\
      Retry(t)
      BY <2>0, <2>3, ClientsAssumption, EndpointAssumption DEF Miss,
        Respawns, Retry, locks, endpoint, setup, environment, history,
        TypeOK, EndpointTypeOK, Lives, AliveInv, FrontIsAlive, Threads,
        ProcOf, Target
    <2>4. CASE t \notin stale /\ Miss(t) /\ Finish(t, "unavailable")
      BY <2>0, <2>4, ClientsAssumption, EndpointAssumption DEF Miss, Finish,
        Return, Over, endpoint, setup, environment, history, TypeOK,
        EndpointTypeOK, Lives, AliveInv, FrontIsAlive, Threads, ProcOf,
        Target
    <2> QED BY <1>2, <2>1, <2>2, <2>3, <2>4, SendCases
  <1>3. ASSUME NEW t \in Threads, Answer(t)
      PROVE  AliveInv'
    <2>0. /\ pc[t] = "answer"
          /\ UNCHANGED <<endpoint, noSpawn, closed, link, environment, history>>
      BY <1>3 DEF Answer
    <2>1. CASE life[at[t]] = "gone" /\ try[t] < 3 /\ Retry(t)
      BY <2>0, <2>1, ClientsAssumption, EndpointAssumption DEF Retry, locks,
        endpoint, setup, environment, history, TypeOK, EndpointTypeOK, Lives,
        AliveInv, FrontIsAlive, Threads, ProcOf, Target
    <2>2. CASE \E r \in Outcomes : Ends(t, r)
      BY <2>0, <2>2, ClientsAssumption, EndpointAssumption DEF Ends, Finish,
        Return, Over, endpoint, setup, environment, history, TypeOK,
        EndpointTypeOK, Lives, AliveInv, FrontIsAlive, Threads, ProcOf,
        Target
    <2> QED BY <1>3, <2>1, <2>2, AnswerCases
  <1>4. ASSUME NEW t \in Threads, Probe(t)
      PROVE  AliveInv'
    <2>0. /\ pc[t] = "probe"
          /\ UNCHANGED <<endpoint, setup, environment, history>>
      BY <1>4 DEF Probe
    <2>1. CASE Ensured(t)
      <3>1. CASE ConnectAnew(t)
        BY <2>0, <2>1, ClientsAssumption, EndpointAssumption, <3>1 DEF
          Ensured, endpoint, setup, environment, history, TypeOK,
          EndpointTypeOK, Lives, AliveInv, FrontIsAlive, Threads, ProcOf,
          Target, ConnectAnew
      <3>2. CASE GoReconnect(t)
        BY <2>0, <2>1, ClientsAssumption, EndpointAssumption, <3>2 DEF
          Ensured, endpoint, setup, environment, history, TypeOK,
          EndpointTypeOK, Lives, AliveInv, FrontIsAlive, Threads, ProcOf,
          Target, GoReconnect
      <3> QED BY <2>1, <3>1, <3>2 DEF Ensured
    <2>2. CASE front = File /\ NotEnsured(t)
      BY <2>0, <2>2, ClientsAssumption, EndpointAssumption DEF NotEnsured,
        Return, Over, endpoint, setup, environment, history, TypeOK,
        EndpointTypeOK, Lives, AliveInv, FrontIsAlive, Threads, ProcOf,
        Target
    <2>3. CASE Absent(t, "open")
      BY <2>0, <2>3, ClientsAssumption, EndpointAssumption DEF Absent, locks,
        endpoint, setup, environment, history, TypeOK, EndpointTypeOK, Lives,
        AliveInv, FrontIsAlive, Threads, ProcOf, Target
    <2> QED BY <1>4, <2>1, <2>2, <2>3 DEF Probe, Probed
  <1>5. ASSUME NEW t \in Threads, OpenLock(t)
      PROVE  AliveInv'
    BY <1>5, ClientsAssumption, EndpointAssumption DEF OpenLock, Goto, locks,
      endpoint, setup, environment, history, TypeOK, EndpointTypeOK, Lives,
      AliveInv, FrontIsAlive, Threads, ProcOf, Target
  <1>6. ASSUME NEW t \in Threads, AcquireLock(t)
      PROVE  AliveInv'
    BY <1>6, ClientsAssumption, EndpointAssumption DEF AcquireLock, Goto,
      endpoint, setup, environment, history, TypeOK, EndpointTypeOK, Lives,
      AliveInv, FrontIsAlive, Threads, ProcOf, Target
  <1>7. ASSUME NEW t \in Threads, LockTimeout(t)
      PROVE  AliveInv'
    BY <1>7, ClientsAssumption, EndpointAssumption DEF LockTimeout,
      NotEnsured, Return, Over, endpoint, setup, environment, history,
      TypeOK, EndpointTypeOK, Lives, AliveInv, FrontIsAlive, Threads, ProcOf,
      Target
  <1>8. ASSUME NEW t \in Threads, Recheck(t)
      PROVE  AliveInv'
    <2>0. /\ pc[t] = "recheck"
          /\ UNCHANGED <<endpoint, setup, environment, history>>
      BY <1>8 DEF Recheck
    <2>1. CASE Ensured(t)
      <3>1. CASE ConnectAnew(t)
        BY <2>0, <2>1, ClientsAssumption, EndpointAssumption, <3>1 DEF
          Ensured, endpoint, setup, environment, history, TypeOK,
          EndpointTypeOK, Lives, AliveInv, FrontIsAlive, Threads, ProcOf,
          Target, ConnectAnew
      <3>2. CASE GoReconnect(t)
        BY <2>0, <2>1, ClientsAssumption, EndpointAssumption, <3>2 DEF
          Ensured, endpoint, setup, environment, history, TypeOK,
          EndpointTypeOK, Lives, AliveInv, FrontIsAlive, Threads, ProcOf,
          Target, GoReconnect
      <3> QED BY <2>1, <3>1, <3>2 DEF Ensured
    <2>2. CASE front = File /\ NotEnsured(t)
      BY <2>0, <2>2, ClientsAssumption, EndpointAssumption DEF NotEnsured,
        Return, Over, endpoint, setup, environment, history, TypeOK,
        EndpointTypeOK, Lives, AliveInv, FrontIsAlive, Threads, ProcOf,
        Target
    <2>3. CASE Absent(t, "launch")
      BY <2>0, <2>3, ClientsAssumption, EndpointAssumption DEF Absent, locks,
        endpoint, setup, environment, history, TypeOK, EndpointTypeOK, Lives,
        AliveInv, FrontIsAlive, Threads, ProcOf, Target
    <2> QED BY <1>8, <2>1, <2>2, <2>3 DEF Recheck, Probed
  <1>9. ASSUME NEW t \in Threads, NEW d \in Daemons, Launch(t, d)
      PROVE  AliveInv'
    BY <1>9, ClientsAssumption, EndpointAssumption DEF Launch, Goto, Begin,
      Turn, setup, locks, environment, history, TypeOK, EndpointTypeOK,
      Lives, AliveInv, FrontIsAlive, Threads, ProcOf, Target
  <1>10. ASSUME NEW t \in Threads, LaunchFails(t)
      PROVE  AliveInv'
    BY <1>10, ClientsAssumption, EndpointAssumption DEF LaunchFails,
      NotEnsured, Return, Over, endpoint, setup, environment, history,
      TypeOK, EndpointTypeOK, Lives, AliveInv, FrontIsAlive, Threads, ProcOf,
      Target
  <1>11. ASSUME NEW t \in Threads, AwaitReady(t)
      PROVE  AliveInv'
    <2>1. CASE ConnectAnew(t)
      BY <1>11, ClientsAssumption, EndpointAssumption, <2>1 DEF AwaitReady,
        Ensured, endpoint, setup, environment, history, TypeOK,
        EndpointTypeOK, Lives, AliveInv, FrontIsAlive, Threads, ProcOf,
        Target, ConnectAnew
    <2>2. CASE GoReconnect(t)
      BY <1>11, ClientsAssumption, EndpointAssumption, <2>2 DEF AwaitReady,
        Ensured, endpoint, setup, environment, history, TypeOK,
        EndpointTypeOK, Lives, AliveInv, FrontIsAlive, Threads, ProcOf,
        Target, GoReconnect
    <2> QED BY <1>11, <2>1, <2>2 DEF AwaitReady, Ensured
  <1>12. ASSUME NEW t \in Threads, AwaitTimeout(t)
      PROVE  AliveInv'
    BY <1>12, ClientsAssumption, EndpointAssumption DEF AwaitTimeout,
      NotEnsured, Return, Over, endpoint, setup, environment, TypeOK,
      EndpointTypeOK, Lives, AliveInv, FrontIsAlive, Threads, ProcOf, Target
  <1>13. ASSUME NEW c \in Calls, TakeMu(c)
      PROVE  AliveInv'
    BY <1>13, ClientsAssumption, EndpointAssumption DEF TakeMu, Goto,
      endpoint, setup, environment, history, TypeOK, EndpointTypeOK, Lives,
      AliveInv, FrontIsAlive, Threads, ProcOf, Target
  <1>14. ASSUME NEW c \in Calls, Reconnect(c)
      PROVE  AliveInv'
    BY <1>14, ClientsAssumption, EndpointAssumption DEF Reconnect, Goto,
      locks, endpoint, setup, environment, history, TypeOK, EndpointTypeOK,
      Lives, AliveInv, FrontIsAlive, Threads, ProcOf, Target
  <1>15. ASSUME NEW p \in Procs, Redial(p)
      PROVE  AliveInv'
    BY <1>15, ClientsAssumption, EndpointAssumption DEF Redial, threads,
      locks, endpoint, setup, environment, history, TypeOK, EndpointTypeOK,
      Lives, AliveInv, FrontIsAlive, Threads, ProcOf, Target
  <1>16. ASSUME NEW p \in Procs, Close(p)
      PROVE  AliveInv'
    BY <1>16, ClientsAssumption, EndpointAssumption DEF Close, endpoint,
      threads, locks, environment, history, TypeOK, EndpointTypeOK, Lives,
      AliveInv, FrontIsAlive, Threads, ProcOf, Target
  <1>17. ASSUME NEW p \in Procs, Crash(p)
      PROVE  AliveInv'
    BY <1>17, ClientsAssumption, EndpointAssumption DEF Crash, Event, Over,
      endpoint, setup, TypeOK, EndpointTypeOK, Lives, AliveInv, FrontIsAlive,
      Threads, ProcOf, Target
  <1>18. ASSUME NEW d \in Daemons, DaemonAdvances(d)
      PROVE  AliveInv'
    BY <1>18, ClientsAssumption, EndpointAssumption DEF DaemonAdvances,
      Listen, Ready, Turn, setup, threads, locks, environment, history,
      TypeOK, EndpointTypeOK, Lives, AliveInv, FrontIsAlive, Threads, ProcOf,
      Target
  <1>19. ASSUME NEW d \in Daemons, StartDirectly(d)
      PROVE  AliveInv'
    BY <1>19, ClientsAssumption, EndpointAssumption DEF StartDirectly, Begin,
      Turn, Event, setup, threads, locks, TypeOK, EndpointTypeOK, Lives,
      AliveInv, FrontIsAlive, Threads, ProcOf, Target
  <1>20. ASSUME NEW d \in Daemons, DaemonEnds(d)
      PROVE  AliveInv'
    BY <1>20, ClientsAssumption, EndpointAssumption DEF DaemonEnds, End,
      Turn, Outage, setup, locks, environment, TypeOK, EndpointTypeOK, Lives,
      AliveInv, FrontIsAlive, Threads, ProcOf, Target
  <1>21. CASE PathLost
    BY <1>21, ClientsAssumption, EndpointAssumption DEF PathLost, Lose,
      Event, Outage, setup, locks, TypeOK, EndpointTypeOK, Lives, AliveInv,
      FrontIsAlive, Threads, ProcOf, Target
  <1>22. CASE Wipe
    BY <1>22, ClientsAssumption, EndpointAssumption DEF Wipe, Event, Outage,
      setup, locks, TypeOK, EndpointTypeOK, Lives, AliveInv, FrontIsAlive,
      Threads, ProcOf, Target
  <1>23. CASE UNCHANGED vars
    BY <1>23, ClientsAssumption, EndpointAssumption DEF vars, threads, locks,
      endpoint, setup, environment, history, TypeOK, EndpointTypeOK, Lives,
      AliveInv, FrontIsAlive, Threads, ProcOf, Target
  <1> QED BY <1>1, <1>2, <1>3, <1>4, <1>5, <1>6, <1>7, <1>8, <1>9, <1>10,
    <1>11, <1>12, <1>13, <1>14, <1>15, <1>16, <1>17, <1>18, <1>19, <1>20,
    <1>21, <1>22, <1>23, ClientsAssumption DEF Next, Step, Ensure, Threads

(* Without an outage every Client stays connected.                          *)
LEMMA UpStep ==
    ASSUME TypeOK, StageInv, OpenInv, AliveInv, UpInv, [Next]_vars
    PROVE  UpInv'
  <1>1. ASSUME NEW t \in Threads, BeginCall(t)
      PROVE  UpInv'
    BY <1>1, ClientsAssumption, EndpointAssumption DEF BeginCall, Goto,
      locks, endpoint, setup, environment, history, TypeOK, EndpointTypeOK,
      HistoryTypeOK, StageInv, OpenInv, AliveInv, FrontIsAlive, UpInv,
      Threads, ProcOf, Target, Launching, Ensuring
  <1>2. ASSUME NEW t \in Threads, Send(t)
      PROVE  UpInv'
    <2>0. /\ pc[t] = "send"
          /\ UNCHANGED <<endpoint, noSpawn, closed, environment, history>>
      BY <1>2 DEF Send
    <2>1. CASE t \in stale /\ Finish(t, "canceled") /\ UNCHANGED link
      BY <2>0, <2>1, ClientsAssumption, EndpointAssumption DEF Finish,
        Return, Over, endpoint, setup, environment, history, TypeOK,
        EndpointTypeOK, HistoryTypeOK, StageInv, OpenInv, AliveInv,
        FrontIsAlive, UpInv, Threads, ProcOf, Target, Launching, Ensuring
    <2>2. CASE t \notin stale /\ Reach(t)
      BY <2>0, <2>2, ClientsAssumption, EndpointAssumption DEF Reach, locks,
        endpoint, setup, environment, history, TypeOK, EndpointTypeOK,
        HistoryTypeOK, StageInv, OpenInv, AliveInv, FrontIsAlive, UpInv,
        Threads, ProcOf, Target, Launching, Ensuring
    <2>3. CASE t \notin stale /\ Miss(t) /\ Respawns(t, "unavailable") /\
      Retry(t)
      BY <2>0, <2>3, ClientsAssumption, EndpointAssumption DEF Miss,
        Respawns, Retry, locks, endpoint, setup, environment, history,
        TypeOK, EndpointTypeOK, HistoryTypeOK, StageInv, OpenInv, AliveInv,
        FrontIsAlive, UpInv, Threads, ProcOf, Target, Launching, Ensuring
    <2>4. CASE t \notin stale /\ Miss(t) /\ Finish(t, "unavailable")
      BY <2>0, <2>4, ClientsAssumption, EndpointAssumption DEF Miss, Finish,
        Return, Over, endpoint, setup, environment, history, TypeOK,
        EndpointTypeOK, HistoryTypeOK, StageInv, OpenInv, AliveInv,
        FrontIsAlive, UpInv, Threads, ProcOf, Target, Launching, Ensuring
    <2> QED BY <1>2, <2>1, <2>2, <2>3, <2>4, SendCases
  <1>3. ASSUME NEW t \in Threads, Answer(t)
      PROVE  UpInv'
    <2>0. /\ pc[t] = "answer"
          /\ UNCHANGED <<endpoint, noSpawn, closed, link, environment, history>>
      BY <1>3 DEF Answer
    <2>1. CASE life[at[t]] = "gone" /\ try[t] < 3 /\ Retry(t)
      BY <2>0, <2>1, ClientsAssumption, EndpointAssumption DEF Retry, locks,
        endpoint, setup, environment, history, TypeOK, EndpointTypeOK,
        HistoryTypeOK, StageInv, OpenInv, AliveInv, FrontIsAlive, UpInv,
        Threads, ProcOf, Target, Launching, Ensuring
    <2>2. CASE \E r \in Outcomes : Ends(t, r)
      BY <2>0, <2>2, ClientsAssumption, EndpointAssumption DEF Ends, Finish,
        Return, Over, endpoint, setup, environment, history, TypeOK,
        EndpointTypeOK, HistoryTypeOK, StageInv, OpenInv, AliveInv,
        FrontIsAlive, UpInv, Threads, ProcOf, Target, Launching, Ensuring
    <2> QED BY <1>3, <2>1, <2>2, AnswerCases
  <1>4. ASSUME NEW t \in Threads, Probe(t)
      PROVE  UpInv'
    <2>0. /\ pc[t] = "probe"
          /\ UNCHANGED <<endpoint, setup, environment, history>>
      BY <1>4 DEF Probe
    <2>1. CASE Ensured(t)
      <3>1. CASE ConnectAnew(t)
        BY <2>0, <2>1, ClientsAssumption, EndpointAssumption, <3>1 DEF
          Ensured, endpoint, setup, environment, history, TypeOK,
          EndpointTypeOK, HistoryTypeOK, StageInv, OpenInv, AliveInv,
          FrontIsAlive, UpInv, Threads, ProcOf, Target, Launching, Ensuring,
          ConnectAnew
      <3>2. CASE GoReconnect(t)
        BY <2>0, <2>1, ClientsAssumption, EndpointAssumption, <3>2 DEF
          Ensured, endpoint, setup, environment, history, TypeOK,
          EndpointTypeOK, HistoryTypeOK, StageInv, OpenInv, AliveInv,
          FrontIsAlive, UpInv, Threads, ProcOf, Target, Launching, Ensuring,
          GoReconnect
      <3> QED BY <2>1, <3>1, <3>2 DEF Ensured
    <2>2. CASE front = File /\ NotEnsured(t)
      BY <2>0, <2>2, ClientsAssumption, EndpointAssumption DEF NotEnsured,
        Return, Over, endpoint, setup, environment, history, TypeOK,
        EndpointTypeOK, HistoryTypeOK, StageInv, OpenInv, AliveInv,
        FrontIsAlive, UpInv, Threads, ProcOf, Target, Launching, Ensuring
    <2>3. CASE Absent(t, "open")
      BY <2>0, <2>3, ClientsAssumption, EndpointAssumption DEF Absent, locks,
        endpoint, setup, environment, history, TypeOK, EndpointTypeOK,
        HistoryTypeOK, StageInv, OpenInv, AliveInv, FrontIsAlive, UpInv,
        Threads, ProcOf, Target, Launching, Ensuring
    <2> QED BY <1>4, <2>1, <2>2, <2>3 DEF Probe, Probed
  <1>5. ASSUME NEW t \in Threads, OpenLock(t)
      PROVE  UpInv'
    BY <1>5, ClientsAssumption, EndpointAssumption DEF OpenLock, Goto, locks,
      endpoint, setup, environment, history, TypeOK, EndpointTypeOK,
      HistoryTypeOK, StageInv, OpenInv, AliveInv, FrontIsAlive, UpInv,
      Threads, ProcOf, Target, Launching, Ensuring
  <1>6. ASSUME NEW t \in Threads, AcquireLock(t)
      PROVE  UpInv'
    BY <1>6, ClientsAssumption, EndpointAssumption DEF AcquireLock, Goto,
      endpoint, setup, environment, history, TypeOK, EndpointTypeOK,
      HistoryTypeOK, StageInv, OpenInv, AliveInv, FrontIsAlive, UpInv,
      Threads, ProcOf, Target, Launching, Ensuring
  <1>7. ASSUME NEW t \in Threads, LockTimeout(t)
      PROVE  UpInv'
    BY <1>7, ClientsAssumption, EndpointAssumption DEF LockTimeout,
      NotEnsured, Return, Over, endpoint, setup, environment, history,
      TypeOK, EndpointTypeOK, HistoryTypeOK, StageInv, OpenInv, AliveInv,
      FrontIsAlive, UpInv, Threads, ProcOf, Target, Launching, Ensuring
  <1>8. ASSUME NEW t \in Threads, Recheck(t)
      PROVE  UpInv'
    <2>0. /\ pc[t] = "recheck"
          /\ UNCHANGED <<endpoint, setup, environment, history>>
      BY <1>8 DEF Recheck
    <2>1. CASE Ensured(t)
      <3>1. CASE ConnectAnew(t)
        BY <2>0, <2>1, ClientsAssumption, EndpointAssumption, <3>1 DEF
          Ensured, endpoint, setup, environment, history, TypeOK,
          EndpointTypeOK, HistoryTypeOK, StageInv, OpenInv, AliveInv,
          FrontIsAlive, UpInv, Threads, ProcOf, Target, Launching, Ensuring,
          ConnectAnew
      <3>2. CASE GoReconnect(t)
        BY <2>0, <2>1, ClientsAssumption, EndpointAssumption, <3>2 DEF
          Ensured, endpoint, setup, environment, history, TypeOK,
          EndpointTypeOK, HistoryTypeOK, StageInv, OpenInv, AliveInv,
          FrontIsAlive, UpInv, Threads, ProcOf, Target, Launching, Ensuring,
          GoReconnect
      <3> QED BY <2>1, <3>1, <3>2 DEF Ensured
    <2>2. CASE front = File /\ NotEnsured(t)
      BY <2>0, <2>2, ClientsAssumption, EndpointAssumption DEF NotEnsured,
        Return, Over, endpoint, setup, environment, history, TypeOK,
        EndpointTypeOK, HistoryTypeOK, StageInv, OpenInv, AliveInv,
        FrontIsAlive, UpInv, Threads, ProcOf, Target, Launching, Ensuring
    <2>3. CASE Absent(t, "launch")
      BY <2>0, <2>3, ClientsAssumption, EndpointAssumption DEF Absent, locks,
        endpoint, setup, environment, history, TypeOK, EndpointTypeOK,
        HistoryTypeOK, StageInv, OpenInv, AliveInv, FrontIsAlive, UpInv,
        Threads, ProcOf, Target, Launching, Ensuring
    <2> QED BY <1>8, <2>1, <2>2, <2>3 DEF Recheck, Probed
  <1>9. ASSUME NEW t \in Threads, NEW d \in Daemons, Launch(t, d)
      PROVE  UpInv'
    BY <1>9, ClientsAssumption, EndpointAssumption DEF Launch, Goto, Begin,
      Turn, setup, locks, environment, history, TypeOK, EndpointTypeOK,
      HistoryTypeOK, StageInv, OpenInv, AliveInv, FrontIsAlive, UpInv,
      Threads, ProcOf, Target, Launching, Ensuring
  <1>10. ASSUME NEW t \in Threads, LaunchFails(t)
      PROVE  UpInv'
    BY <1>10, ClientsAssumption, EndpointAssumption DEF LaunchFails,
      NotEnsured, Return, Over, endpoint, setup, environment, history,
      TypeOK, EndpointTypeOK, HistoryTypeOK, StageInv, OpenInv, AliveInv,
      FrontIsAlive, UpInv, Threads, ProcOf, Target, Launching, Ensuring
  <1>11. ASSUME NEW t \in Threads, AwaitReady(t)
      PROVE  UpInv'
    <2>1. CASE ConnectAnew(t)
      BY <1>11, ClientsAssumption, EndpointAssumption, <2>1 DEF AwaitReady,
        Ensured, endpoint, setup, environment, history, TypeOK,
        EndpointTypeOK, HistoryTypeOK, StageInv, OpenInv, AliveInv,
        FrontIsAlive, UpInv, Threads, ProcOf, Target, Launching, Ensuring,
        ConnectAnew
    <2>2. CASE GoReconnect(t)
      BY <1>11, ClientsAssumption, EndpointAssumption, <2>2 DEF AwaitReady,
        Ensured, endpoint, setup, environment, history, TypeOK,
        EndpointTypeOK, HistoryTypeOK, StageInv, OpenInv, AliveInv,
        FrontIsAlive, UpInv, Threads, ProcOf, Target, Launching, Ensuring,
        GoReconnect
    <2> QED BY <1>11, <2>1, <2>2 DEF AwaitReady, Ensured
  <1>12. ASSUME NEW t \in Threads, AwaitTimeout(t)
      PROVE  UpInv'
    BY <1>12, ClientsAssumption, EndpointAssumption DEF AwaitTimeout,
      NotEnsured, Return, Over, endpoint, setup, environment, TypeOK,
      EndpointTypeOK, HistoryTypeOK, StageInv, OpenInv, AliveInv,
      FrontIsAlive, UpInv, Threads, ProcOf, Target, Launching, Ensuring
  <1>13. ASSUME NEW c \in Calls, TakeMu(c)
      PROVE  UpInv'
    BY <1>13, ClientsAssumption, EndpointAssumption DEF TakeMu, Goto,
      endpoint, setup, environment, history, TypeOK, EndpointTypeOK,
      HistoryTypeOK, StageInv, OpenInv, AliveInv, FrontIsAlive, UpInv,
      Threads, ProcOf, Target, Launching, Ensuring
  <1>14. ASSUME NEW c \in Calls, Reconnect(c)
      PROVE  UpInv'
    BY <1>14, ClientsAssumption, EndpointAssumption DEF Reconnect, Goto,
      locks, endpoint, setup, environment, history, TypeOK, EndpointTypeOK,
      HistoryTypeOK, StageInv, OpenInv, AliveInv, FrontIsAlive, UpInv,
      Threads, ProcOf, Target, Launching, Ensuring
  <1>15. ASSUME NEW p \in Procs, Redial(p)
      PROVE  UpInv'
    BY <1>15, ClientsAssumption, EndpointAssumption DEF Redial, threads,
      locks, endpoint, setup, environment, history, TypeOK, EndpointTypeOK,
      HistoryTypeOK, StageInv, OpenInv, AliveInv, FrontIsAlive, UpInv,
      Threads, ProcOf, Target, Launching, Ensuring
  <1>16. ASSUME NEW p \in Procs, Close(p)
      PROVE  UpInv'
    BY <1>16, ClientsAssumption, EndpointAssumption DEF Close, endpoint,
      threads, locks, environment, history, TypeOK, EndpointTypeOK,
      HistoryTypeOK, StageInv, OpenInv, AliveInv, FrontIsAlive, UpInv,
      Threads, ProcOf, Target, Launching, Ensuring
  <1>17. ASSUME NEW p \in Procs, Crash(p)
      PROVE  UpInv'
    BY <1>17, ClientsAssumption, EndpointAssumption DEF Crash, Event, Over,
      endpoint, setup, TypeOK, EndpointTypeOK, HistoryTypeOK, StageInv,
      OpenInv, AliveInv, FrontIsAlive, UpInv, Threads, ProcOf, Target,
      Launching, Ensuring
  <1>18. ASSUME NEW d \in Daemons, DaemonAdvances(d)
      PROVE  UpInv'
    BY <1>18, ClientsAssumption, EndpointAssumption DEF DaemonAdvances,
      Listen, Ready, Turn, setup, threads, locks, environment, history,
      TypeOK, EndpointTypeOK, HistoryTypeOK, StageInv, OpenInv, AliveInv,
      FrontIsAlive, UpInv, Threads, ProcOf, Target, Launching, Ensuring
  <1>19. ASSUME NEW d \in Daemons, StartDirectly(d)
      PROVE  UpInv'
    BY <1>19, ClientsAssumption, EndpointAssumption DEF StartDirectly, Begin,
      Turn, Event, setup, threads, locks, TypeOK, EndpointTypeOK,
      HistoryTypeOK, StageInv, OpenInv, AliveInv, FrontIsAlive, UpInv,
      Threads, ProcOf, Target, Launching, Ensuring
  <1>20. ASSUME NEW d \in Daemons, DaemonEnds(d)
      PROVE  UpInv'
    BY <1>20, ClientsAssumption, EndpointAssumption DEF DaemonEnds, End,
      Turn, Outage, setup, locks, environment, TypeOK, EndpointTypeOK,
      HistoryTypeOK, StageInv, OpenInv, AliveInv, FrontIsAlive, UpInv,
      Threads, ProcOf, Target, Launching, Ensuring
  <1>21. CASE PathLost
    BY <1>21, ClientsAssumption, EndpointAssumption DEF PathLost, Lose,
      Event, Outage, setup, locks, TypeOK, EndpointTypeOK, HistoryTypeOK,
      StageInv, OpenInv, AliveInv, FrontIsAlive, UpInv, Threads, ProcOf,
      Target, Launching, Ensuring
  <1>22. CASE Wipe
    BY <1>22, ClientsAssumption, EndpointAssumption DEF Wipe, Event, Outage,
      setup, locks, TypeOK, EndpointTypeOK, HistoryTypeOK, StageInv, OpenInv,
      AliveInv, FrontIsAlive, UpInv, Threads, ProcOf, Target, Launching,
      Ensuring
  <1>23. CASE UNCHANGED vars
    BY <1>23, ClientsAssumption, EndpointAssumption DEF vars, threads, locks,
      endpoint, setup, environment, history, TypeOK, EndpointTypeOK,
      HistoryTypeOK, StageInv, OpenInv, AliveInv, FrontIsAlive, UpInv,
      Threads, ProcOf, Target, Launching, Ensuring
  <1> QED BY <1>1, <1>2, <1>3, <1>4, <1>5, <1>6, <1>7, <1>8, <1>9, <1>10,
    <1>11, <1>12, <1>13, <1>14, <1>15, <1>16, <1>17, <1>18, <1>19, <1>20,
    <1>21, <1>22, <1>23, ClientsAssumption DEF Next, Step, Ensure, Threads

(* While only clients act, whoever launches a daemon finds none.            *)
LEMMA CalmStep ==
    ASSUME TypeOK, FlockInv, AliveInv, CalmInv, [Next]_vars
    PROVE  CalmInv'
  <1>1. ASSUME NEW t \in Threads, BeginCall(t)
      PROVE  CalmInv'
    BY <1>1, ClientsAssumption, EndpointAssumption DEF BeginCall, Goto,
      locks, endpoint, setup, environment, history, TypeOK, EndpointTypeOK,
      HistoryTypeOK, FlockInv, AliveInv, FrontIsAlive, CalmInv,
      OneDaemonWhenCalm, Threads, Launching
  <1>2. ASSUME NEW t \in Threads, Send(t)
      PROVE  CalmInv'
    <2>0. /\ pc[t] = "send"
          /\ UNCHANGED <<endpoint, noSpawn, closed, environment, history>>
      BY <1>2 DEF Send
    <2>1. CASE t \in stale /\ Finish(t, "canceled") /\ UNCHANGED link
      BY <2>0, <2>1, ClientsAssumption, EndpointAssumption DEF Finish,
        Return, Over, endpoint, setup, environment, history, TypeOK,
        EndpointTypeOK, HistoryTypeOK, FlockInv, AliveInv, FrontIsAlive,
        CalmInv, OneDaemonWhenCalm, Threads, Launching
    <2>2. CASE t \notin stale /\ Reach(t)
      BY <2>0, <2>2, ClientsAssumption, EndpointAssumption DEF Reach, locks,
        endpoint, setup, environment, history, TypeOK, EndpointTypeOK,
        HistoryTypeOK, FlockInv, AliveInv, FrontIsAlive, CalmInv,
        OneDaemonWhenCalm, Threads, Launching
    <2>3. CASE t \notin stale /\ Miss(t) /\ Respawns(t, "unavailable") /\
      Retry(t)
      BY <2>0, <2>3, ClientsAssumption, EndpointAssumption DEF Miss,
        Respawns, Retry, locks, endpoint, setup, environment, history,
        TypeOK, EndpointTypeOK, HistoryTypeOK, FlockInv, AliveInv,
        FrontIsAlive, CalmInv, OneDaemonWhenCalm, Threads, Launching
    <2>4. CASE t \notin stale /\ Miss(t) /\ Finish(t, "unavailable")
      BY <2>0, <2>4, ClientsAssumption, EndpointAssumption DEF Miss, Finish,
        Return, Over, endpoint, setup, environment, history, TypeOK,
        EndpointTypeOK, HistoryTypeOK, FlockInv, AliveInv, FrontIsAlive,
        CalmInv, OneDaemonWhenCalm, Threads, Launching
    <2> QED BY <1>2, <2>1, <2>2, <2>3, <2>4, SendCases
  <1>3. ASSUME NEW t \in Threads, Answer(t)
      PROVE  CalmInv'
    <2>0. /\ pc[t] = "answer"
          /\ UNCHANGED <<endpoint, noSpawn, closed, link, environment, history>>
      BY <1>3 DEF Answer
    <2>1. CASE life[at[t]] = "gone" /\ try[t] < 3 /\ Retry(t)
      BY <2>0, <2>1, ClientsAssumption, EndpointAssumption DEF Retry, locks,
        endpoint, setup, environment, history, TypeOK, EndpointTypeOK,
        HistoryTypeOK, FlockInv, AliveInv, FrontIsAlive, CalmInv,
        OneDaemonWhenCalm, Threads, Launching
    <2>2. CASE \E r \in Outcomes : Ends(t, r)
      BY <2>0, <2>2, ClientsAssumption, EndpointAssumption DEF Ends, Finish,
        Return, Over, endpoint, setup, environment, history, TypeOK,
        EndpointTypeOK, HistoryTypeOK, FlockInv, AliveInv, FrontIsAlive,
        CalmInv, OneDaemonWhenCalm, Threads, Launching
    <2> QED BY <1>3, <2>1, <2>2, AnswerCases
  <1>4. ASSUME NEW t \in Threads, Probe(t)
      PROVE  CalmInv'
    <2>0. /\ pc[t] = "probe"
          /\ UNCHANGED <<endpoint, setup, environment, history>>
      BY <1>4 DEF Probe
    <2>1. CASE Ensured(t)
      <3>1. CASE ConnectAnew(t)
        BY <2>0, <2>1, ClientsAssumption, EndpointAssumption, <3>1 DEF
          Ensured, endpoint, setup, environment, history, TypeOK,
          EndpointTypeOK, HistoryTypeOK, FlockInv, AliveInv, FrontIsAlive,
          CalmInv, OneDaemonWhenCalm, Threads, Launching, ConnectAnew
      <3>2. CASE GoReconnect(t)
        BY <2>0, <2>1, ClientsAssumption, EndpointAssumption, <3>2 DEF
          Ensured, endpoint, setup, environment, history, TypeOK,
          EndpointTypeOK, HistoryTypeOK, FlockInv, AliveInv, FrontIsAlive,
          CalmInv, OneDaemonWhenCalm, Threads, Launching, GoReconnect
      <3> QED BY <2>1, <3>1, <3>2 DEF Ensured
    <2>2. CASE front = File /\ NotEnsured(t)
      BY <2>0, <2>2, ClientsAssumption, EndpointAssumption DEF NotEnsured,
        Return, Over, endpoint, setup, environment, history, TypeOK,
        EndpointTypeOK, HistoryTypeOK, FlockInv, AliveInv, FrontIsAlive,
        CalmInv, OneDaemonWhenCalm, Threads, Launching
    <2>3. CASE Absent(t, "open")
      BY <2>0, <2>3, ClientsAssumption, EndpointAssumption DEF Absent, locks,
        endpoint, setup, environment, history, TypeOK, EndpointTypeOK,
        HistoryTypeOK, FlockInv, AliveInv, FrontIsAlive, CalmInv,
        OneDaemonWhenCalm, Threads, Launching
    <2> QED BY <1>4, <2>1, <2>2, <2>3 DEF Probe, Probed
  <1>5. ASSUME NEW t \in Threads, OpenLock(t)
      PROVE  CalmInv'
    BY <1>5, ClientsAssumption, EndpointAssumption DEF OpenLock, Goto, locks,
      endpoint, setup, environment, history, TypeOK, EndpointTypeOK,
      HistoryTypeOK, FlockInv, AliveInv, FrontIsAlive, CalmInv,
      OneDaemonWhenCalm, Threads, Launching
  <1>6. ASSUME NEW t \in Threads, AcquireLock(t)
      PROVE  CalmInv'
    BY <1>6, ClientsAssumption, EndpointAssumption DEF AcquireLock, Goto,
      endpoint, setup, environment, history, TypeOK, EndpointTypeOK,
      HistoryTypeOK, FlockInv, AliveInv, FrontIsAlive, CalmInv,
      OneDaemonWhenCalm, Threads, Launching
  <1>7. ASSUME NEW t \in Threads, LockTimeout(t)
      PROVE  CalmInv'
    BY <1>7, ClientsAssumption, EndpointAssumption DEF LockTimeout,
      NotEnsured, Return, Over, endpoint, setup, environment, history,
      TypeOK, EndpointTypeOK, HistoryTypeOK, FlockInv, AliveInv,
      FrontIsAlive, CalmInv, OneDaemonWhenCalm, Threads, Launching
  <1>8. ASSUME NEW t \in Threads, Recheck(t)
      PROVE  CalmInv'
    <2>0. /\ pc[t] = "recheck"
          /\ UNCHANGED <<endpoint, setup, environment, history>>
      BY <1>8 DEF Recheck
    <2>1. CASE Ensured(t)
      <3>1. CASE ConnectAnew(t)
        BY <2>0, <2>1, ClientsAssumption, EndpointAssumption, <3>1 DEF
          Ensured, endpoint, setup, environment, history, TypeOK,
          EndpointTypeOK, HistoryTypeOK, FlockInv, AliveInv, FrontIsAlive,
          CalmInv, OneDaemonWhenCalm, Threads, Launching, ConnectAnew
      <3>2. CASE GoReconnect(t)
        BY <2>0, <2>1, ClientsAssumption, EndpointAssumption, <3>2 DEF
          Ensured, endpoint, setup, environment, history, TypeOK,
          EndpointTypeOK, HistoryTypeOK, FlockInv, AliveInv, FrontIsAlive,
          CalmInv, OneDaemonWhenCalm, Threads, Launching, GoReconnect
      <3> QED BY <2>1, <3>1, <3>2 DEF Ensured
    <2>2. CASE front = File /\ NotEnsured(t)
      BY <2>0, <2>2, ClientsAssumption, EndpointAssumption DEF NotEnsured,
        Return, Over, endpoint, setup, environment, history, TypeOK,
        EndpointTypeOK, HistoryTypeOK, FlockInv, AliveInv, FrontIsAlive,
        CalmInv, OneDaemonWhenCalm, Threads, Launching
    <2>3. CASE Absent(t, "launch")
      <3>1. calm => \A d \in Daemons : life[d] = "off"
        <4>1. SUFFICES ASSUME calm, NEW d \in Daemons, life[d] # "off"
                       PROVE  FALSE
          OBVIOUS
        <4>2. life[d] = "starting"
          BY <4>1, <2>3, EndpointAssumption
            DEF Absent, CalmInv, TypeOK, EndpointTypeOK, Lives
        <4>3. PICK u \in Threads : pc[u] = "await"
          BY <4>1, <4>2 DEF CalmInv
        <4>4. holder[0] = u /\ holder[0] = t
          BY <4>1, <4>3, <2>0, ClientsAssumption
            DEF CalmInv, FlockInv, Launching
        <4> QED BY <4>3, <4>4, <2>0
      <3> QED
        BY <2>0, <2>3, <3>1, ClientsAssumption, EndpointAssumption DEF Absent,
          locks, endpoint, environment, history, TypeOK, EndpointTypeOK,
          CalmInv, OneDaemonWhenCalm, Threads
    <2> QED BY <1>8, <2>1, <2>2, <2>3 DEF Recheck, Probed
  <1>9. ASSUME NEW t \in Threads, NEW d \in Daemons, Launch(t, d)
      PROVE  CalmInv'
    BY <1>9, ClientsAssumption, EndpointAssumption DEF Launch, Goto, Begin,
      Turn, setup, locks, environment, history, TypeOK, EndpointTypeOK,
      HistoryTypeOK, FlockInv, AliveInv, FrontIsAlive, CalmInv,
      OneDaemonWhenCalm, Threads, Launching
  <1>10. ASSUME NEW t \in Threads, LaunchFails(t)
      PROVE  CalmInv'
    BY <1>10, ClientsAssumption, EndpointAssumption DEF LaunchFails,
      NotEnsured, Return, Over, endpoint, setup, environment, history,
      TypeOK, EndpointTypeOK, HistoryTypeOK, FlockInv, AliveInv,
      FrontIsAlive, CalmInv, OneDaemonWhenCalm, Threads, Launching
  <1>11. ASSUME NEW t \in Threads, AwaitReady(t)
      PROVE  CalmInv'
    <2>0. /\ pc[t] = "await" /\ Ensured(t)
          /\ UNCHANGED <<endpoint, setup, environment, history>>
      BY <1>11 DEF AwaitReady
    <2>1. calm => \A d \in Daemons : life[d] # "starting"
      BY <2>0 DEF Ensured, AliveInv, FrontIsAlive, CalmInv, OneDaemonWhenCalm
    <2>2. CASE ConnectAnew(t)
      BY <2>0, <2>1, <2>2, ClientsAssumption, EndpointAssumption DEF Ensured,
        endpoint, environment, history, TypeOK, EndpointTypeOK, CalmInv,
        OneDaemonWhenCalm, Threads, ConnectAnew
    <2>3. CASE GoReconnect(t)
      BY <2>0, <2>1, <2>3, ClientsAssumption, EndpointAssumption DEF Ensured,
        endpoint, environment, history, TypeOK, EndpointTypeOK, CalmInv,
        OneDaemonWhenCalm, Threads, GoReconnect
    <2> QED BY <2>0, <2>2, <2>3 DEF Ensured
  <1>12. ASSUME NEW t \in Threads, AwaitTimeout(t)
      PROVE  CalmInv'
    BY <1>12, ClientsAssumption, EndpointAssumption DEF AwaitTimeout,
      NotEnsured, Return, Over, endpoint, setup, environment, TypeOK,
      EndpointTypeOK, HistoryTypeOK, FlockInv, AliveInv, FrontIsAlive,
      CalmInv, OneDaemonWhenCalm, Threads, Launching
  <1>13. ASSUME NEW c \in Calls, TakeMu(c)
      PROVE  CalmInv'
    BY <1>13, ClientsAssumption, EndpointAssumption DEF TakeMu, Goto,
      endpoint, setup, environment, history, TypeOK, EndpointTypeOK,
      HistoryTypeOK, FlockInv, AliveInv, FrontIsAlive, CalmInv,
      OneDaemonWhenCalm, Threads, Launching
  <1>14. ASSUME NEW c \in Calls, Reconnect(c)
      PROVE  CalmInv'
    BY <1>14, ClientsAssumption, EndpointAssumption DEF Reconnect, Goto,
      locks, endpoint, setup, environment, history, TypeOK, EndpointTypeOK,
      HistoryTypeOK, FlockInv, AliveInv, FrontIsAlive, CalmInv,
      OneDaemonWhenCalm, Threads, Launching
  <1>15. ASSUME NEW p \in Procs, Redial(p)
      PROVE  CalmInv'
    BY <1>15, ClientsAssumption, EndpointAssumption DEF Redial, threads,
      locks, endpoint, setup, environment, history, TypeOK, EndpointTypeOK,
      HistoryTypeOK, FlockInv, AliveInv, FrontIsAlive, CalmInv,
      OneDaemonWhenCalm, Threads, Launching
  <1>16. ASSUME NEW p \in Procs, Close(p)
      PROVE  CalmInv'
    BY <1>16, ClientsAssumption, EndpointAssumption DEF Close, endpoint,
      threads, locks, environment, history, TypeOK, EndpointTypeOK,
      HistoryTypeOK, FlockInv, AliveInv, FrontIsAlive, CalmInv,
      OneDaemonWhenCalm, Threads, Launching
  <1>17. ASSUME NEW p \in Procs, Crash(p)
      PROVE  CalmInv'
    BY <1>17, ClientsAssumption, EndpointAssumption DEF Crash, Event, Over,
      endpoint, setup, TypeOK, EndpointTypeOK, HistoryTypeOK, FlockInv,
      AliveInv, FrontIsAlive, CalmInv, OneDaemonWhenCalm, Threads, Launching
  <1>18. ASSUME NEW d \in Daemons, DaemonAdvances(d)
      PROVE  CalmInv'
    BY <1>18, ClientsAssumption, EndpointAssumption DEF DaemonAdvances,
      Listen, Ready, Turn, setup, threads, locks, environment, history,
      TypeOK, EndpointTypeOK, HistoryTypeOK, FlockInv, AliveInv,
      FrontIsAlive, CalmInv, OneDaemonWhenCalm, Threads, Launching
  <1>19. ASSUME NEW d \in Daemons, StartDirectly(d)
      PROVE  CalmInv'
    BY <1>19, ClientsAssumption, EndpointAssumption DEF StartDirectly, Begin,
      Turn, Event, setup, threads, locks, TypeOK, EndpointTypeOK,
      HistoryTypeOK, FlockInv, AliveInv, FrontIsAlive, CalmInv,
      OneDaemonWhenCalm, Threads, Launching
  <1>20. ASSUME NEW d \in Daemons, DaemonEnds(d)
      PROVE  CalmInv'
    BY <1>20, ClientsAssumption, EndpointAssumption DEF DaemonEnds, End,
      Turn, Outage, setup, locks, environment, TypeOK, EndpointTypeOK,
      HistoryTypeOK, FlockInv, AliveInv, FrontIsAlive, CalmInv,
      OneDaemonWhenCalm, Threads, Launching
  <1>21. CASE PathLost
    BY <1>21, ClientsAssumption, EndpointAssumption DEF PathLost, Lose,
      Event, Outage, setup, locks, TypeOK, EndpointTypeOK, HistoryTypeOK,
      FlockInv, AliveInv, FrontIsAlive, CalmInv, OneDaemonWhenCalm, Threads,
      Launching
  <1>22. CASE Wipe
    BY <1>22, ClientsAssumption, EndpointAssumption DEF Wipe, Event, Outage,
      setup, locks, TypeOK, EndpointTypeOK, HistoryTypeOK, FlockInv,
      AliveInv, FrontIsAlive, CalmInv, OneDaemonWhenCalm, Threads, Launching
  <1>23. CASE UNCHANGED vars
    BY <1>23, ClientsAssumption, EndpointAssumption DEF vars, threads, locks,
      endpoint, setup, environment, history, TypeOK, EndpointTypeOK,
      HistoryTypeOK, FlockInv, AliveInv, FrontIsAlive, CalmInv,
      OneDaemonWhenCalm, Threads, Launching
  <1> QED BY <1>1, <1>2, <1>3, <1>4, <1>5, <1>6, <1>7, <1>8, <1>9, <1>10,
    <1>11, <1>12, <1>13, <1>14, <1>15, <1>16, <1>17, <1>18, <1>19, <1>20,
    <1>21, <1>22, <1>23, ClientsAssumption DEF Next, Step, Ensure, Threads

(* Every step keeps a daemon for those that EnsureDaemon served.            *)
LEMMA ServedStep ==
    ASSUME TypeOK, StageInv, OpenInv, MuInv, AliveInv, ServedInv, [Next]_vars
    PROVE  ServedInv'
  <1>1. ASSUME NEW t \in Threads, BeginCall(t)
      PROVE  ServedInv'
    BY <1>1, ClientsAssumption, EndpointAssumption DEF BeginCall, Goto,
      locks, endpoint, setup, environment, history, TypeOK, EndpointTypeOK,
      StageInv, OpenInv, MuInv, AliveInv, FrontIsAlive, ServedInv, Respawned,
      Locking, Threads, ProcOf, Target, Launching, Ensuring
  <1>2. ASSUME NEW t \in Threads, Send(t)
      PROVE  ServedInv'
    <2>0. /\ pc[t] = "send"
          /\ UNCHANGED <<endpoint, noSpawn, closed, environment, history>>
      BY <1>2 DEF Send
    <2>1. CASE t \in stale /\ Finish(t, "canceled") /\ UNCHANGED link
      BY <2>0, <2>1, ClientsAssumption, EndpointAssumption DEF Finish,
        Return, Over, endpoint, setup, environment, history, TypeOK,
        EndpointTypeOK, StageInv, OpenInv, MuInv, AliveInv, FrontIsAlive,
        ServedInv, Respawned, Locking, Threads, ProcOf, Target, Launching,
        Ensuring
    <2>2. CASE t \notin stale /\ Reach(t)
      BY <2>0, <2>2, ClientsAssumption, EndpointAssumption DEF Reach, locks,
        endpoint, setup, environment, history, TypeOK, EndpointTypeOK,
        StageInv, OpenInv, MuInv, AliveInv, FrontIsAlive, ServedInv,
        Respawned, Locking, Threads, ProcOf, Target, Launching, Ensuring
    <2>3. CASE t \notin stale /\ Miss(t) /\ Respawns(t, "unavailable") /\
      Retry(t)
      BY <2>0, <2>3, ClientsAssumption, EndpointAssumption DEF Miss,
        Respawns, Retry, locks, endpoint, setup, environment, history,
        TypeOK, EndpointTypeOK, StageInv, OpenInv, MuInv, AliveInv,
        FrontIsAlive, ServedInv, Respawned, Locking, Threads, ProcOf, Target,
        Launching, Ensuring
    <2>4. CASE t \notin stale /\ Miss(t) /\ Finish(t, "unavailable")
      BY <2>0, <2>4, ClientsAssumption, EndpointAssumption DEF Miss, Finish,
        Return, Over, endpoint, setup, environment, history, TypeOK,
        EndpointTypeOK, StageInv, OpenInv, MuInv, AliveInv, FrontIsAlive,
        ServedInv, Respawned, Locking, Threads, ProcOf, Target, Launching,
        Ensuring
    <2> QED BY <1>2, <2>1, <2>2, <2>3, <2>4, SendCases
  <1>3. ASSUME NEW t \in Threads, Answer(t)
      PROVE  ServedInv'
    <2>0. /\ pc[t] = "answer"
          /\ UNCHANGED <<endpoint, noSpawn, closed, link, environment, history>>
      BY <1>3 DEF Answer
    <2>1. CASE life[at[t]] = "gone" /\ try[t] < 3 /\ Retry(t)
      BY <2>0, <2>1, ClientsAssumption, EndpointAssumption DEF Retry, locks,
        endpoint, setup, environment, history, TypeOK, EndpointTypeOK,
        StageInv, OpenInv, MuInv, AliveInv, FrontIsAlive, ServedInv,
        Respawned, Locking, Threads, ProcOf, Target, Launching, Ensuring
    <2>2. CASE \E r \in Outcomes : Ends(t, r)
      BY <2>0, <2>2, ClientsAssumption, EndpointAssumption DEF Ends, Finish,
        Return, Over, endpoint, setup, environment, history, TypeOK,
        EndpointTypeOK, StageInv, OpenInv, MuInv, AliveInv, FrontIsAlive,
        ServedInv, Respawned, Locking, Threads, ProcOf, Target, Launching,
        Ensuring
    <2> QED BY <1>3, <2>1, <2>2, AnswerCases
  <1>4. ASSUME NEW t \in Threads, Probe(t)
      PROVE  ServedInv'
    <2>0. /\ pc[t] = "probe"
          /\ UNCHANGED <<endpoint, setup, environment, history>>
      BY <1>4 DEF Probe
    <2>1. CASE Ensured(t)
      <3>1. CASE ConnectAnew(t)
        BY <2>0, <2>1, ClientsAssumption, EndpointAssumption, <3>1 DEF
          Ensured, endpoint, setup, environment, history, TypeOK,
          EndpointTypeOK, StageInv, OpenInv, MuInv, AliveInv, FrontIsAlive,
          ServedInv, Respawned, Locking, Threads, ProcOf, Target, Launching,
          Ensuring, ConnectAnew
      <3>2. CASE GoReconnect(t)
        BY <2>0, <2>1, ClientsAssumption, EndpointAssumption, <3>2 DEF
          Ensured, endpoint, setup, environment, history, TypeOK,
          EndpointTypeOK, StageInv, OpenInv, MuInv, AliveInv, FrontIsAlive,
          ServedInv, Respawned, Locking, Threads, ProcOf, Target, Launching,
          Ensuring, GoReconnect
      <3> QED BY <2>1, <3>1, <3>2 DEF Ensured
    <2>2. CASE front = File /\ NotEnsured(t)
      BY <2>0, <2>2, ClientsAssumption, EndpointAssumption DEF NotEnsured,
        Return, Over, endpoint, setup, environment, history, TypeOK,
        EndpointTypeOK, StageInv, OpenInv, MuInv, AliveInv, FrontIsAlive,
        ServedInv, Respawned, Locking, Threads, ProcOf, Target, Launching,
        Ensuring
    <2>3. CASE Absent(t, "open")
      BY <2>0, <2>3, ClientsAssumption, EndpointAssumption DEF Absent, locks,
        endpoint, setup, environment, history, TypeOK, EndpointTypeOK,
        StageInv, OpenInv, MuInv, AliveInv, FrontIsAlive, ServedInv,
        Respawned, Locking, Threads, ProcOf, Target, Launching, Ensuring
    <2> QED BY <1>4, <2>1, <2>2, <2>3 DEF Probe, Probed
  <1>5. ASSUME NEW t \in Threads, OpenLock(t)
      PROVE  ServedInv'
    BY <1>5, ClientsAssumption, EndpointAssumption DEF OpenLock, Goto, locks,
      endpoint, setup, environment, history, TypeOK, EndpointTypeOK,
      StageInv, OpenInv, MuInv, AliveInv, FrontIsAlive, ServedInv, Respawned,
      Locking, Threads, ProcOf, Target, Launching, Ensuring
  <1>6. ASSUME NEW t \in Threads, AcquireLock(t)
      PROVE  ServedInv'
    BY <1>6, ClientsAssumption, EndpointAssumption DEF AcquireLock, Goto,
      endpoint, setup, environment, history, TypeOK, EndpointTypeOK,
      StageInv, OpenInv, MuInv, AliveInv, FrontIsAlive, ServedInv, Respawned,
      Locking, Threads, ProcOf, Target, Launching, Ensuring
  <1>7. ASSUME NEW t \in Threads, LockTimeout(t)
      PROVE  ServedInv'
    BY <1>7, ClientsAssumption, EndpointAssumption DEF LockTimeout,
      NotEnsured, Return, Over, endpoint, setup, environment, history,
      TypeOK, EndpointTypeOK, StageInv, OpenInv, MuInv, AliveInv,
      FrontIsAlive, ServedInv, Respawned, Locking, Threads, ProcOf, Target,
      Launching, Ensuring
  <1>8. ASSUME NEW t \in Threads, Recheck(t)
      PROVE  ServedInv'
    <2>0. /\ pc[t] = "recheck"
          /\ UNCHANGED <<endpoint, setup, environment, history>>
      BY <1>8 DEF Recheck
    <2>1. CASE Ensured(t)
      <3>1. CASE ConnectAnew(t)
        BY <2>0, <2>1, ClientsAssumption, EndpointAssumption, <3>1 DEF
          Ensured, endpoint, setup, environment, history, TypeOK,
          EndpointTypeOK, StageInv, OpenInv, MuInv, AliveInv, FrontIsAlive,
          ServedInv, Respawned, Locking, Threads, ProcOf, Target, Launching,
          Ensuring, ConnectAnew
      <3>2. CASE GoReconnect(t)
        BY <2>0, <2>1, ClientsAssumption, EndpointAssumption, <3>2 DEF
          Ensured, endpoint, setup, environment, history, TypeOK,
          EndpointTypeOK, StageInv, OpenInv, MuInv, AliveInv, FrontIsAlive,
          ServedInv, Respawned, Locking, Threads, ProcOf, Target, Launching,
          Ensuring, GoReconnect
      <3> QED BY <2>1, <3>1, <3>2 DEF Ensured
    <2>2. CASE front = File /\ NotEnsured(t)
      BY <2>0, <2>2, ClientsAssumption, EndpointAssumption DEF NotEnsured,
        Return, Over, endpoint, setup, environment, history, TypeOK,
        EndpointTypeOK, StageInv, OpenInv, MuInv, AliveInv, FrontIsAlive,
        ServedInv, Respawned, Locking, Threads, ProcOf, Target, Launching,
        Ensuring
    <2>3. CASE Absent(t, "launch")
      BY <2>0, <2>3, ClientsAssumption, EndpointAssumption DEF Absent, locks,
        endpoint, setup, environment, history, TypeOK, EndpointTypeOK,
        StageInv, OpenInv, MuInv, AliveInv, FrontIsAlive, ServedInv,
        Respawned, Locking, Threads, ProcOf, Target, Launching, Ensuring
    <2> QED BY <1>8, <2>1, <2>2, <2>3 DEF Recheck, Probed
  <1>9. ASSUME NEW t \in Threads, NEW d \in Daemons, Launch(t, d)
      PROVE  ServedInv'
    BY <1>9, ClientsAssumption, EndpointAssumption DEF Launch, Goto, Begin,
      Turn, setup, locks, environment, history, TypeOK, EndpointTypeOK,
      StageInv, OpenInv, MuInv, AliveInv, FrontIsAlive, ServedInv, Respawned,
      Locking, Threads, ProcOf, Target, Launching, Ensuring
  <1>10. ASSUME NEW t \in Threads, LaunchFails(t)
      PROVE  ServedInv'
    BY <1>10, ClientsAssumption, EndpointAssumption DEF LaunchFails,
      NotEnsured, Return, Over, endpoint, setup, environment, history,
      TypeOK, EndpointTypeOK, StageInv, OpenInv, MuInv, AliveInv,
      FrontIsAlive, ServedInv, Respawned, Locking, Threads, ProcOf, Target,
      Launching, Ensuring
  <1>11. ASSUME NEW t \in Threads, AwaitReady(t)
      PROVE  ServedInv'
    <2>1. CASE ConnectAnew(t)
      BY <1>11, ClientsAssumption, EndpointAssumption, <2>1 DEF AwaitReady,
        Ensured, endpoint, setup, environment, history, TypeOK,
        EndpointTypeOK, StageInv, OpenInv, MuInv, AliveInv, FrontIsAlive,
        ServedInv, Respawned, Locking, Threads, ProcOf, Target, Launching,
        Ensuring, ConnectAnew
    <2>2. CASE GoReconnect(t)
      BY <1>11, ClientsAssumption, EndpointAssumption, <2>2 DEF AwaitReady,
        Ensured, endpoint, setup, environment, history, TypeOK,
        EndpointTypeOK, StageInv, OpenInv, MuInv, AliveInv, FrontIsAlive,
        ServedInv, Respawned, Locking, Threads, ProcOf, Target, Launching,
        Ensuring, GoReconnect
    <2> QED BY <1>11, <2>1, <2>2 DEF AwaitReady, Ensured
  <1>12. ASSUME NEW t \in Threads, AwaitTimeout(t)
      PROVE  ServedInv'
    BY <1>12, ClientsAssumption, EndpointAssumption DEF AwaitTimeout,
      NotEnsured, Return, Over, endpoint, setup, environment, TypeOK,
      EndpointTypeOK, StageInv, OpenInv, MuInv, AliveInv, FrontIsAlive,
      ServedInv, Respawned, Locking, Threads, ProcOf, Target, Launching,
      Ensuring
  <1>13. ASSUME NEW c \in Calls, TakeMu(c)
      PROVE  ServedInv'
    BY <1>13, ClientsAssumption, EndpointAssumption DEF TakeMu, Goto,
      endpoint, setup, environment, history, TypeOK, EndpointTypeOK,
      StageInv, OpenInv, MuInv, AliveInv, FrontIsAlive, ServedInv, Respawned,
      Locking, Threads, ProcOf, Target, Launching, Ensuring
  <1>14. ASSUME NEW c \in Calls, Reconnect(c)
      PROVE  ServedInv'
    <2>1. \A u \in Calls \ {c} :
             Owner[u] = Owner[c] /\ pc[u] \in {"send", "answer"} =>
                 ~ (try[u] > 1)
      <3>1. mu[Owner[c]] = c
        BY <1>14, ClientsAssumption
          DEF Reconnect, Goto, StageInv, MuInv, Locking, Threads
      <3> QED BY <3>1, ClientsAssumption DEF MuInv, Locking
    <2> QED
      BY <1>14, <2>1, ClientsAssumption, EndpointAssumption DEF Reconnect, Goto,
        locks, endpoint, setup, environment, history, TypeOK, EndpointTypeOK,
        StageInv, OpenInv, AliveInv, FrontIsAlive, ServedInv, Respawned,
        Threads, ProcOf
  <1>15. ASSUME NEW p \in Procs, Redial(p)
      PROVE  ServedInv'
    BY <1>15, ClientsAssumption, EndpointAssumption DEF Redial, threads,
      locks, endpoint, setup, environment, history, TypeOK, EndpointTypeOK,
      StageInv, OpenInv, MuInv, AliveInv, FrontIsAlive, ServedInv, Respawned,
      Locking, Threads, ProcOf, Target, Launching, Ensuring
  <1>16. ASSUME NEW p \in Procs, Close(p)
      PROVE  ServedInv'
    BY <1>16, ClientsAssumption, EndpointAssumption DEF Close, endpoint,
      threads, locks, environment, history, TypeOK, EndpointTypeOK, StageInv,
      OpenInv, MuInv, AliveInv, FrontIsAlive, ServedInv, Respawned, Locking,
      Threads, ProcOf, Target, Launching, Ensuring
  <1>17. ASSUME NEW p \in Procs, Crash(p)
      PROVE  ServedInv'
    BY <1>17, ClientsAssumption, EndpointAssumption DEF Crash, Event, Over,
      endpoint, setup, TypeOK, EndpointTypeOK, StageInv, OpenInv, MuInv,
      AliveInv, FrontIsAlive, ServedInv, Respawned, Locking, Threads, ProcOf,
      Target, Launching, Ensuring
  <1>18. ASSUME NEW d \in Daemons, DaemonAdvances(d)
      PROVE  ServedInv'
    BY <1>18, ClientsAssumption, EndpointAssumption DEF DaemonAdvances,
      Listen, Ready, Turn, setup, threads, locks, environment, history,
      TypeOK, EndpointTypeOK, StageInv, OpenInv, MuInv, AliveInv,
      FrontIsAlive, ServedInv, Respawned, Locking, Threads, ProcOf, Target,
      Launching, Ensuring
  <1>19. ASSUME NEW d \in Daemons, StartDirectly(d)
      PROVE  ServedInv'
    BY <1>19, ClientsAssumption, EndpointAssumption DEF StartDirectly, Begin,
      Turn, Event, setup, threads, locks, TypeOK, EndpointTypeOK, StageInv,
      OpenInv, MuInv, AliveInv, FrontIsAlive, ServedInv, Respawned, Locking,
      Threads, ProcOf, Target, Launching, Ensuring
  <1>20. ASSUME NEW d \in Daemons, DaemonEnds(d)
      PROVE  ServedInv'
    BY <1>20, ClientsAssumption, EndpointAssumption DEF DaemonEnds, End,
      Turn, Outage, setup, locks, environment, TypeOK, EndpointTypeOK,
      StageInv, OpenInv, MuInv, AliveInv, FrontIsAlive, ServedInv, Respawned,
      Locking, Threads, ProcOf, Target, Launching, Ensuring
  <1>21. CASE PathLost
    BY <1>21, ClientsAssumption, EndpointAssumption DEF PathLost, Lose,
      Event, Outage, setup, locks, TypeOK, EndpointTypeOK, StageInv, OpenInv,
      MuInv, AliveInv, FrontIsAlive, ServedInv, Respawned, Locking, Threads,
      ProcOf, Target, Launching, Ensuring
  <1>22. CASE Wipe
    BY <1>22, ClientsAssumption, EndpointAssumption DEF Wipe, Event, Outage,
      setup, locks, TypeOK, EndpointTypeOK, StageInv, OpenInv, MuInv,
      AliveInv, FrontIsAlive, ServedInv, Respawned, Locking, Threads, ProcOf,
      Target, Launching, Ensuring
  <1>23. CASE UNCHANGED vars
    BY <1>23, ClientsAssumption, EndpointAssumption DEF vars, threads, locks,
      endpoint, setup, environment, history, TypeOK, EndpointTypeOK,
      StageInv, OpenInv, MuInv, AliveInv, FrontIsAlive, ServedInv, Respawned,
      Locking, Threads, ProcOf, Target, Launching, Ensuring
  <1> QED BY <1>1, <1>2, <1>3, <1>4, <1>5, <1>6, <1>7, <1>8, <1>9, <1>10,
    <1>11, <1>12, <1>13, <1>14, <1>15, <1>16, <1>17, <1>18, <1>19, <1>20,
    <1>21, <1>22, <1>23, ClientsAssumption DEF Next, Step, Ensure, Threads

-----------------------------------------------------------------------------
(* Everything at rest satisfies the invariant.                              *)
LEMMA InitIInv ==
    ASSUME Init PROVE IInv
  <1>1. TypeOK
    <2>1. HistoryTypeOK
      BY Zenon DEF Init, HistoryTypeOK
    <2> QED BY <2>1, ClientsAssumption, EndpointAssumption
      DEF Init, EndpointInit, TypeOK, EndpointTypeOK, Lives, Threads, Places
  <1>2. StageInv /\ OpenInv /\ MuInv
    BY ClientsAssumption DEF Init, StageInv, OpenInv, MuInv, Locking,
      Ensuring, Launching, Threads
  <1>3. FlockInv
    BY ClientsAssumption DEF Init, FlockInv, Launching, Threads
  <1>4. AliveInv /\ UpInv
    BY ClientsAssumption, EndpointAssumption
      DEF Init, EndpointInit, AliveInv, FrontIsAlive, UpInv, Threads
  <1>5. CalmInv
    BY DEF Init, EndpointInit, CalmInv, OneDaemonWhenCalm
  <1>6. ServedInv
    BY ClientsAssumption DEF Init, ServedInv, Respawned, Threads
  <1> QED BY <1>1, <1>2, <1>3, <1>4, <1>5, <1>6 DEF IInv

(* Every step keeps the invariant.                                          *)
LEMMA IInvStep ==
    ASSUME IInv, [Next]_vars PROVE IInv'
  <1>1. TypeOK' /\ StageInv' /\ OpenInv' /\ MuInv' /\ FlockInv'
    BY HistoryStep, TypeStep, StageStep, OpenStep, MuStep, FlockStep DEF IInv
  <1>2. AliveInv' /\ UpInv' /\ CalmInv' /\ ServedInv'
    BY AliveStep, UpStep, CalmStep, ServedStep DEF IInv
  <1> QED BY <1>1, <1>2 DEF IInv

(* The inductive invariant holds in every behaviour of Clients.             *)
THEOREM Invariant == Spec => []IInv
  <1>1. Init => IInv BY InitIInv
  <1>2. IInv /\ [Next]_vars => IInv' BY IInvStep
  <1> QED BY <1>1, <1>2, PTL DEF Spec

(* Mutual exclusion of mu and of every spawn.lock file, for any number of   *)
(* processes, calls and spawn.lock files (Embed, EnsureDaemon).             *)
THEOREM LocksAreHeld == Spec => []LocksMatch
  <1>1. IInv => LocksMatch
    BY DEF IInv, MuInv, FlockInv, LocksMatch
  <1> QED BY <1>1, Invariant, PTL

(* Any number of processes together launch one daemon (EnsureDaemon).       *)
THEOREM LaunchesOneDaemon == Spec => []OneDaemonWhenCalm
  <1>1. IInv /\ calm => OneDaemonWhenCalm
    BY DEF IInv, CalmInv
  <1>2. IInv => OneDaemonWhenCalm
    BY <1>1 DEF OneDaemonWhenCalm
  <1> QED BY <1>2, Invariant, PTL

(* How a thread comes to return an error of the connection.                 *)
LEMMA FailureCases ==
    ASSUME IInv, Next, NEW t \in Threads, NEW r \in Failures,
           failed' = <<t, r>>
    PROVE  \/ r = "canceled" /\ t \in stale
           \/ /\ r = "unavailable" /\ t \notin stale
              /\ pc[t] = "send" /\ Target(t) \notin Daemons
           \/ /\ r = "unavailable"
              /\ pc[t] = "answer" /\ life[at[t]] = "gone"
  <1> USE DEF Failures
  <1>1. <<>> # <<t, r>>
    OBVIOUS
  <1>2. ASSUME NEW u \in Threads, Send(u)
        PROVE  \/ r = "canceled" /\ t \in stale
               \/ /\ r = "unavailable" /\ t \notin stale
                  /\ pc[t] = "send" /\ Target(t) \notin Daemons
    <2>1. CASE u \in stale /\ Finish(u, "canceled")
      BY <1>1, <2>1 DEF Finish, Return
    <2>2. CASE u \notin stale /\ Reach(u)
      BY <1>1, <2>2 DEF Reach
    <2>3. CASE Miss(u) /\ Retry(u)
      BY <1>1, <2>3 DEF Retry
    <2>4. CASE u \notin stale /\ Miss(u) /\ Finish(u, "unavailable")
      BY <1>1, <1>2, <2>4 DEF Send, Miss, Finish, Return
    <2> QED BY <1>2, <2>1, <2>2, <2>3, <2>4, SendCases DEF IInv
  <1>3. ASSUME NEW u \in Threads, Answer(u)
        PROVE  \/ r = "canceled" /\ t \in stale
               \/ /\ r = "unavailable"
                  /\ pc[t] = "answer" /\ life[at[t]] = "gone"
    <2>1. CASE Retry(u)
      BY <1>1, <2>1 DEF Retry
    <2>2. CASE \E q \in Outcomes : Ends(u, q)
      BY <1>1, <1>3, <2>2 DEF Answer, Ends, Finish, Return
    <2> QED BY <1>3, <2>1, <2>2, AnswerCases DEF IInv
  <1>4. ASSUME NEW u \in Threads, NotEnsured(u)
        PROVE  FALSE
    BY <1>1, <1>4 DEF NotEnsured, Return
  <1>5. ASSUME NEW u \in Threads, Ensure(u)
        PROVE  FALSE
    BY <1>1, <1>4, <1>5 DEF Ensure, Probe, Recheck, Probed, Ensured, Absent,
      OpenLock, AcquireLock, LockTimeout, Launch, LaunchFails, AwaitReady,
      AwaitTimeout
  <1>6. ASSUME NEW u \in Threads, BeginCall(u) PROVE FALSE
    BY <1>1, <1>6 DEF BeginCall
  <1>7. ASSUME NEW c \in Calls, TakeMu(c) \/ Reconnect(c) PROVE FALSE
    BY <1>1, <1>7 DEF TakeMu, Reconnect
  <1>8. ASSUME NEW p \in Procs, Redial(p) \/ Close(p) \/ Crash(p) PROVE FALSE
    BY <1>1, <1>8 DEF Redial, Close, Crash
  <1>9. ASSUME NEW d \in Daemons,
               DaemonAdvances(d) \/ StartDirectly(d) \/ DaemonEnds(d)
        PROVE  FALSE
    BY <1>1, <1>9 DEF DaemonAdvances, StartDirectly, DaemonEnds, Outage
  <1>10. ~ PathLost /\ ~ Wipe
    BY <1>1 DEF PathLost, Wipe, Outage
  <1> QED
    BY <1>2, <1>3, <1>5, <1>6, <1>7, <1>8, <1>9, <1>10 DEF Next, Step

(* A thread that EnsureDaemon served does not fail for want of a daemon     *)
(* unless one ended or lost the path since (Embed, Connect).                *)
THEOREM RespawnIsWorthIt == Spec => RespawnedCallIsServed
  <1>1. ASSUME IInv, [Next]_vars
        PROVE  [\A t \in Threads :
                   Returns(t, {"unavailable", "canceled"}) /\ try[t] = 3 =>
                       t \in lost]_vars
    <2>1. SUFFICES ASSUME Next, NEW t \in Threads, NEW r \in Failures,
                          failed' = <<t, r>>, try[t] = 3, t \notin lost
                   PROVE  FALSE
      BY <1>1 DEF Returns, Failures
    <2>2. t \notin stale
      BY <1>1, <2>1 DEF IInv, TypeOK, ServedInv
    <2>3. ~ (pc[t] = "send" /\ Target(t) \notin Daemons)
      BY <1>1, <2>1, ClientsAssumption
        DEF IInv, TypeOK, ServedInv, Respawned, Target
    <2>4. ~ (pc[t] = "answer" /\ life[at[t]] = "gone")
      BY <1>1, <2>1 DEF IInv, ServedInv, Respawned
    <2> QED BY <1>1, <2>1, <2>2, <2>3, <2>4, FailureCases
  <1> QED BY <1>1, Invariant, PTL DEF Spec, RespawnedCallIsServed

(* Only an outage, or its own Client's Close, can cut a call                *)
(* (reconnectLocked).                                                       *)
THEOREM NobodyIsCutInVain == Spec => CancelOnlyAfterOutage
  <1>1. ASSUME IInv, [Next]_vars
        PROVE  [\A c \in Calls :
                   Returns(c, {"canceled"}) =>
                       outage \/ Owner[c] \in closed]_vars
    <2>1. SUFFICES ASSUME Next, NEW c \in Calls,
                          failed' = <<c, "canceled">>, ~ outage
                   PROVE  Owner[c] \in closed
      BY <1>1 DEF Returns
    <2>2. c \in stale
      BY <1>1, <2>1, FailureCases DEF Failures, Threads
    <2> QED BY <1>1, <2>1, <2>2 DEF IInv, UpInv
  <1> QED BY <1>1, Invariant, PTL DEF Spec, CancelOnlyAfterOutage

(* Whatever clients and their surroundings do to the daemons and the path   *)
(* is a step of Endpoint, which Daemons implements.                         *)
THEOREM ClientsUseEndpoint == Spec => EndpointSpec
  <1> USE DEF endpoint, EndpointNext
  <1>1. ASSUME NEW t \in Threads, BeginCall(t) \/ Step(t)
        PROVE  [EndpointNext]_endpoint
    BY <1>1 DEF BeginCall, Step, Send, Answer, Ensure, Probe, OpenLock,
      AcquireLock, LockTimeout, Recheck, Launch, LaunchFails, AwaitReady,
      AwaitTimeout, Reconnect
  <1>2. ASSUME NEW c \in Calls, TakeMu(c)
        PROVE  [EndpointNext]_endpoint
    BY <1>2 DEF TakeMu
  <1>3. ASSUME NEW p \in Procs, Redial(p) \/ Close(p) \/ Crash(p)
        PROVE  [EndpointNext]_endpoint
    BY <1>3 DEF Redial, Close, Crash
  <1>4. ASSUME NEW d \in Daemons,
               DaemonAdvances(d) \/ StartDirectly(d) \/ DaemonEnds(d)
        PROVE  [EndpointNext]_endpoint
    BY <1>4 DEF DaemonAdvances, StartDirectly, DaemonEnds
  <1>5. ASSUME PathLost \/ Wipe
        PROVE  [EndpointNext]_endpoint
    BY <1>5 DEF PathLost, Wipe, Lose
  <1>6. [Next]_vars => [EndpointNext]_endpoint
    BY <1>1, <1>2, <1>3, <1>4, <1>5 DEF Next, vars
  <1>7. Init => EndpointInit
    BY DEF Init
  <1> QED BY <1>6, <1>7, PTL DEF Spec, EndpointSpec

-----------------------------------------------------------------------------
(* The safety half of CallsReturn: how far a thread is from its return, if  *)
(* no request were left to try.                                             *)
Left ==
    [off |-> 12, send |-> 11, answer |-> 10, lock |-> 9, probe |-> 8,
     open |-> 7, wait |-> 6, recheck |-> 5, launch |-> 4, await |-> 3,
     reconnect |-> 2, done |-> 1]

Work(t) == IF pc[t] = "done" THEN 0 ELSE 12 * (3 - try[t]) + Left[pc[t]]

Keeps(t) == pc'[t] = pc[t] /\ try'[t] = try[t]

Nearer(t) ==
    \/ pc'[t] = "done"
    \/ try'[t] = try[t] /\ Left[pc'[t]] < Left[pc[t]]
    \/ try'[t] > try[t] /\ pc'[t] = "send" /\ pc[t] \notin {"send", "done"}

(* A request that has been tried, and EnsureDaemon, lead on.                *)
LEMMA RetryNears ==
    ASSUME TypeOK, NEW t \in Threads, Retry(t), pc[t] \in {"send", "answer"},
           NEW u \in Threads
    PROVE  Keeps(u) \/ Nearer(u)
  BY DEF Retry, TypeOK, Keeps, Nearer, Left

LEMMA ReturnNears ==
    ASSUME TypeOK, NEW t \in Threads, NEW r, Return(t, r), NEW u \in Threads
    PROVE  Keeps(u) \/ Nearer(u)
  BY DEF Return, Over, TypeOK, Keeps, Nearer

LEMMA EnsuredNears ==
    ASSUME TypeOK, StageInv, NEW t \in Threads, Ensured(t),
           pc[t] \in {"probe", "recheck", "await"}, NEW u \in Threads
    PROVE  Keeps(u) \/ Nearer(u)
  <1>1. t \in Procs => try[t] = 1
    BY ClientsAssumption DEF StageInv, Ensuring, Launching
  <1> QED BY <1>1 DEF Ensured, ConnectAnew, GoReconnect, TypeOK, Keeps, Nearer,
          Left

LEMMA AbsentNears ==
    ASSUME TypeOK, NEW t \in Threads, NEW next, Absent(t, next),
           \/ pc[t] = "probe" /\ next = "open"
           \/ pc[t] = "recheck" /\ next = "launch",
           NEW u \in Threads
    PROVE  Keeps(u) \/ Nearer(u)
  BY DEF Absent, TypeOK, Keeps, Nearer, Left

LEMMA RequestNears ==
    ASSUME TypeOK, NEW t \in Threads, Send(t) \/ Answer(t), NEW u \in Threads
    PROVE  Keeps(u) \/ Nearer(u)
  <1>1. \/ Retry(t)
        \/ \E r \in Outcomes : Return(t, r)
        \/ Send(t) /\ Reach(t)
    BY SendCases, AnswerCases DEF Finish, Ends, Outcomes, Failures
  <1>2. pc[t] \in {"send", "answer"}
    BY DEF Send, Answer
  <1>3. CASE Send(t) /\ Reach(t)
    BY <1>3 DEF Send, Reach, TypeOK, Keeps, Nearer, Left
  <1> QED BY <1>1, <1>2, <1>3, RetryNears, ReturnNears

LEMMA EnsureNears ==
    ASSUME TypeOK, StageInv, NEW t \in Threads, Ensure(t), NEW u \in Threads
    PROVE  Keeps(u) \/ Nearer(u)
  <1>1. CASE Probe(t)
    <2>1. /\ pc[t] = "probe"
          /\ Ensured(t) \/ Return(t, "spawn") \/ Absent(t, "open")
      BY <1>1 DEF Probe, Probed, NotEnsured
    <2> QED BY <2>1, EnsuredNears, ReturnNears, AbsentNears
  <1>2. CASE Recheck(t)
    <2>1. /\ pc[t] = "recheck"
          /\ Ensured(t) \/ Return(t, "spawn") \/ Absent(t, "launch")
      BY <1>2 DEF Recheck, Probed, NotEnsured
    <2> QED BY <2>1, EnsuredNears, ReturnNears, AbsentNears
  <1>3. CASE AwaitReady(t)
    BY <1>3, EnsuredNears DEF AwaitReady
  <1>4. CASE LockTimeout(t) \/ LaunchFails(t) \/ AwaitTimeout(t)
    <2>1. Return(t, "spawn")
      BY <1>4 DEF LockTimeout, LaunchFails, AwaitTimeout, NotEnsured
    <2> QED BY <2>1, ReturnNears
  <1>5. CASE OpenLock(t)
    BY <1>5 DEF OpenLock, Goto, TypeOK, Keeps, Nearer, Left
  <1>6. CASE AcquireLock(t)
    BY <1>6 DEF AcquireLock, Goto, TypeOK, Keeps, Nearer, Left
  <1>7. ASSUME NEW d \in Daemons, Launch(t, d)
        PROVE  Keeps(u) \/ Nearer(u)
    BY <1>7 DEF Launch, Goto, TypeOK, Keeps, Nearer, Left
  <1> QED BY <1>1, <1>2, <1>3, <1>4, <1>5, <1>6, <1>7 DEF Ensure

LEMMA WorkStep ==
    ASSUME TypeOK, StageInv, [Next]_vars, NEW u \in Threads
    PROVE  Keeps(u) \/ Nearer(u)
  <1>1. ASSUME NEW t \in Threads, BeginCall(t)
        PROVE  Keeps(u) \/ Nearer(u)
    BY <1>1 DEF BeginCall, Goto, TypeOK, Keeps, Nearer, Left
  <1>2. ASSUME NEW t \in Calls, TakeMu(t)
        PROVE  Keeps(u) \/ Nearer(u)
    <2>1. try[t] = 1
      BY <1>2 DEF TakeMu, Goto, StageInv, Threads
    <2> QED BY <1>2, <2>1 DEF TakeMu, Goto, TypeOK, Keeps, Nearer, Threads
  <1>3. ASSUME NEW t \in Calls, Reconnect(t)
        PROVE  Keeps(u) \/ Nearer(u)
    <2>1. try[t] = 2
      BY <1>3 DEF Reconnect, Goto, StageInv, Threads
    <2> QED BY <1>3, <2>1 DEF Reconnect, Goto, TypeOK, Keeps, Nearer, Threads
  <1>4. ASSUME NEW p \in Procs, Redial(p) \/ Close(p)
        PROVE  Keeps(u)
    BY <1>4 DEF Redial, Close, threads, Keeps
  <1>5. ASSUME NEW p \in Procs, Crash(p)
        PROVE  Keeps(u) \/ Nearer(u)
    BY <1>5 DEF Crash, Over, TypeOK, Keeps, Nearer
  <1>6. ASSUME NEW d \in Daemons,
               DaemonAdvances(d) \/ StartDirectly(d) \/ DaemonEnds(d)
        PROVE  Keeps(u)
    BY <1>6 DEF DaemonAdvances, StartDirectly, DaemonEnds, Outage, threads,
       Keeps
  <1>7. ASSUME PathLost \/ Wipe \/ UNCHANGED vars
        PROVE  Keeps(u)
    BY <1>7 DEF PathLost, Wipe, Outage, vars, threads, Keeps
  <1> QED BY <1>1, <1>2, <1>3, <1>4, <1>5, <1>6, <1>7, RequestNears,
          EnsureNears DEF Next, Step

LEMMA StepMoves ==
    ASSUME TypeOK, StageInv, NEW t \in Threads,
           Step(t) \/ (t \in Calls /\ TakeMu(t))
    PROVE  Nearer(t)
  <1>1. pc[t] # "done" /\ pc'[t] # pc[t]
    <2> USE DEF TypeOK, Goto
    <2>1. CASE Send(t) \/ Answer(t)
      <3>1. pc[t] \in {"send", "answer"}
        BY <2>1 DEF Send, Answer
      <3>2. \/ Retry(t)
            \/ \E r \in Outcomes : Return(t, r)
            \/ Send(t) /\ Reach(t)
        BY <2>1, SendCases, AnswerCases DEF Finish, Ends, Outcomes, Failures
      <3> QED BY <3>1, <3>2 DEF Retry, Return, Over, Send, Reach
    <2>2. CASE t \in Calls /\ (TakeMu(t) \/ Reconnect(t))
      BY <2>2 DEF TakeMu, Reconnect
    <2>3. CASE Ensure(t)
      BY <2>3 DEF Ensure, Probe, Recheck, Probed, Ensured, ConnectAnew,
         GoReconnect, Absent, NotEnsured, Return, Over, OpenLock,
         AcquireLock, LockTimeout, Launch, LaunchFails, AwaitReady,
         AwaitTimeout
    <2> QED BY <2>1, <2>2, <2>3 DEF Step
  <1>2. CASE Step(t) /\ ~ (t \in Calls /\ Reconnect(t))
    BY <1>1, <1>2, RequestNears, EnsureNears DEF Step, Keeps
  <1>3. CASE t \in Calls /\ (Reconnect(t) \/ TakeMu(t))
    BY <1>1, <1>3, WorkStep DEF Next, Step, Keeps
  <1> QED BY <1>2, <1>3

(* What a step, or none, takes away from the work.                          *)
LEMMA WorkFalls ==
    ASSUME TypeOK, TypeOK', NEW t \in Threads
    PROVE  /\ Keeps(t) => Work(t)' = Work(t)
           /\ Nearer(t) /\ pc[t] # "done" => Work(t)' < Work(t)
           /\ Nearer(t) => Work(t)' <= Work(t)
  <1>1. /\ Left[pc[t]] \in 1 .. 12 /\ Left[pc'[t]] \in 1 .. 12
        /\ try[t] \in 1 .. 3 /\ try'[t] \in 1 .. 3
    BY DEF TypeOK, Places, Left
  <1>2. CASE Keeps(t)
    BY <1>1, <1>2 DEF Keeps, Nearer, Work
  <1>3. CASE pc'[t] = "done"
    BY <1>1, <1>3 DEF Keeps, Work
  <1>4. CASE try'[t] = try[t] /\ Left[pc'[t]] < Left[pc[t]]
    <2>1. pc[t] # "done"
      BY <1>1, <1>4 DEF Left
    <2> QED BY <1>1, <1>4, <2>1 DEF Keeps, Work
  <1>5. CASE /\ try'[t] > try[t]
             /\ pc'[t] = "send" /\ pc[t] \notin {"send", "done"}
    <2>1. Left[pc'[t]] = 11
      BY <1>5 DEF Left
    <2> QED BY <1>1, <1>5, <2>1 DEF Keeps, Work
  <1> QED BY <1>2, <1>3, <1>4, <1>5 DEF Nearer

(* No Connect and no call goes round in a circle: each step takes away from *)
(* the work it has left, and no step of a daemon, of another thread or of   *)
(* the surroundings adds to it (the loops of Embed and EnsureDaemon).       *)
THEOREM CallsWind ==
    Spec => [][\A t \in Threads :
                 /\ Step(t) \/ (t \in Calls /\ TakeMu(t)) => Work(t)' < Work(t)
                 /\ Work(t)' <= Work(t)]_vars
  <1>1. ASSUME IInv, IInv', NEW t \in Threads,
               Step(t) \/ (t \in Calls /\ TakeMu(t))
        PROVE  Work(t)' < Work(t)
    <2>1. Nearer(t)
      BY <1>1, StepMoves DEF IInv
    <2>2. pc[t] # "done"
      BY <1>1 DEF Step, Send, Answer, Ensure, Probe, OpenLock, AcquireLock,
         LockTimeout, Recheck, Launch, LaunchFails, AwaitReady, AwaitTimeout,
         Reconnect, TakeMu, Goto
    <2> QED BY <1>1, <2>1, <2>2, WorkFalls DEF IInv
  <1>2. ASSUME IInv, IInv', [Next]_vars, NEW t \in Threads
        PROVE  Work(t)' <= Work(t)
    <2>1. Work(t) \in Nat /\ Work(t)' \in Nat
      <3>1. /\ Left[pc[t]] \in 1 .. 12 /\ Left[pc'[t]] \in 1 .. 12
            /\ try[t] \in 1 .. 3 /\ try'[t] \in 1 .. 3
        BY <1>2 DEF IInv, TypeOK, Places, Left
      <3> QED BY <3>1 DEF Work
    <2> QED BY <1>2, <2>1, WorkStep, WorkFalls DEF IInv
  <1>3. IInv /\ [Next]_vars => \A t \in Threads :
           /\ Step(t) \/ (t \in Calls /\ TakeMu(t)) => Work(t)' < Work(t)
           /\ Work(t)' <= Work(t)
    BY <1>1, <1>2, IInvStep
  <1> QED BY <1>3, Invariant, PTL DEF Spec

(* So a Connect or a call makes at most 36 steps before it returns: Embed   *)
(* retries twice, and EnsureDaemon is called once.                          *)
THEOREM CallsAreBounded == Spec => [](\A t \in Threads : Work(t) \in 0 .. 36)
  <1>1. ASSUME IInv, NEW t \in Threads
        PROVE  Work(t) \in 0 .. 36
    <2>1. Left[pc[t]] \in 1 .. 12 /\ try[t] \in 1 .. 3
      BY <1>1 DEF IInv, TypeOK, Places, Left
    <2> QED BY <2>1 DEF Work
  <1>2. IInv => \A t \in Threads : Work(t) \in 0 .. 36
    BY <1>1
  <1> QED BY <1>2, Invariant, PTL

(* What keeps t waiting: the caller that has its Client's mu, or whoever    *)
(* has the spawn.lock that t opened.                                        *)
HoldsUp(u, t) ==
    \/ pc[t] = "lock" /\ u = mu[Owner[t]]
    \/ pc[t] = "wait" /\ u = holder[lfd[t]]

(* No set of threads, of one process or of several, waits for one another:  *)
(* the flock is taken under mu, and nothing is waited for under the flock   *)
(* but the daemon (Embed, EnsureDaemon).                                    *)
THEOREM NoCircularWait ==
    Spec => [](\A S \in SUBSET Threads :
                  (\A t \in S : \E u \in S : HoldsUp(u, t)) => S = {})
  <1>1. ASSUME IInv, NEW S \in SUBSET Threads,
               \A t \in S : \E u \in S : HoldsUp(u, t)
        PROVE  S = {}
    <2>1. ASSUME NEW t \in S, pc[t] = "wait"
          PROVE  FALSE
      <3>1. holder[lfd[t]] \in S
        BY <1>1, <2>1 DEF HoldsUp
      <3>2. pc[holder[lfd[t]]] \in Launching
        BY <1>1, <3>1 DEF IInv, FlockInv, TypeOK
      <3> QED BY <1>1, <3>1, <3>2 DEF HoldsUp, Launching
    <2>2. ASSUME NEW t \in S, pc[t] = "lock"
          PROVE  FALSE
      <3>1. t \in Calls /\ mu[Owner[t]] \in S
        BY <1>1, <2>2 DEF HoldsUp, IInv, StageInv
      <3>2. Owner[t] \in Procs
        BY <3>1, ClientsAssumption
      <3>3. mu[Owner[t]] \in Calls
        BY <1>1, <3>1, <3>2, ClientsAssumption DEF IInv, TypeOK
      <3>4. Locking(mu[Owner[t]])
        BY <1>1, <3>2, <3>3 DEF IInv, MuInv
      <3>5. pc[mu[Owner[t]]] # "lock"
        BY <1>1, <3>1, <3>4 DEF IInv, StageInv, Locking
      <3>6. pc[mu[Owner[t]]] = "wait"
        BY <1>1, <3>1, <3>5 DEF HoldsUp
      <3> QED BY <2>1, <3>1, <3>6
    <2> QED BY <1>1, <2>1, <2>2 DEF HoldsUp
  <1>2. IInv => \A S \in SUBSET Threads :
           (\A t \in S : \E u \in S : HoldsUp(u, t)) => S = {}
    BY <1>1
  <1> QED BY <1>2, Invariant, PTL
=============================================================================
