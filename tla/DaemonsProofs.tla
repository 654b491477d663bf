--------------------------- MODULE DaemonsProofs ----------------------------
(***************************************************************************)
(* Proofs about Daemons, for any number of daemons and inode numbers.      *)
(***************************************************************************)
EXTENDS Daemons, TLAPS

Late == {"ident", "unbind", "gone"} \union Serving
Closing == {"checking", "unlinking", "closed"}
Robbed ==
    {d \in Daemons : \E e \in Daemons \union {Outside} : <<e, d>> \in thefts}

(* How far a daemon, its listener and its watchdog are, and what they have  *)
(* by then.                                                                 *)
StageInv ==
    \A d \in Daemons :
        /\ pc[d] \notin Serving \union {"gone"} =>
              /\ lis[d] = "none" /\ ident[d] = None /\ watch[d] = "off"
              /\ d \notin published
              /\ d \notin shutdown \union cancelled \union evicted
        /\ pc[d] \in Serving =>
              lis[d] # "none" /\ ident[d] # None /\ watch[d] # "off"
        /\ pc[d] = "gone" =>
              /\ sock[d] = None /\ lis[d] = "closed" /\ ident[d] = None
              /\ watch[d] = "done"
              /\ d \notin shutdown \union cancelled \union evicted
        /\ sock[d] # None => pc[d] = "ident" \/ lis[d] = "open"
        /\ lis[d] = "open" => pc[d] \in Serving /\ sock[d] # None
        /\ pc[d] = "ident" => sock[d] # None
        /\ pc[d] = "boot" => d \notin published
        /\ pc[d] = "draining" => d \in shutdown
        /\ lis[d] \in Closing /\ pc[d] # "gone" => d \in shutdown \union faulted
        /\ code[d] # "none" <=> pc[d] = "gone"

(* Sockets have inodes of their own, and one that is not at the path any    *)
(* more was removed by someone else.                                        *)
SockInv ==
    /\ \A d, e \in Daemons : sock[d] # None /\ sock[d] = sock[e] => d = e
    /\ \A d \in Daemons :
          sock[d] # None =>
              /\ sock[d] = path \/ d \in Robbed
              /\ lis[d] = "open" => ident[d] = sock[d] \/ d \in Robbed
    /\ \A d \in Robbed : pc[d] \in Late

(* What watchSocketOwnership goes by on its way to the eviction.            *)
EvictInv ==
    \A d \in Daemons :
        /\ watch[d] = "doubt" => d \in shutdown \union faulted \union Robbed
        /\ watch[d] \in {"mark", "cancel"} => d \in faulted \union Robbed
        /\ d \in evicted => d \in faulted \union Robbed

(* A context is cancelled by an eviction only, and marked before.           *)
CutInv ==
    \A d \in Daemons :
        /\ d \in cancelled \/ watch[d] = "cancel" => d \in evicted
        /\ ret[d] = "cut" =>
              /\ pc[d] \in {"draining", "gone"}
              /\ pc[d] = "draining" => d \in evicted
              /\ code[d] # "one"

(* Whoever may unlink the socket of e was past its decision when e bound    *)
(* it, and whoever has its number for an identity was in the window too.    *)
TheftInv ==
    /\ TheftOnlyInWindow
    /\ \A d, e \in Daemons :
          d # e /\ sock[e] # None =>
              /\ sock[e] = path /\ (pc[d] \in Starting \/ lis[d] = "unlinking")
                     => d \in racing[e]
              /\ sock[e] = ident[d] /\ lis[d] \in {"open", "checking"}
                     => d \in racing[e]

(* Whose file is at the path has it for its identity and is not done with   *)
(* closing it; it is over only if it was killed or did not serve yet.       *)
MakerInv ==
    path \in Inodes /\ maker # Outside =>
        /\ pc[maker] \in {"ident", "gone"} \union Serving
        /\ pc[maker] = "gone" => code[maker] = "killed" \/ maker \notin served
        /\ pc[maker] \in Serving =>
              ident[maker] = path /\ lis[maker] # "closed"

IInv ==
    /\ TypeOK /\ StageInv /\ SockInv /\ EvictInv /\ CutInv /\ TheftInv
    /\ MakerInv

-----------------------------------------------------------------------------
(* Whom the removal of the file at the path robs.                           *)
LEMMA UnlinkRobs ==
    ASSUME NEW by \in Daemons \union {Outside}, Unlink(by)
    PROVE  Robbed' = Robbed \union
               {e \in Daemons \ {by} : sock[e] # None /\ sock[e] = path}
  BY DEF Unlink, Robbed

(* Every step keeps the types.                                              *)
LEMMA TypeStep ==
    ASSUME TypeOK, StageInv, [Next]_vars
    PROVE  TypeOK'
  <1>1. ASSUME NEW d \in Daemons, Probe(d)
      PROVE  TypeOK'
    <2>1. CASE Dials(path)
      <3>1. /\ pc[d] = "probe"
            /\ Over(d, "zero")
            /\ UNCHANGED <<files, racing, ret, events>>
        BY <1>1, <2>1 DEF Probe, Goto
      <3> QED BY <2>1, <3>1, DaemonsAssumption DEF Over, files, listeners,
        flags, pending, outcome, TypeOK, StageInv, Places, Starting, Serving
    <2>2. CASE ~ Dials(path)
      <3>1. /\ Goto(d, "probe", "clean")
            /\ UNCHANGED <<files, listeners, watch, flags, pending, published,
                  outcome, events>>
        BY <1>1, <2>2 DEF Probe, Goto
      <3> QED BY <2>2, <3>1, DaemonsAssumption DEF Goto, files, listeners,
        flags, pending, outcome, TypeOK, StageInv, Places, Starting, Serving
    <2> QED BY <2>1, <2>2
  <1>2. ASSUME NEW d \in Daemons, Clean(d)
      PROVE  TypeOK'
    BY <1>2, DaemonsAssumption DEF Clean, Goto, files, listeners, flags,
      pending, outcome, TypeOK, StageInv, Places, Starting, Serving
  <1>3. ASSUME NEW d \in Daemons, CleanUnlink(d)
      PROVE  TypeOK'
    <2>1. CASE path = None
      <3>1. pc[d] = "unlink" /\ Refuse(d)
        BY <1>3, <2>1 DEF CleanUnlink, Goto
      <3> QED BY <2>1, <3>1, DaemonsAssumption DEF Refuse, Over, files,
        listeners, flags, pending, outcome, TypeOK, StageInv, Places,
        Starting, Serving
    <2>2. CASE path # None
      <3>1. /\ Goto(d, "unlink", "stat")
            /\ Unlink(d)
            /\ UNCHANGED <<listeners, watch, flags, pending, published,
                  outcome, events>>
        BY <1>3, <2>2 DEF CleanUnlink, Goto
      <3> QED BY <2>2, <3>1, DaemonsAssumption DEF Goto, Unlink, files,
        listeners, flags, pending, outcome, TypeOK, StageInv, Places,
        Starting, Serving
    <2> QED BY <2>1, <2>2
  <1>4. ASSUME NEW d \in Daemons, ListenStat(d)
      PROVE  TypeOK'
    BY <1>4, DaemonsAssumption DEF ListenStat, Goto, files, listeners, flags,
      pending, outcome, TypeOK, StageInv, Places, Starting, Serving
  <1>5. ASSUME NEW d \in Daemons, ListenDial(d)
      PROVE  TypeOK'
    <2>1. CASE Dials(path)
      <3>1. pc[d] = "dial" /\ Refuse(d)
        BY <1>5, <2>1 DEF ListenDial, Goto
      <3> QED BY <2>1, <3>1, DaemonsAssumption DEF Refuse, Over, files,
        listeners, flags, pending, outcome, TypeOK, StageInv, Places,
        Starting, Serving
    <2>2. CASE ~ Dials(path)
      <3>1. /\ Goto(d, "dial", "rmstale")
            /\ UNCHANGED <<files, listeners, watch, flags, pending, published,
                  outcome, events>>
        BY <1>5, <2>2 DEF ListenDial, Goto
      <3> QED BY <2>2, <3>1, DaemonsAssumption DEF Goto, files, listeners,
        flags, pending, outcome, TypeOK, StageInv, Places, Starting, Serving
    <2> QED BY <2>1, <2>2
  <1>6. ASSUME NEW d \in Daemons, ListenRemoveStale(d)
      PROVE  TypeOK'
    BY <1>6, DaemonsAssumption DEF ListenRemoveStale, Goto, Unlink, files,
      listeners, flags, pending, outcome, TypeOK, StageInv, Places, Starting,
      Serving
  <1>7. ASSUME NEW d \in Daemons, ListenBind(d)
      PROVE  TypeOK'
    <2>1. CASE path = None
      <3>1. /\ Goto(d, "bind", "ident")
            /\ \E i \in FreeInodes : path' = i /\ sock' = [sock EXCEPT ![d] =
                  i]
            /\ maker' = d
            /\ racing' = [racing EXCEPT ![d] = InWindow(d)]
            /\ UNCHANGED <<thefts, ident, lis, watch, flags, pending,
                  published, outcome, events>>
        BY <1>7, <2>1 DEF ListenBind, Goto
      <3> QED BY <2>1, <3>1, DaemonsAssumption DEF Goto, FreeInodes,
        InWindow, files, listeners, flags, pending, outcome, TypeOK,
        StageInv, Places, Starting, Serving
    <2>2. CASE path # None
      <3>1. pc[d] = "bind" /\ Refuse(d)
        BY <1>7, <2>2 DEF ListenBind, Goto
      <3> QED BY <2>2, <3>1, DaemonsAssumption DEF Refuse, Over, files,
        listeners, flags, pending, outcome, TypeOK, StageInv, Places,
        Starting, Serving
    <2> QED BY <2>1, <2>2
  <1>8. ASSUME NEW d \in Daemons, ListenIdentify(d)
      PROVE  TypeOK'
    <2>1. CASE path = None
      <3>1. /\ Goto(d, "ident", "unbind")
            /\ sock' = [sock EXCEPT ![d] = None]
            /\ UNCHANGED <<files, ident, racing, lis, watch, flags, pending,
                  published, outcome, events>>
        BY <1>8, <2>1 DEF ListenIdentify, Goto
      <3> QED BY <2>1, <3>1, DaemonsAssumption DEF Goto, files, listeners,
        flags, pending, outcome, TypeOK, StageInv, Places, Starting, Serving
    <2>2. CASE path # None
      <3>1. /\ Goto(d, "ident", "boot")
            /\ ident' = [ident EXCEPT ![d] = path]
            /\ lis' = [lis EXCEPT ![d] = "open"]
            /\ watch' = [watch EXCEPT ![d] = "on"]
            /\ UNCHANGED <<files, sock, racing, flags, pending, published,
                  outcome, events>>
        BY <1>8, <2>2 DEF ListenIdentify, Goto
      <3> QED BY <2>2, <3>1, DaemonsAssumption DEF Goto, files, listeners,
        flags, pending, outcome, TypeOK, StageInv, Places, Starting, Serving
    <2> QED BY <2>1, <2>2
  <1>9. ASSUME NEW d \in Daemons, ListenUndo(d)
      PROVE  TypeOK'
    BY <1>9, DaemonsAssumption DEF ListenUndo, Over, Unlink, files,
      listeners, flags, pending, outcome, TypeOK, StageInv, Places, Starting,
      Serving
  <1>10. ASSUME NEW d \in Daemons, BootFails(d)
      PROVE  TypeOK'
    BY <1>10, DaemonsAssumption DEF BootFails, Bail, TriggerShutdown, files,
      listeners, flags, pending, outcome, TypeOK, StageInv, Places, Starting,
      Serving
  <1>11. ASSUME NEW d \in Daemons, BootCut(d)
      PROVE  TypeOK'
    BY <1>11, DaemonsAssumption DEF BootCut, Bail, TriggerShutdown, files,
      listeners, flags, pending, outcome, TypeOK, StageInv, Places, Starting,
      Serving
  <1>12. ASSUME NEW d \in Daemons, BootSucceeds(d)
      PROVE  TypeOK'
    BY <1>12, DaemonsAssumption DEF BootSucceeds, Goto, files, listeners,
      flags, pending, outcome, TypeOK, StageInv, Places, Starting, Serving
  <1>13. ASSUME NEW d \in Daemons, BadIdleTimeout(d)
      PROVE  TypeOK'
    BY <1>13, DaemonsAssumption DEF BadIdleTimeout, Bail, TriggerShutdown,
      files, listeners, flags, pending, outcome, TypeOK, StageInv, Places,
      Starting, Serving
  <1>14. ASSUME NEW d \in Daemons, Select(d)
      PROVE  TypeOK'
    BY <1>14, DaemonsAssumption DEF Select, Goto, TriggerShutdown, files,
      listeners, flags, pending, outcome, TypeOK, StageInv, Places, Starting,
      Serving
  <1>15. ASSUME NEW d \in Daemons, Exit(d)
      PROVE  TypeOK'
    BY <1>15, DaemonsAssumption DEF Exit, Drained, Over, files, listeners,
      flags, pending, outcome, TypeOK, StageInv, Places, Starting, Serving
  <1>16. ASSUME NEW d \in Daemons, CloseBegins(d)
      PROVE  TypeOK'
    BY <1>16, DaemonsAssumption DEF CloseBegins, files, listeners, flags,
      pending, outcome, TypeOK, StageInv, Places, Starting, Serving
  <1>17. ASSUME NEW d \in Daemons, CloseChecks(d)
      PROVE  TypeOK'
    BY <1>17, DaemonsAssumption DEF CloseChecks, StillOwned, files,
      listeners, flags, pending, outcome, TypeOK, StageInv, Places, Starting,
      Serving
  <1>18. ASSUME NEW d \in Daemons, CloseUnlinks(d)
      PROVE  TypeOK'
    BY <1>18, DaemonsAssumption DEF CloseUnlinks, Unlink, files, listeners,
      flags, pending, outcome, TypeOK, StageInv, Places, Starting, Serving
  <1>19. ASSUME NEW d \in Daemons, WatchTick(d)
      PROVE  TypeOK'
    BY <1>19, DaemonsAssumption DEF WatchTick, WatchMoves, StillOwned, files,
      listeners, flags, pending, outcome, TypeOK, StageInv, Places, Starting,
      Serving
  <1>20. ASSUME NEW d \in Daemons, WatchDoubt(d)
      PROVE  TypeOK'
    BY <1>20, DaemonsAssumption DEF WatchDoubt, WatchMoves, files, listeners,
      flags, pending, outcome, TypeOK, StageInv, Places, Starting, Serving
  <1>21. ASSUME NEW d \in Daemons, WatchMark(d)
      PROVE  TypeOK'
    BY <1>21, DaemonsAssumption DEF WatchMark, WatchMoves, files, listeners,
      flags, pending, outcome, TypeOK, StageInv, Places, Starting, Serving
  <1>22. ASSUME NEW d \in Daemons, WatchCancel(d)
      PROVE  TypeOK'
    BY <1>22, DaemonsAssumption DEF WatchCancel, WatchMoves, TriggerShutdown,
      files, listeners, flags, pending, outcome, TypeOK, StageInv, Places,
      Starting, Serving
  <1>23. ASSUME NEW d \in Daemons, Launch(d)
      PROVE  TypeOK'
    BY <1>23, DaemonsAssumption DEF Launch, Goto, files, listeners, flags,
      pending, outcome, TypeOK, StageInv, Places, Starting, Serving
  <1>24. ASSUME NEW d \in Daemons, Kill(d)
      PROVE  TypeOK'
    BY <1>24, DaemonsAssumption DEF Kill, Event, Over, files, listeners,
      flags, pending, outcome, TypeOK, StageInv, Places, Starting, Serving
  <1>25. ASSUME NEW d \in Daemons, Signal(d)
      PROVE  TypeOK'
    BY <1>25, DaemonsAssumption DEF Signal, Event, files, listeners, flags,
      pending, outcome, TypeOK, StageInv, Places, Starting, Serving
  <1>26. ASSUME NEW d \in Daemons, Shutdown(d)
      PROVE  TypeOK'
    BY <1>26, DaemonsAssumption DEF Shutdown, Served, Event,
      TriggerShutdown, files, listeners, flags, pending, outcome, TypeOK,
      StageInv, Places, Starting, Serving
  <1>27. ASSUME NEW d \in Daemons, ServeFault(d)
      PROVE  TypeOK'
    BY <1>27, DaemonsAssumption DEF ServeFault, Served, Event, files,
      listeners, flags, pending, outcome, TypeOK, StageInv, Places,
      Starting, Serving
  <1>28. ASSUME NEW d \in Daemons, Serve(d)
      PROVE  TypeOK'
    BY <1>28, DaemonsAssumption DEF Serve, files, listeners,
      flags, pending, outcome, TypeOK, StageInv, Places, Starting, Serving
  <1>29. ASSUME NEW d \in Daemons, Request(d)
      PROVE  TypeOK'
    BY <1>29, DaemonsAssumption DEF Request, files, listeners,
      flags, pending, outcome, TypeOK, StageInv, Places, Starting, Serving
  <1>30. ASSUME NEW d \in Daemons, Answer(d)
      PROVE  TypeOK'
    BY <1>30, DaemonsAssumption DEF Answer, files, listeners,
      flags, pending, outcome, TypeOK, StageInv, Places, Starting, Serving
  <1>31. CASE Wipe
    BY <1>31, DaemonsAssumption DEF Wipe, Event, Unlink, files, listeners,
      flags, pending, outcome, TypeOK, StageInv, Places, Starting, Serving
  <1>32. CASE UNCHANGED vars
    BY <1>32, DaemonsAssumption DEF vars, files, listeners, flags, pending,
      outcome, TypeOK, StageInv, Places, Starting, Serving
  <1> QED BY <1>1, <1>2, <1>3, <1>4, <1>5, <1>6, <1>7, <1>8, <1>9,
    <1>10, <1>11, <1>12, <1>13, <1>14, <1>15, <1>16, <1>17, <1>18, <1>19,
    <1>20, <1>21, <1>22, <1>23, <1>24, <1>25, <1>26, <1>27, <1>28, <1>29,
    <1>30, <1>31, <1>32 DEF Next, Main, Start, Close, Watchdog, Chance

(* Every step keeps the stages of a daemon.                                 *)
LEMMA StageStep ==
    ASSUME TypeOK, StageInv, [Next]_vars
    PROVE  StageInv'
  <1>1. ASSUME NEW d \in Daemons, Probe(d)
      PROVE  StageInv'
    <2>1. CASE Dials(path)
      <3>1. /\ pc[d] = "probe"
            /\ Over(d, "zero")
            /\ UNCHANGED <<files, racing, ret, events>>
        BY <1>1, <2>1 DEF Probe, Goto
      <3> QED BY <2>1, <3>1, DaemonsAssumption DEF Over, files, listeners,
        flags, pending, outcome, TypeOK, StageInv, Closing, Places, Starting,
        Serving
    <2>2. CASE ~ Dials(path)
      <3>1. /\ Goto(d, "probe", "clean")
            /\ UNCHANGED <<files, listeners, watch, flags, pending, published,
                  outcome, events>>
        BY <1>1, <2>2 DEF Probe, Goto
      <3> QED BY <2>2, <3>1, DaemonsAssumption DEF Goto, files, listeners,
        flags, pending, outcome, TypeOK, StageInv, Closing, Places, Starting,
        Serving
    <2> QED BY <2>1, <2>2
  <1>2. ASSUME NEW d \in Daemons, Clean(d)
      PROVE  StageInv'
    BY <1>2, DaemonsAssumption DEF Clean, Goto, files, listeners, flags,
      pending, outcome, TypeOK, StageInv, Closing, Places, Starting, Serving
  <1>3. ASSUME NEW d \in Daemons, CleanUnlink(d)
      PROVE  StageInv'
    <2>1. CASE path = None
      <3>1. pc[d] = "unlink" /\ Refuse(d)
        BY <1>3, <2>1 DEF CleanUnlink, Goto
      <3> QED BY <2>1, <3>1, DaemonsAssumption DEF Refuse, Over, files,
        listeners, flags, pending, outcome, TypeOK, StageInv, Closing,
        Places, Starting, Serving
    <2>2. CASE path # None
      <3>1. /\ Goto(d, "unlink", "stat")
            /\ Unlink(d)
            /\ UNCHANGED <<listeners, watch, flags, pending, published,
                  outcome, events>>
        BY <1>3, <2>2 DEF CleanUnlink, Goto
      <3> QED BY <2>2, <3>1, DaemonsAssumption DEF Goto, Unlink, files,
        listeners, flags, pending, outcome, TypeOK, StageInv, Closing,
        Places, Starting, Serving
    <2> QED BY <2>1, <2>2
  <1>4. ASSUME NEW d \in Daemons, ListenStat(d)
      PROVE  StageInv'
    BY <1>4, DaemonsAssumption DEF ListenStat, Goto, files, listeners, flags,
      pending, outcome, TypeOK, StageInv, Closing, Places, Starting, Serving
  <1>5. ASSUME NEW d \in Daemons, ListenDial(d)
      PROVE  StageInv'
    <2>1. CASE Dials(path)
      <3>1. pc[d] = "dial" /\ Refuse(d)
        BY <1>5, <2>1 DEF ListenDial, Goto
      <3> QED BY <2>1, <3>1, DaemonsAssumption DEF Refuse, Over, files,
        listeners, flags, pending, outcome, TypeOK, StageInv, Closing,
        Places, Starting, Serving
    <2>2. CASE ~ Dials(path)
      <3>1. /\ Goto(d, "dial", "rmstale")
            /\ UNCHANGED <<files, listeners, watch, flags, pending, published,
                  outcome, events>>
        BY <1>5, <2>2 DEF ListenDial, Goto
      <3> QED BY <2>2, <3>1, DaemonsAssumption DEF Goto, files, listeners,
        flags, pending, outcome, TypeOK, StageInv, Closing, Places, Starting,
        Serving
    <2> QED BY <2>1, <2>2
  <1>6. ASSUME NEW d \in Daemons, ListenRemoveStale(d)
      PROVE  StageInv'
    BY <1>6, DaemonsAssumption DEF ListenRemoveStale, Goto, Unlink, files,
      listeners, flags, pending, outcome, TypeOK, StageInv, Closing, Places,
      Starting, Serving
  <1>7. ASSUME NEW d \in Daemons, ListenBind(d)
      PROVE  StageInv'
    <2>1. CASE path = None
      <3>1. /\ Goto(d, "bind", "ident")
            /\ \E i \in FreeInodes : path' = i /\ sock' = [sock EXCEPT ![d] =
                  i]
            /\ maker' = d
            /\ racing' = [racing EXCEPT ![d] = InWindow(d)]
            /\ UNCHANGED <<thefts, ident, lis, watch, flags, pending,
                  published, outcome, events>>
        BY <1>7, <2>1 DEF ListenBind, Goto
      <3> QED BY <2>1, <3>1, DaemonsAssumption DEF Goto, FreeInodes,
        InWindow, files, listeners, flags, pending, outcome, TypeOK,
        StageInv, Closing, Places, Starting, Serving
    <2>2. CASE path # None
      <3>1. pc[d] = "bind" /\ Refuse(d)
        BY <1>7, <2>2 DEF ListenBind, Goto
      <3> QED BY <2>2, <3>1, DaemonsAssumption DEF Refuse, Over, files,
        listeners, flags, pending, outcome, TypeOK, StageInv, Closing,
        Places, Starting, Serving
    <2> QED BY <2>1, <2>2
  <1>8. ASSUME NEW d \in Daemons, ListenIdentify(d)
      PROVE  StageInv'
    <2>1. CASE path = None
      <3>1. /\ Goto(d, "ident", "unbind")
            /\ sock' = [sock EXCEPT ![d] = None]
            /\ UNCHANGED <<files, ident, racing, lis, watch, flags, pending,
                  published, outcome, events>>
        BY <1>8, <2>1 DEF ListenIdentify, Goto
      <3> QED BY <2>1, <3>1, DaemonsAssumption DEF Goto, files, listeners,
        flags, pending, outcome, TypeOK, StageInv, Closing, Places, Starting,
        Serving
    <2>2. CASE path # None
      <3>1. /\ Goto(d, "ident", "boot")
            /\ ident' = [ident EXCEPT ![d] = path]
            /\ lis' = [lis EXCEPT ![d] = "open"]
            /\ watch' = [watch EXCEPT ![d] = "on"]
            /\ UNCHANGED <<files, sock, racing, flags, pending, published,
                  outcome, events>>
        BY <1>8, <2>2 DEF ListenIdentify, Goto
      <3> QED BY <2>2, <3>1, DaemonsAssumption DEF Goto, files, listeners,
        flags, pending, outcome, TypeOK, StageInv, Closing, Places, Starting,
        Serving
    <2> QED BY <2>1, <2>2
  <1>9. ASSUME NEW d \in Daemons, ListenUndo(d)
      PROVE  StageInv'
    BY <1>9, DaemonsAssumption DEF ListenUndo, Over, Unlink, files,
      listeners, flags, pending, outcome, TypeOK, StageInv, Closing, Places,
      Starting, Serving
  <1>10. ASSUME NEW d \in Daemons, BootFails(d)
      PROVE  StageInv'
    BY <1>10, DaemonsAssumption DEF BootFails, Bail, TriggerShutdown, files,
      listeners, flags, pending, outcome, TypeOK, StageInv, Closing, Places,
      Starting, Serving
  <1>11. ASSUME NEW d \in Daemons, BootCut(d)
      PROVE  StageInv'
    BY <1>11, DaemonsAssumption DEF BootCut, Bail, TriggerShutdown, files,
      listeners, flags, pending, outcome, TypeOK, StageInv, Closing, Places,
      Starting, Serving
  <1>12. ASSUME NEW d \in Daemons, BootSucceeds(d)
      PROVE  StageInv'
    BY <1>12, DaemonsAssumption DEF BootSucceeds, Goto, files, listeners,
      flags, pending, outcome, TypeOK, StageInv, Closing, Places, Starting,
      Serving
  <1>13. ASSUME NEW d \in Daemons, BadIdleTimeout(d)
      PROVE  StageInv'
    BY <1>13, DaemonsAssumption DEF BadIdleTimeout, Bail, TriggerShutdown,
      files, listeners, flags, pending, outcome, TypeOK, StageInv, Closing,
      Places, Starting, Serving
  <1>14. ASSUME NEW d \in Daemons, Select(d)
      PROVE  StageInv'
    BY <1>14, DaemonsAssumption DEF Select, Goto, TriggerShutdown, files,
      listeners, flags, pending, outcome, TypeOK, StageInv, Closing, Places,
      Starting, Serving
  <1>15. ASSUME NEW d \in Daemons, Exit(d)
      PROVE  StageInv'
    BY <1>15, DaemonsAssumption DEF Exit, Drained, Over, files, listeners,
      flags, pending, outcome, TypeOK, StageInv, Closing, Places, Starting,
      Serving
  <1>16. ASSUME NEW d \in Daemons, CloseBegins(d)
      PROVE  StageInv'
    BY <1>16, DaemonsAssumption DEF CloseBegins, files, listeners, flags,
      pending, outcome, TypeOK, StageInv, Closing, Places, Starting, Serving
  <1>17. ASSUME NEW d \in Daemons, CloseChecks(d)
      PROVE  StageInv'
    BY <1>17, DaemonsAssumption DEF CloseChecks, StillOwned, files,
      listeners, flags, pending, outcome, TypeOK, StageInv, Closing, Places,
      Starting, Serving
  <1>18. ASSUME NEW d \in Daemons, CloseUnlinks(d)
      PROVE  StageInv'
    BY <1>18, DaemonsAssumption DEF CloseUnlinks, Unlink, files, listeners,
      flags, pending, outcome, TypeOK, StageInv, Closing, Places, Starting,
      Serving
  <1>19. ASSUME NEW d \in Daemons, WatchTick(d)
      PROVE  StageInv'
    BY <1>19, DaemonsAssumption DEF WatchTick, WatchMoves, StillOwned, files,
      listeners, flags, pending, outcome, TypeOK, StageInv, Closing, Places,
      Starting, Serving
  <1>20. ASSUME NEW d \in Daemons, WatchDoubt(d)
      PROVE  StageInv'
    BY <1>20, DaemonsAssumption DEF WatchDoubt, WatchMoves, files, listeners,
      flags, pending, outcome, TypeOK, StageInv, Closing, Places, Starting,
      Serving
  <1>21. ASSUME NEW d \in Daemons, WatchMark(d)
      PROVE  StageInv'
    BY <1>21, DaemonsAssumption DEF WatchMark, WatchMoves, files, listeners,
      flags, pending, outcome, TypeOK, StageInv, Closing, Places, Starting,
      Serving
  <1>22. ASSUME NEW d \in Daemons, WatchCancel(d)
      PROVE  StageInv'
    BY <1>22, DaemonsAssumption DEF WatchCancel, WatchMoves, TriggerShutdown,
      files, listeners, flags, pending, outcome, TypeOK, StageInv, Closing,
      Places, Starting, Serving
  <1>23. ASSUME NEW d \in Daemons, Launch(d)
      PROVE  StageInv'
    BY <1>23, DaemonsAssumption DEF Launch, Goto, files, listeners, flags,
      pending, outcome, TypeOK, StageInv, Closing, Places, Starting, Serving
  <1>24. ASSUME NEW d \in Daemons, Kill(d)
      PROVE  StageInv'
    BY <1>24, DaemonsAssumption DEF Kill, Event, Over, files, listeners,
      flags, pending, outcome, TypeOK, StageInv, Closing, Places, Starting,
      Serving
  <1>25. ASSUME NEW d \in Daemons, Signal(d)
      PROVE  StageInv'
    BY <1>25, DaemonsAssumption DEF Signal, Event, files, listeners, flags,
      pending, outcome, TypeOK, StageInv, Closing, Places, Starting, Serving
  <1>26. ASSUME NEW d \in Daemons, Shutdown(d)
      PROVE  StageInv'
    BY <1>26, DaemonsAssumption DEF Shutdown, Served, Event,
      TriggerShutdown, files, listeners, flags, pending, outcome, TypeOK,
      StageInv, Closing, Places, Starting, Serving
  <1>27. ASSUME NEW d \in Daemons, ServeFault(d)
      PROVE  StageInv'
    BY <1>27, DaemonsAssumption DEF ServeFault, Served, Event, files,
      listeners, flags, pending, outcome, TypeOK, StageInv, Closing, Places,
      Starting, Serving
  <1>28. ASSUME NEW d \in Daemons, Serve(d)
      PROVE  StageInv'
    BY <1>28, DaemonsAssumption DEF Serve, files, listeners,
      flags, pending, outcome, TypeOK, StageInv, Closing, Places, Starting,
      Serving
  <1>29. ASSUME NEW d \in Daemons, Request(d)
      PROVE  StageInv'
    BY <1>29, DaemonsAssumption DEF Request, files, listeners,
      flags, pending, outcome, TypeOK, StageInv, Closing, Places, Starting,
      Serving
  <1>30. ASSUME NEW d \in Daemons, Answer(d)
      PROVE  StageInv'
    BY <1>30, DaemonsAssumption DEF Answer, files, listeners,
      flags, pending, outcome, TypeOK, StageInv, Closing, Places, Starting,
      Serving
  <1>31. CASE Wipe
    BY <1>31, DaemonsAssumption DEF Wipe, Event, Unlink, files, listeners,
      flags, pending, outcome, TypeOK, StageInv, Closing, Places, Starting,
      Serving
  <1>32. CASE UNCHANGED vars
    BY <1>32, DaemonsAssumption DEF vars, files, listeners, flags, pending,
      outcome, TypeOK, StageInv, Closing, Places, Starting, Serving
  <1> QED BY <1>1, <1>2, <1>3, <1>4, <1>5, <1>6, <1>7, <1>8, <1>9,
    <1>10, <1>11, <1>12, <1>13, <1>14, <1>15, <1>16, <1>17, <1>18, <1>19,
    <1>20, <1>21, <1>22, <1>23, <1>24, <1>25, <1>26, <1>27, <1>28, <1>29,
    <1>30, <1>31, <1>32 DEF Next, Main, Start, Close, Watchdog, Chance

(* Every step keeps the sockets apart, and counts their thefts.             *)
LEMMA SockStep ==
    ASSUME TypeOK, StageInv, SockInv, [Next]_vars
    PROVE  SockInv'
  <1>1. ASSUME NEW d \in Daemons, Probe(d)
      PROVE  SockInv'
    <2>1. CASE Dials(path)
      <3>1. /\ pc[d] = "probe"
            /\ Over(d, "zero")
            /\ UNCHANGED <<files, racing, ret, events>>
        BY <1>1, <2>1 DEF Probe, Goto
      <3>2. Robbed' = Robbed
        BY <3>1 DEF files, Robbed
      <3> QED BY <2>1, <3>1, <3>2, DaemonsAssumption DEF Over, files,
        listeners, flags, pending, outcome, TypeOK, StageInv, SockInv, Late,
        Closing, Places, Starting, Serving
    <2>2. CASE ~ Dials(path)
      <3>1. /\ Goto(d, "probe", "clean")
            /\ UNCHANGED <<files, listeners, watch, flags, pending, published,
                  outcome, events>>
        BY <1>1, <2>2 DEF Probe, Goto
      <3>2. Robbed' = Robbed
        BY <3>1 DEF files, Robbed
      <3> QED BY <2>2, <3>1, <3>2, DaemonsAssumption DEF Goto, files,
        listeners, flags, pending, outcome, TypeOK, StageInv, SockInv, Late,
        Closing, Places, Starting, Serving
    <2> QED BY <2>1, <2>2
  <1>2. ASSUME NEW d \in Daemons, Clean(d)
      PROVE  SockInv'
    <2>1. Robbed' = Robbed
      BY <1>2 DEF Clean, Goto, files, Robbed
    <2> QED BY <1>2, <2>1, DaemonsAssumption DEF Clean, Goto, files,
      listeners, flags, pending, outcome, TypeOK, StageInv, SockInv, Late,
      Closing, Places, Starting, Serving
  <1>3. ASSUME NEW d \in Daemons, CleanUnlink(d)
      PROVE  SockInv'
    <2>1. CASE path = None
      <3>1. pc[d] = "unlink" /\ Refuse(d)
        BY <1>3, <2>1 DEF CleanUnlink, Goto
      <3>2. Robbed' = Robbed
        BY <3>1 DEF Refuse, files, Robbed
      <3> QED BY <2>1, <3>1, <3>2, DaemonsAssumption DEF Refuse, Over, files,
        listeners, flags, pending, outcome, TypeOK, StageInv, SockInv, Late,
        Closing, Places, Starting, Serving
    <2>2. CASE path # None
      <3>1. /\ Goto(d, "unlink", "stat")
            /\ Unlink(d)
            /\ UNCHANGED <<listeners, watch, flags, pending, published,
                  outcome, events>>
        BY <1>3, <2>2 DEF CleanUnlink, Goto
      <3>2. Robbed' = Robbed \union
             {e \in Daemons \ {d} : sock[e] # None /\ sock[e] = path}
        BY <3>1, UnlinkRobs
      <3> QED BY <2>2, <3>1, <3>2, DaemonsAssumption DEF Goto, Unlink, files,
        listeners, flags, pending, outcome, TypeOK, StageInv, SockInv, Late,
        Closing, Places, Starting, Serving
    <2> QED BY <2>1, <2>2
  <1>4. ASSUME NEW d \in Daemons, ListenStat(d)
      PROVE  SockInv'
    <2>1. Robbed' = Robbed
      BY <1>4 DEF ListenStat, Goto, files, Robbed
    <2> QED BY <1>4, <2>1, DaemonsAssumption DEF ListenStat, Goto, files,
      listeners, flags, pending, outcome, TypeOK, StageInv, SockInv, Late,
      Closing, Places, Starting, Serving
  <1>5. ASSUME NEW d \in Daemons, ListenDial(d)
      PROVE  SockInv'
    <2>1. CASE Dials(path)
      <3>1. pc[d] = "dial" /\ Refuse(d)
        BY <1>5, <2>1 DEF ListenDial, Goto
      <3>2. Robbed' = Robbed
        BY <3>1 DEF Refuse, files, Robbed
      <3> QED BY <2>1, <3>1, <3>2, DaemonsAssumption DEF Refuse, Over, files,
        listeners, flags, pending, outcome, TypeOK, StageInv, SockInv, Late,
        Closing, Places, Starting, Serving
    <2>2. CASE ~ Dials(path)
      <3>1. /\ Goto(d, "dial", "rmstale")
            /\ UNCHANGED <<files, listeners, watch, flags, pending, published,
                  outcome, events>>
        BY <1>5, <2>2 DEF ListenDial, Goto
      <3>2. Robbed' = Robbed
        BY <3>1 DEF files, Robbed
      <3> QED BY <2>2, <3>1, <3>2, DaemonsAssumption DEF Goto, files,
        listeners, flags, pending, outcome, TypeOK, StageInv, SockInv, Late,
        Closing, Places, Starting, Serving
    <2> QED BY <2>1, <2>2
  <1>6. ASSUME NEW d \in Daemons, ListenRemoveStale(d)
      PROVE  SockInv'
    <2>1. Robbed' = Robbed \union
           {e \in Daemons \ {d} : sock[e] # None /\ sock[e] = path}
      BY <1>6, UnlinkRobs DEF ListenRemoveStale
    <2> QED BY <1>6, <2>1, DaemonsAssumption DEF ListenRemoveStale, Goto,
      Unlink, files, listeners, flags, pending, outcome, TypeOK, StageInv,
      SockInv, Late, Closing, Places, Starting, Serving
  <1>7. ASSUME NEW d \in Daemons, ListenBind(d)
      PROVE  SockInv'
    <2>1. CASE path = None
      <3>1. /\ Goto(d, "bind", "ident")
            /\ \E i \in FreeInodes : path' = i /\ sock' = [sock EXCEPT ![d] =
                  i]
            /\ maker' = d
            /\ racing' = [racing EXCEPT ![d] = InWindow(d)]
            /\ UNCHANGED <<thefts, ident, lis, watch, flags, pending,
                  published, outcome, events>>
        BY <1>7, <2>1 DEF ListenBind, Goto
      <3>2. Robbed' = Robbed
        BY <3>1 DEF files, Robbed
      <3> QED BY <2>1, <3>1, <3>2, DaemonsAssumption DEF Goto, FreeInodes,
        InWindow, files, listeners, flags, pending, outcome, TypeOK,
        StageInv, SockInv, Late, Closing, Places, Starting, Serving
    <2>2. CASE path # None
      <3>1. pc[d] = "bind" /\ Refuse(d)
        BY <1>7, <2>2 DEF ListenBind, Goto
      <3>2. Robbed' = Robbed
        BY <3>1 DEF Refuse, files, Robbed
      <3> QED BY <2>2, <3>1, <3>2, DaemonsAssumption DEF Refuse, Over, files,
        listeners, flags, pending, outcome, TypeOK, StageInv, SockInv, Late,
        Closing, Places, Starting, Serving
    <2> QED BY <2>1, <2>2
  <1>8. ASSUME NEW d \in Daemons, ListenIdentify(d)
      PROVE  SockInv'
    <2>1. CASE path = None
      <3>1. /\ Goto(d, "ident", "unbind")
            /\ sock' = [sock EXCEPT ![d] = None]
            /\ UNCHANGED <<files, ident, racing, lis, watch, flags, pending,
                  published, outcome, events>>
        BY <1>8, <2>1 DEF ListenIdentify, Goto
      <3>2. Robbed' = Robbed
        BY <3>1 DEF files, Robbed
      <3> QED BY <2>1, <3>1, <3>2, DaemonsAssumption DEF Goto, files,
        listeners, flags, pending, outcome, TypeOK, StageInv, SockInv, Late,
        Closing, Places, Starting, Serving
    <2>2. CASE path # None
      <3>1. /\ Goto(d, "ident", "boot")
            /\ ident' = [ident EXCEPT ![d] = path]
            /\ lis' = [lis EXCEPT ![d] = "open"]
            /\ watch' = [watch EXCEPT ![d] = "on"]
            /\ UNCHANGED <<files, sock, racing, flags, pending, published,
                  outcome, events>>
        BY <1>8, <2>2 DEF ListenIdentify, Goto
      <3>2. Robbed' = Robbed
        BY <3>1 DEF files, Robbed
      <3> QED BY <2>2, <3>1, <3>2, DaemonsAssumption DEF Goto, files,
        listeners, flags, pending, outcome, TypeOK, StageInv, SockInv, Late,
        Closing, Places, Starting, Serving
    <2> QED BY <2>1, <2>2
  <1>9. ASSUME NEW d \in Daemons, ListenUndo(d)
      PROVE  SockInv'
    <2>1. Robbed' = Robbed \union
           {e \in Daemons \ {d} : sock[e] # None /\ sock[e] = path}
      BY <1>9, UnlinkRobs DEF ListenUndo
    <2> QED BY <1>9, <2>1, DaemonsAssumption DEF ListenUndo, Over, Unlink,
      files, listeners, flags, pending, outcome, TypeOK, StageInv, SockInv,
      Late, Closing, Places, Starting, Serving
  <1>10. ASSUME NEW d \in Daemons, BootFails(d)
      PROVE  SockInv'
    <2>1. Robbed' = Robbed
      BY <1>10 DEF BootFails, Bail, files, Robbed
    <2> QED BY <1>10, <2>1, DaemonsAssumption DEF BootFails, Bail,
      TriggerShutdown, files, listeners, flags, pending, outcome, TypeOK,
      StageInv, SockInv, Late, Closing, Places, Starting, Serving
  <1>11. ASSUME NEW d \in Daemons, BootCut(d)
      PROVE  SockInv'
    <2>1. Robbed' = Robbed
      BY <1>11 DEF BootCut, Bail, files, Robbed
    <2> QED BY <1>11, <2>1, DaemonsAssumption DEF BootCut, Bail,
      TriggerShutdown, files, listeners, flags, pending, outcome, TypeOK,
      StageInv, SockInv, Late, Closing, Places, Starting, Serving
  <1>12. ASSUME NEW d \in Daemons, BootSucceeds(d)
      PROVE  SockInv'
    <2>1. Robbed' = Robbed
      BY <1>12 DEF BootSucceeds, Goto, files, Robbed
    <2> QED BY <1>12, <2>1, DaemonsAssumption DEF BootSucceeds, Goto, files,
      listeners, flags, pending, outcome, TypeOK, StageInv, SockInv, Late,
      Closing, Places, Starting, Serving
  <1>13. ASSUME NEW d \in Daemons, BadIdleTimeout(d)
      PROVE  SockInv'
    <2>1. Robbed' = Robbed
      BY <1>13 DEF BadIdleTimeout, Bail, files, Robbed
    <2> QED BY <1>13, <2>1, DaemonsAssumption DEF BadIdleTimeout, Bail,
      TriggerShutdown, files, listeners, flags, pending, outcome, TypeOK,
      StageInv, SockInv, Late, Closing, Places, Starting, Serving
  <1>14. ASSUME NEW d \in Daemons, Select(d)
      PROVE  SockInv'
    <2>1. Robbed' = Robbed
      BY <1>14 DEF Select, Goto, files, Robbed
    <2> QED BY <1>14, <2>1, DaemonsAssumption DEF Select, Goto,
      TriggerShutdown, files, listeners, flags, pending, outcome, TypeOK,
      StageInv, SockInv, Late, Closing, Places, Starting, Serving
  <1>15. ASSUME NEW d \in Daemons, Exit(d)
      PROVE  SockInv'
    <2>1. Robbed' = Robbed
      BY <1>15 DEF Exit, Drained, files, Robbed
    <2> QED BY <1>15, <2>1, DaemonsAssumption DEF Exit, Drained, Over, files,
      listeners, flags, pending, outcome, TypeOK, StageInv, SockInv, Late,
      Closing, Places, Starting, Serving
  <1>16. ASSUME NEW d \in Daemons, CloseBegins(d)
      PROVE  SockInv'
    <2>1. Robbed' = Robbed
      BY <1>16 DEF CloseBegins, files, Robbed
    <2> QED BY <1>16, <2>1, DaemonsAssumption DEF CloseBegins, files,
      listeners, flags, pending, outcome, TypeOK, StageInv, SockInv, Late,
      Closing, Places, Starting, Serving
  <1>17. ASSUME NEW d \in Daemons, CloseChecks(d)
      PROVE  SockInv'
    <2>1. Robbed' = Robbed
      BY <1>17 DEF CloseChecks, files, Robbed
    <2> QED BY <1>17, <2>1, DaemonsAssumption DEF CloseChecks, StillOwned,
      files, listeners, flags, pending, outcome, TypeOK, StageInv, SockInv,
      Late, Closing, Places, Starting, Serving
  <1>18. ASSUME NEW d \in Daemons, CloseUnlinks(d)
      PROVE  SockInv'
    <2>1. Robbed' = Robbed \union
           {e \in Daemons \ {d} : sock[e] # None /\ sock[e] = path}
      BY <1>18, UnlinkRobs DEF CloseUnlinks
    <2> QED BY <1>18, <2>1, DaemonsAssumption DEF CloseUnlinks, Unlink,
      files, listeners, flags, pending, outcome, TypeOK, StageInv, SockInv,
      Late, Closing, Places, Starting, Serving
  <1>19. ASSUME NEW d \in Daemons, WatchTick(d)
      PROVE  SockInv'
    <2>1. Robbed' = Robbed
      BY <1>19 DEF WatchTick, files, Robbed
    <2> QED BY <1>19, <2>1, DaemonsAssumption DEF WatchTick, WatchMoves,
      StillOwned, files, listeners, flags, pending, outcome, TypeOK,
      StageInv, SockInv, Late, Closing, Places, Starting, Serving
  <1>20. ASSUME NEW d \in Daemons, WatchDoubt(d)
      PROVE  SockInv'
    <2>1. Robbed' = Robbed
      BY <1>20 DEF WatchDoubt, files, Robbed
    <2> QED BY <1>20, <2>1, DaemonsAssumption DEF WatchDoubt, WatchMoves,
      files, listeners, flags, pending, outcome, TypeOK, StageInv, SockInv,
      Late, Closing, Places, Starting, Serving
  <1>21. ASSUME NEW d \in Daemons, WatchMark(d)
      PROVE  SockInv'
    <2>1. Robbed' = Robbed
      BY <1>21 DEF WatchMark, files, Robbed
    <2> QED BY <1>21, <2>1, DaemonsAssumption DEF WatchMark, WatchMoves,
      files, listeners, flags, pending, outcome, TypeOK, StageInv, SockInv,
      Late, Closing, Places, Starting, Serving
  <1>22. ASSUME NEW d \in Daemons, WatchCancel(d)
      PROVE  SockInv'
    <2>1. Robbed' = Robbed
      BY <1>22 DEF WatchCancel, files, Robbed
    <2> QED BY <1>22, <2>1, DaemonsAssumption DEF WatchCancel, WatchMoves,
      TriggerShutdown, files, listeners, flags, pending, outcome, TypeOK,
      StageInv, SockInv, Late, Closing, Places, Starting, Serving
  <1>23. ASSUME NEW d \in Daemons, Launch(d)
      PROVE  SockInv'
    <2>1. Robbed' = Robbed
      BY <1>23 DEF Launch, Goto, files, Robbed
    <2> QED BY <1>23, <2>1, DaemonsAssumption DEF Launch, Goto, files,
      listeners, flags, pending, outcome, TypeOK, StageInv, SockInv, Late,
      Closing, Places, Starting, Serving
  <1>24. ASSUME NEW d \in Daemons, Kill(d)
      PROVE  SockInv'
    <2>1. Robbed' = Robbed
      BY <1>24 DEF Kill, files, Robbed
    <2> QED BY <1>24, <2>1, DaemonsAssumption DEF Kill, Event, Over, files,
      listeners, flags, pending, outcome, TypeOK, StageInv, SockInv, Late,
      Closing, Places, Starting, Serving
  <1>25. ASSUME NEW d \in Daemons, Signal(d)
      PROVE  SockInv'
    <2>1. Robbed' = Robbed
      BY <1>25 DEF Signal, files, Robbed
    <2> QED BY <1>25, <2>1, DaemonsAssumption DEF Signal, Event, files,
      listeners, flags, pending, outcome, TypeOK, StageInv, SockInv, Late,
      Closing, Places, Starting, Serving
  <1>26. ASSUME NEW d \in Daemons, Shutdown(d)
      PROVE  SockInv'
    <2>1. Robbed' = Robbed
      BY <1>26 DEF Shutdown, Served, files, Robbed
    <2> QED BY <1>26, <2>1, DaemonsAssumption DEF Shutdown, Served, Event,
      TriggerShutdown, files, listeners, flags, pending, outcome, TypeOK,
      StageInv, SockInv, Late, Closing, Places, Starting, Serving
  <1>27. ASSUME NEW d \in Daemons, ServeFault(d)
      PROVE  SockInv'
    <2>1. Robbed' = Robbed
      BY <1>27 DEF ServeFault, Served, files, Robbed
    <2> QED BY <1>27, <2>1, DaemonsAssumption DEF ServeFault, Served, Event,
      files, listeners, flags, pending, outcome, TypeOK, StageInv, SockInv,
      Late, Closing, Places, Starting, Serving
  <1>28. ASSUME NEW d \in Daemons, Serve(d)
      PROVE  SockInv'
    <2>1. Robbed' = Robbed
      BY <1>28 DEF Serve, files, Robbed
    <2> QED BY <1>28, <2>1, DaemonsAssumption DEF Serve, files,
      listeners, flags, pending, outcome, TypeOK, StageInv, SockInv, Late,
      Closing, Places, Starting, Serving
  <1>29. ASSUME NEW d \in Daemons, Request(d)
      PROVE  SockInv'
    <2>1. Robbed' = Robbed
      BY <1>29 DEF Request, files, Robbed
    <2> QED BY <1>29, <2>1, DaemonsAssumption DEF Request, files,
      listeners, flags, pending, outcome, TypeOK, StageInv, SockInv, Late,
      Closing, Places, Starting, Serving
  <1>30. ASSUME NEW d \in Daemons, Answer(d)
      PROVE  SockInv'
    <2>1. Robbed' = Robbed
      BY <1>30 DEF Answer, files, Robbed
    <2> QED BY <1>30, <2>1, DaemonsAssumption DEF Answer, files,
      listeners, flags, pending, outcome, TypeOK, StageInv, SockInv, Late,
      Closing, Places, Starting, Serving
  <1>31. CASE Wipe
    <2>1. Robbed' = Robbed \union
           {e \in Daemons \ {Outside} : sock[e] # None /\ sock[e] = path}
      BY <1>31, UnlinkRobs DEF Wipe
    <2> QED BY <1>31, <2>1, DaemonsAssumption DEF Wipe, Event, Unlink, files,
      listeners, flags, pending, outcome, TypeOK, StageInv, SockInv, Late,
      Closing, Places, Starting, Serving
  <1>32. CASE UNCHANGED vars
    <2>1. Robbed' = Robbed
      BY <1>32 DEF vars, files, Robbed
    <2> QED BY <1>32, <2>1, DaemonsAssumption DEF vars, files, listeners,
      flags, pending, outcome, TypeOK, StageInv, SockInv, Late, Closing,
      Places, Starting, Serving
  <1> QED BY <1>1, <1>2, <1>3, <1>4, <1>5, <1>6, <1>7, <1>8, <1>9,
    <1>10, <1>11, <1>12, <1>13, <1>14, <1>15, <1>16, <1>17, <1>18, <1>19,
    <1>20, <1>21, <1>22, <1>23, <1>24, <1>25, <1>26, <1>27, <1>28, <1>29,
    <1>30, <1>31, <1>32 DEF Next, Main, Start, Close, Watchdog, Chance

(* Every step keeps the evictions justified.                                *)
LEMMA EvictStep ==
    ASSUME TypeOK, StageInv, SockInv, EvictInv, [Next]_vars
    PROVE  EvictInv'
  <1>1. ASSUME NEW d \in Daemons, Probe(d)
      PROVE  EvictInv'
    <2>1. CASE Dials(path)
      <3>1. /\ pc[d] = "probe"
            /\ Over(d, "zero")
            /\ UNCHANGED <<files, racing, ret, events>>
        BY <1>1, <2>1 DEF Probe, Goto
      <3>2. Robbed' = Robbed
        BY <3>1 DEF files, Robbed
      <3> QED BY <2>1, <3>1, <3>2, DaemonsAssumption DEF Over, files,
        listeners, flags, pending, outcome, TypeOK, StageInv, SockInv,
        EvictInv, Closing, Places, Starting, Serving
    <2>2. CASE ~ Dials(path)
      <3>1. /\ Goto(d, "probe", "clean")
            /\ UNCHANGED <<files, listeners, watch, flags, pending, published,
                  outcome, events>>
        BY <1>1, <2>2 DEF Probe, Goto
      <3>2. Robbed' = Robbed
        BY <3>1 DEF files, Robbed
      <3> QED BY <2>2, <3>1, <3>2, DaemonsAssumption DEF Goto, files,
        listeners, flags, pending, outcome, TypeOK, StageInv, SockInv,
        EvictInv, Closing, Places, Starting, Serving
    <2> QED BY <2>1, <2>2
  <1>2. ASSUME NEW d \in Daemons, Clean(d)
      PROVE  EvictInv'
    <2>1. Robbed' = Robbed
      BY <1>2 DEF Clean, Goto, files, Robbed
    <2> QED BY <1>2, <2>1, DaemonsAssumption DEF Clean, Goto, files,
      listeners, flags, pending, outcome, TypeOK, StageInv, SockInv,
      EvictInv, Closing, Places, Starting, Serving
  <1>3. ASSUME NEW d \in Daemons, CleanUnlink(d)
      PROVE  EvictInv'
    <2>1. CASE path = None
      <3>1. pc[d] = "unlink" /\ Refuse(d)
        BY <1>3, <2>1 DEF CleanUnlink, Goto
      <3>2. Robbed' = Robbed
        BY <3>1 DEF Refuse, files, Robbed
      <3> QED BY <2>1, <3>1, <3>2, DaemonsAssumption DEF Refuse, Over, files,
        listeners, flags, pending, outcome, TypeOK, StageInv, SockInv,
        EvictInv, Closing, Places, Starting, Serving
    <2>2. CASE path # None
      <3>1. /\ Goto(d, "unlink", "stat")
            /\ Unlink(d)
            /\ UNCHANGED <<listeners, watch, flags, pending, published,
                  outcome, events>>
        BY <1>3, <2>2 DEF CleanUnlink, Goto
      <3>2. Robbed' = Robbed \union
             {e \in Daemons \ {d} : sock[e] # None /\ sock[e] = path}
        BY <3>1, UnlinkRobs
      <3> QED BY <2>2, <3>1, <3>2, DaemonsAssumption DEF Goto, Unlink, files,
        listeners, flags, pending, outcome, TypeOK, StageInv, SockInv,
        EvictInv, Closing, Places, Starting, Serving
    <2> QED BY <2>1, <2>2
  <1>4. ASSUME NEW d \in Daemons, ListenStat(d)
      PROVE  EvictInv'
    <2>1. Robbed' = Robbed
      BY <1>4 DEF ListenStat, Goto, files, Robbed
    <2> QED BY <1>4, <2>1, DaemonsAssumption DEF ListenStat, Goto, files,
      listeners, flags, pending, outcome, TypeOK, StageInv, SockInv,
      EvictInv, Closing, Places, Starting, Serving
  <1>5. ASSUME NEW d \in Daemons, ListenDial(d)
      PROVE  EvictInv'
    <2>1. CASE Dials(path)
      <3>1. pc[d] = "dial" /\ Refuse(d)
        BY <1>5, <2>1 DEF ListenDial, Goto
      <3>2. Robbed' = Robbed
        BY <3>1 DEF Refuse, files, Robbed
      <3> QED BY <2>1, <3>1, <3>2, DaemonsAssumption DEF Refuse, Over, files,
        listeners, flags, pending, outcome, TypeOK, StageInv, SockInv,
        EvictInv, Closing, Places, Starting, Serving
    <2>2. CASE ~ Dials(path)
      <3>1. /\ Goto(d, "dial", "rmstale")
            /\ UNCHANGED <<files, listeners, watch, flags, pending, published,
                  outcome, events>>
        BY <1>5, <2>2 DEF ListenDial, Goto
      <3>2. Robbed' = Robbed
        BY <3>1 DEF files, Robbed
      <3> QED BY <2>2, <3>1, <3>2, DaemonsAssumption DEF Goto, files,
        listeners, flags, pending, outcome, TypeOK, StageInv, SockInv,
        EvictInv, Closing, Places, Starting, Serving
    <2> QED BY <2>1, <2>2
  <1>6. ASSUME NEW d \in Daemons, ListenRemoveStale(d)
      PROVE  EvictInv'
    <2>1. Robbed' = Robbed \union
           {e \in Daemons \ {d} : sock[e] # None /\ sock[e] = path}
      BY <1>6, UnlinkRobs DEF ListenRemoveStale
    <2> QED BY <1>6, <2>1, DaemonsAssumption DEF ListenRemoveStale, Goto,
      Unlink, files, listeners, flags, pending, outcome, TypeOK, StageInv,
      SockInv, EvictInv, Closing, Places, Starting, Serving
  <1>7. ASSUME NEW d \in Daemons, ListenBind(d)
      PROVE  EvictInv'
    <2>1. CASE path = None
      <3>1. /\ Goto(d, "bind", "ident")
            /\ \E i \in FreeInodes : path' = i /\ sock' = [sock EXCEPT ![d] =
                  i]
            /\ maker' = d
            /\ racing' = [racing EXCEPT ![d] = InWindow(d)]
            /\ UNCHANGED <<thefts, ident, lis, watch, flags, pending,
                  published, outcome, events>>
        BY <1>7, <2>1 DEF ListenBind, Goto
      <3>2. Robbed' = Robbed
        BY <3>1 DEF files, Robbed
      <3> QED BY <2>1, <3>1, <3>2, DaemonsAssumption DEF Goto, FreeInodes,
        InWindow, files, listeners, flags, pending, outcome, TypeOK,
        StageInv, SockInv, EvictInv, Closing, Places, Starting, Serving
    <2>2. CASE path # None
      <3>1. pc[d] = "bind" /\ Refuse(d)
        BY <1>7, <2>2 DEF ListenBind, Goto
      <3>2. Robbed' = Robbed
        BY <3>1 DEF Refuse, files, Robbed
      <3> QED BY <2>2, <3>1, <3>2, DaemonsAssumption DEF Refuse, Over, files,
        listeners, flags, pending, outcome, TypeOK, StageInv, SockInv,
        EvictInv, Closing, Places, Starting, Serving
    <2> QED BY <2>1, <2>2
  <1>8. ASSUME NEW d \in Daemons, ListenIdentify(d)
      PROVE  EvictInv'
    <2>1. CASE path = None
      <3>1. /\ Goto(d, "ident", "unbind")
            /\ sock' = [sock EXCEPT ![d] = None]
            /\ UNCHANGED <<files, ident, racing, lis, watch, flags, pending,
                  published, outcome, events>>
        BY <1>8, <2>1 DEF ListenIdentify, Goto
      <3>2. Robbed' = Robbed
        BY <3>1 DEF files, Robbed
      <3> QED BY <2>1, <3>1, <3>2, DaemonsAssumption DEF Goto, files,
        listeners, flags, pending, outcome, TypeOK, StageInv, SockInv,
        EvictInv, Closing, Places, Starting, Serving
    <2>2. CASE path # None
      <3>1. /\ Goto(d, "ident", "boot")
            /\ ident' = [ident EXCEPT ![d] = path]
            /\ lis' = [lis EXCEPT ![d] = "open"]
            /\ watch' = [watch EXCEPT ![d] = "on"]
            /\ UNCHANGED <<files, sock, racing, flags, pending, published,
                  outcome, events>>
        BY <1>8, <2>2 DEF ListenIdentify, Goto
      <3>2. Robbed' = Robbed
        BY <3>1 DEF files, Robbed
      <3> QED BY <2>2, <3>1, <3>2, DaemonsAssumption DEF Goto, files,
        listeners, flags, pending, outcome, TypeOK, StageInv, SockInv,
        EvictInv, Closing, Places, Starting, Serving
    <2> QED BY <2>1, <2>2
  <1>9. ASSUME NEW d \in Daemons, ListenUndo(d)
      PROVE  EvictInv'
    <2>1. Robbed' = Robbed \union
           {e \in Daemons \ {d} : sock[e] # None /\ sock[e] = path}
      BY <1>9, UnlinkRobs DEF ListenUndo
    <2> QED BY <1>9, <2>1, DaemonsAssumption DEF ListenUndo, Over, Unlink,
      files, listeners, flags, pending, outcome, TypeOK, StageInv, SockInv,
      EvictInv, Closing, Places, Starting, Serving
  <1>10. ASSUME NEW d \in Daemons, BootFails(d)
      PROVE  EvictInv'
    <2>1. Robbed' = Robbed
      BY <1>10 DEF BootFails, Bail, files, Robbed
    <2> QED BY <1>10, <2>1, DaemonsAssumption DEF BootFails, Bail,
      TriggerShutdown, files, listeners, flags, pending, outcome, TypeOK,
      StageInv, SockInv, EvictInv, Closing, Places, Starting, Serving
  <1>11. ASSUME NEW d \in Daemons, BootCut(d)
      PROVE  EvictInv'
    <2>1. Robbed' = Robbed
      BY <1>11 DEF BootCut, Bail, files, Robbed
    <2> QED BY <1>11, <2>1, DaemonsAssumption DEF BootCut, Bail,
      TriggerShutdown, files, listeners, flags, pending, outcome, TypeOK,
      StageInv, SockInv, EvictInv, Closing, Places, Starting, Serving
  <1>12. ASSUME NEW d \in Daemons, BootSucceeds(d)
      PROVE  EvictInv'
    <2>1. Robbed' = Robbed
      BY <1>12 DEF BootSucceeds, Goto, files, Robbed
    <2> QED BY <1>12, <2>1, DaemonsAssumption DEF BootSucceeds, Goto, files,
      listeners, flags, pending, outcome, TypeOK, StageInv, SockInv,
      EvictInv, Closing, Places, Starting, Serving
  <1>13. ASSUME NEW d \in Daemons, BadIdleTimeout(d)
      PROVE  EvictInv'
    <2>1. Robbed' = Robbed
      BY <1>13 DEF BadIdleTimeout, Bail, files, Robbed
    <2> QED BY <1>13, <2>1, DaemonsAssumption DEF BadIdleTimeout, Bail,
      TriggerShutdown, files, listeners, flags, pending, outcome, TypeOK,
      StageInv, SockInv, EvictInv, Closing, Places, Starting, Serving
  <1>14. ASSUME NEW d \in Daemons, Select(d)
      PROVE  EvictInv'
    <2>1. Robbed' = Robbed
      BY <1>14 DEF Select, Goto, files, Robbed
    <2> QED BY <1>14, <2>1, DaemonsAssumption DEF Select, Goto,
      TriggerShutdown, files, listeners, flags, pending, outcome, TypeOK,
      StageInv, SockInv, EvictInv, Closing, Places, Starting, Serving
  <1>15. ASSUME NEW d \in Daemons, Exit(d)
      PROVE  EvictInv'
    <2>1. Robbed' = Robbed
      BY <1>15 DEF Exit, Drained, files, Robbed
    <2> QED BY <1>15, <2>1, DaemonsAssumption DEF Exit, Drained, Over, files,
      listeners, flags, pending, outcome, TypeOK, StageInv, SockInv,
      EvictInv, Closing, Places, Starting, Serving
  <1>16. ASSUME NEW d \in Daemons, CloseBegins(d)
      PROVE  EvictInv'
    <2>1. Robbed' = Robbed
      BY <1>16 DEF CloseBegins, files, Robbed
    <2> QED BY <1>16, <2>1, DaemonsAssumption DEF CloseBegins, files,
      listeners, flags, pending, outcome, TypeOK, StageInv, SockInv,
      EvictInv, Closing, Places, Starting, Serving
  <1>17. ASSUME NEW d \in Daemons, CloseChecks(d)
      PROVE  EvictInv'
    <2>1. Robbed' = Robbed
      BY <1>17 DEF CloseChecks, files, Robbed
    <2> QED BY <1>17, <2>1, DaemonsAssumption DEF CloseChecks, StillOwned,
      files, listeners, flags, pending, outcome, TypeOK, StageInv, SockInv,
      EvictInv, Closing, Places, Starting, Serving
  <1>18. ASSUME NEW d \in Daemons, CloseUnlinks(d)
      PROVE  EvictInv'
    <2>1. Robbed' = Robbed \union
           {e \in Daemons \ {d} : sock[e] # None /\ sock[e] = path}
      BY <1>18, UnlinkRobs DEF CloseUnlinks
    <2> QED BY <1>18, <2>1, DaemonsAssumption DEF CloseUnlinks, Unlink,
      files, listeners, flags, pending, outcome, TypeOK, StageInv, SockInv,
      EvictInv, Closing, Places, Starting, Serving
  <1>19. ASSUME NEW d \in Daemons, WatchTick(d)
      PROVE  EvictInv'
    <2>1. Robbed' = Robbed
      BY <1>19 DEF WatchTick, files, Robbed
    <2> QED BY <1>19, <2>1, DaemonsAssumption DEF WatchTick, WatchMoves,
      StillOwned, files, listeners, flags, pending, outcome, TypeOK,
      StageInv, SockInv, EvictInv, Closing, Places, Starting, Serving
  <1>20. ASSUME NEW d \in Daemons, WatchDoubt(d)
      PROVE  EvictInv'
    <2>1. Robbed' = Robbed
      BY <1>20 DEF WatchDoubt, files, Robbed
    <2> QED BY <1>20, <2>1, DaemonsAssumption DEF WatchDoubt, WatchMoves,
      files, listeners, flags, pending, outcome, TypeOK, StageInv, SockInv,
      EvictInv, Closing, Places, Starting, Serving
  <1>21. ASSUME NEW d \in Daemons, WatchMark(d)
      PROVE  EvictInv'
    <2>1. Robbed' = Robbed
      BY <1>21 DEF WatchMark, files, Robbed
    <2> QED BY <1>21, <2>1, DaemonsAssumption DEF WatchMark, WatchMoves,
      files, listeners, flags, pending, outcome, TypeOK, StageInv, SockInv,
      EvictInv, Closing, Places, Starting, Serving
  <1>22. ASSUME NEW d \in Daemons, WatchCancel(d)
      PROVE  EvictInv'
    <2>1. Robbed' = Robbed
      BY <1>22 DEF WatchCancel, files, Robbed
    <2> QED BY <1>22, <2>1, DaemonsAssumption DEF WatchCancel, WatchMoves,
      TriggerShutdown, files, listeners, flags, pending, outcome, TypeOK,
      StageInv, SockInv, EvictInv, Closing, Places, Starting, Serving
  <1>23. ASSUME NEW d \in Daemons, Launch(d)
      PROVE  EvictInv'
    <2>1. Robbed' = Robbed
      BY <1>23 DEF Launch, Goto, files, Robbed
    <2> QED BY <1>23, <2>1, DaemonsAssumption DEF Launch, Goto, files,
      listeners, flags, pending, outcome, TypeOK, StageInv, SockInv,
      EvictInv, Closing, Places, Starting, Serving
  <1>24. ASSUME NEW d \in Daemons, Kill(d)
      PROVE  EvictInv'
    <2>1. Robbed' = Robbed
      BY <1>24 DEF Kill, files, Robbed
    <2> QED BY <1>24, <2>1, DaemonsAssumption DEF Kill, Event, Over, files,
      listeners, flags, pending, outcome, TypeOK, StageInv, SockInv,
      EvictInv, Closing, Places, Starting, Serving
  <1>25. ASSUME NEW d \in Daemons, Signal(d)
      PROVE  EvictInv'
    <2>1. Robbed' = Robbed
      BY <1>25 DEF Signal, files, Robbed
    <2> QED BY <1>25, <2>1, DaemonsAssumption DEF Signal, Event, files,
      listeners, flags, pending, outcome, TypeOK, StageInv, SockInv,
      EvictInv, Closing, Places, Starting, Serving
  <1>26. ASSUME NEW d \in Daemons, Shutdown(d)
      PROVE  EvictInv'
    <2>1. Robbed' = Robbed
      BY <1>26 DEF Shutdown, Served, files, Robbed
    <2> QED BY <1>26, <2>1, DaemonsAssumption DEF Shutdown, Served, Event,
      TriggerShutdown, files, listeners, flags, pending, outcome, TypeOK,
      StageInv, SockInv, EvictInv, Closing, Places, Starting, Serving
  <1>27. ASSUME NEW d \in Daemons, ServeFault(d)
      PROVE  EvictInv'
    <2>1. Robbed' = Robbed
      BY <1>27 DEF ServeFault, Served, files, Robbed
    <2> QED BY <1>27, <2>1, DaemonsAssumption DEF ServeFault, Served, Event,
      files, listeners, flags, pending, outcome, TypeOK, StageInv, SockInv,
      EvictInv, Closing, Places, Starting, Serving
  <1>28. ASSUME NEW d \in Daemons, Serve(d)
      PROVE  EvictInv'
    <2>1. Robbed' = Robbed
      BY <1>28 DEF Serve, files, Robbed
    <2> QED BY <1>28, <2>1, DaemonsAssumption DEF Serve, files,
      listeners, flags, pending, outcome, TypeOK, StageInv, SockInv,
      EvictInv, Closing, Places, Starting, Serving
  <1>29. ASSUME NEW d \in Daemons, Request(d)
      PROVE  EvictInv'
    <2>1. Robbed' = Robbed
      BY <1>29 DEF Request, files, Robbed
    <2> QED BY <1>29, <2>1, DaemonsAssumption DEF Request, files,
      listeners, flags, pending, outcome, TypeOK, StageInv, SockInv,
      EvictInv, Closing, Places, Starting, Serving
  <1>30. ASSUME NEW d \in Daemons, Answer(d)
      PROVE  EvictInv'
    <2>1. Robbed' = Robbed
      BY <1>30 DEF Answer, files, Robbed
    <2> QED BY <1>30, <2>1, DaemonsAssumption DEF Answer, files,
      listeners, flags, pending, outcome, TypeOK, StageInv, SockInv,
      EvictInv, Closing, Places, Starting, Serving
  <1>31. CASE Wipe
    <2>1. Robbed' = Robbed \union
           {e \in Daemons \ {Outside} : sock[e] # None /\ sock[e] = path}
      BY <1>31, UnlinkRobs DEF Wipe
    <2> QED BY <1>31, <2>1, DaemonsAssumption DEF Wipe, Event, Unlink, files,
      listeners, flags, pending, outcome, TypeOK, StageInv, SockInv,
      EvictInv, Closing, Places, Starting, Serving
  <1>32. CASE UNCHANGED vars
    <2>1. Robbed' = Robbed
      BY <1>32 DEF vars, files, Robbed
    <2> QED BY <1>32, <2>1, DaemonsAssumption DEF vars, files, listeners,
      flags, pending, outcome, TypeOK, StageInv, SockInv, EvictInv, Closing,
      Places, Starting, Serving
  <1> QED BY <1>1, <1>2, <1>3, <1>4, <1>5, <1>6, <1>7, <1>8, <1>9,
    <1>10, <1>11, <1>12, <1>13, <1>14, <1>15, <1>16, <1>17, <1>18, <1>19,
    <1>20, <1>21, <1>22, <1>23, <1>24, <1>25, <1>26, <1>27, <1>28, <1>29,
    <1>30, <1>31, <1>32 DEF Next, Main, Start, Close, Watchdog, Chance

(* Every step keeps cut boots with evicted daemons.                         *)
LEMMA CutStep ==
    ASSUME TypeOK, StageInv, CutInv, [Next]_vars
    PROVE  CutInv'
  <1>1. ASSUME NEW d \in Daemons, Probe(d)
      PROVE  CutInv'
    <2>1. CASE Dials(path)
      <3>1. /\ pc[d] = "probe"
            /\ Over(d, "zero")
            /\ UNCHANGED <<files, racing, ret, events>>
        BY <1>1, <2>1 DEF Probe, Goto
      <3> QED BY <2>1, <3>1, DaemonsAssumption DEF Over, files, listeners,
        flags, pending, outcome, TypeOK, StageInv, CutInv, Places, Starting,
        Serving
    <2>2. CASE ~ Dials(path)
      <3>1. /\ Goto(d, "probe", "clean")
            /\ UNCHANGED <<files, listeners, watch, flags, pending, published,
                  outcome, events>>
        BY <1>1, <2>2 DEF Probe, Goto
      <3> QED BY <2>2, <3>1, DaemonsAssumption DEF Goto, files, listeners,
        flags, pending, outcome, TypeOK, StageInv, CutInv, Places, Starting,
        Serving
    <2> QED BY <2>1, <2>2
  <1>2. ASSUME NEW d \in Daemons, Clean(d)
      PROVE  CutInv'
    BY <1>2, DaemonsAssumption DEF Clean, Goto, files, listeners, flags,
      pending, outcome, TypeOK, StageInv, CutInv, Places, Starting, Serving
  <1>3. ASSUME NEW d \in Daemons, CleanUnlink(d)
      PROVE  CutInv'
    <2>1. CASE path = None
      <3>1. pc[d] = "unlink" /\ Refuse(d)
        BY <1>3, <2>1 DEF CleanUnlink, Goto
      <3> QED BY <2>1, <3>1, DaemonsAssumption DEF Refuse, Over, files,
        listeners, flags, pending, outcome, TypeOK, StageInv, CutInv, Places,
        Starting, Serving
    <2>2. CASE path # None
      <3>1. /\ Goto(d, "unlink", "stat")
            /\ Unlink(d)
            /\ UNCHANGED <<listeners, watch, flags, pending, published,
                  outcome, events>>
        BY <1>3, <2>2 DEF CleanUnlink, Goto
      <3> QED BY <2>2, <3>1, DaemonsAssumption DEF Goto, Unlink, files,
        listeners, flags, pending, outcome, TypeOK, StageInv, CutInv, Places,
        Starting, Serving
    <2> QED BY <2>1, <2>2
  <1>4. ASSUME NEW d \in Daemons, ListenStat(d)
      PROVE  CutInv'
    BY <1>4, DaemonsAssumption DEF ListenStat, Goto, files, listeners, flags,
      pending, outcome, TypeOK, StageInv, CutInv, Places, Starting, Serving
  <1>5. ASSUME NEW d \in Daemons, ListenDial(d)
      PROVE  CutInv'
    <2>1. CASE Dials(path)
      <3>1. pc[d] = "dial" /\ Refuse(d)
        BY <1>5, <2>1 DEF ListenDial, Goto
      <3> QED BY <2>1, <3>1, DaemonsAssumption DEF Refuse, Over, files,
        listeners, flags, pending, outcome, TypeOK, StageInv, CutInv, Places,
        Starting, Serving
    <2>2. CASE ~ Dials(path)
      <3>1. /\ Goto(d, "dial", "rmstale")
            /\ UNCHANGED <<files, listeners, watch, flags, pending, published,
                  outcome, events>>
        BY <1>5, <2>2 DEF ListenDial, Goto
      <3> QED BY <2>2, <3>1, DaemonsAssumption DEF Goto, files, listeners,
        flags, pending, outcome, TypeOK, StageInv, CutInv, Places, Starting,
        Serving
    <2> QED BY <2>1, <2>2
  <1>6. ASSUME NEW d \in Daemons, ListenRemoveStale(d)
      PROVE  CutInv'
    BY <1>6, DaemonsAssumption DEF ListenRemoveStale, Goto, Unlink, files,
      listeners, flags, pending, outcome, TypeOK, StageInv, CutInv, Places,
      Starting, Serving
  <1>7. ASSUME NEW d \in Daemons, ListenBind(d)
      PROVE  CutInv'
    <2>1. CASE path = None
      <3>1. /\ Goto(d, "bind", "ident")
            /\ \E i \in FreeInodes : path' = i /\ sock' = [sock EXCEPT ![d] =
                  i]
            /\ maker' = d
            /\ racing' = [racing EXCEPT ![d] = InWindow(d)]
            /\ UNCHANGED <<thefts, ident, lis, watch, flags, pending,
                  published, outcome, events>>
        BY <1>7, <2>1 DEF ListenBind, Goto
      <3> QED BY <2>1, <3>1, DaemonsAssumption DEF Goto, FreeInodes,
        InWindow, files, listeners, flags, pending, outcome, TypeOK,
        StageInv, CutInv, Places, Starting, Serving
    <2>2. CASE path # None
      <3>1. pc[d] = "bind" /\ Refuse(d)
        BY <1>7, <2>2 DEF ListenBind, Goto
      <3> QED BY <2>2, <3>1, DaemonsAssumption DEF Refuse, Over, files,
        listeners, flags, pending, outcome, TypeOK, StageInv, CutInv, Places,
        Starting, Serving
    <2> QED BY <2>1, <2>2
  <1>8. ASSUME NEW d \in Daemons, ListenIdentify(d)
      PROVE  CutInv'
    <2>1. CASE path = None
      <3>1. /\ Goto(d, "ident", "unbind")
            /\ sock' = [sock EXCEPT ![d] = None]
            /\ UNCHANGED <<files, ident, racing, lis, watch, flags, pending,
                  published, outcome, events>>
        BY <1>8, <2>1 DEF ListenIdentify, Goto
      <3> QED BY <2>1, <3>1, DaemonsAssumption DEF Goto, files, listeners,
        flags, pending, outcome, TypeOK, StageInv, CutInv, Places, Starting,
        Serving
    <2>2. CASE path # None
      <3>1. /\ Goto(d, "ident", "boot")
            /\ ident' = [ident EXCEPT ![d] = path]
            /\ lis' = [lis EXCEPT ![d] = "open"]
            /\ watch' = [watch EXCEPT ![d] = "on"]
            /\ UNCHANGED <<files, sock, racing, flags, pending, published,
                  outcome, events>>
        BY <1>8, <2>2 DEF ListenIdentify, Goto
      <3> QED BY <2>2, <3>1, DaemonsAssumption DEF Goto, files, listeners,
        flags, pending, outcome, TypeOK, StageInv, CutInv, Places, Starting,
        Serving
    <2> QED BY <2>1, <2>2
  <1>9. ASSUME NEW d \in Daemons, ListenUndo(d)
      PROVE  CutInv'
    BY <1>9, DaemonsAssumption DEF ListenUndo, Over, Unlink, files,
      listeners, flags, pending, outcome, TypeOK, StageInv, CutInv, Places,
      Starting, Serving
  <1>10. ASSUME NEW d \in Daemons, BootFails(d)
      PROVE  CutInv'
    BY <1>10, DaemonsAssumption DEF BootFails, Bail, TriggerShutdown, files,
      listeners, flags, pending, outcome, TypeOK, StageInv, CutInv, Places,
      Starting, Serving
  <1>11. ASSUME NEW d \in Daemons, BootCut(d)
      PROVE  CutInv'
    BY <1>11, DaemonsAssumption DEF BootCut, Bail, TriggerShutdown, files,
      listeners, flags, pending, outcome, TypeOK, StageInv, CutInv, Places,
      Starting, Serving
  <1>12. ASSUME NEW d \in Daemons, BootSucceeds(d)
      PROVE  CutInv'
    BY <1>12, DaemonsAssumption DEF BootSucceeds, Goto, files, listeners,
      flags, pending, outcome, TypeOK, StageInv, CutInv, Places, Starting,
      Serving
  <1>13. ASSUME NEW d \in Daemons, BadIdleTimeout(d)
      PROVE  CutInv'
    BY <1>13, DaemonsAssumption DEF BadIdleTimeout, Bail, TriggerShutdown,
      files, listeners, flags, pending, outcome, TypeOK, StageInv, CutInv,
      Places, Starting, Serving
  <1>14. ASSUME NEW d \in Daemons, Select(d)
      PROVE  CutInv'
    BY <1>14, DaemonsAssumption DEF Select, Goto, TriggerShutdown, files,
      listeners, flags, pending, outcome, TypeOK, StageInv, CutInv, Places,
      Starting, Serving
  <1>15. ASSUME NEW d \in Daemons, Exit(d)
      PROVE  CutInv'
    BY <1>15, DaemonsAssumption DEF Exit, Drained, Over, files, listeners,
      flags, pending, outcome, TypeOK, StageInv, CutInv, Places, Starting,
      Serving
  <1>16. ASSUME NEW d \in Daemons, CloseBegins(d)
      PROVE  CutInv'
    BY <1>16, DaemonsAssumption DEF CloseBegins, files, listeners, flags,
      pending, outcome, TypeOK, StageInv, CutInv, Places, Starting, Serving
  <1>17. ASSUME NEW d \in Daemons, CloseChecks(d)
      PROVE  CutInv'
    BY <1>17, DaemonsAssumption DEF CloseChecks, StillOwned, files,
      listeners, flags, pending, outcome, TypeOK, StageInv, CutInv, Places,
      Starting, Serving
  <1>18. ASSUME NEW d \in Daemons, CloseUnlinks(d)
      PROVE  CutInv'
    BY <1>18, DaemonsAssumption DEF CloseUnlinks, Unlink, files, listeners,
      flags, pending, outcome, TypeOK, StageInv, CutInv, Places, Starting,
      Serving
  <1>19. ASSUME NEW d \in Daemons, WatchTick(d)
      PROVE  CutInv'
    BY <1>19, DaemonsAssumption DEF WatchTick, WatchMoves, StillOwned, files,
      listeners, flags, pending, outcome, TypeOK, StageInv, CutInv, Places,
      Starting, Serving
  <1>20. ASSUME NEW d \in Daemons, WatchDoubt(d)
      PROVE  CutInv'
    BY <1>20, DaemonsAssumption DEF WatchDoubt, WatchMoves, files, listeners,
      flags, pending, outcome, TypeOK, StageInv, CutInv, Places, Starting,
      Serving
  <1>21. ASSUME NEW d \in Daemons, WatchMark(d)
      PROVE  CutInv'
    BY <1>21, DaemonsAssumption DEF WatchMark, WatchMoves, files, listeners,
      flags, pending, outcome, TypeOK, StageInv, CutInv, Places, Starting,
      Serving
  <1>22. ASSUME NEW d \in Daemons, WatchCancel(d)
      PROVE  CutInv'
    BY <1>22, DaemonsAssumption DEF WatchCancel, WatchMoves, TriggerShutdown,
      files, listeners, flags, pending, outcome, TypeOK, StageInv, CutInv,
      Places, Starting, Serving
  <1>23. ASSUME NEW d \in Daemons, Launch(d)
      PROVE  CutInv'
    BY <1>23, DaemonsAssumption DEF Launch, Goto, files, listeners, flags,
      pending, outcome, TypeOK, StageInv, CutInv, Places, Starting, Serving
  <1>24. ASSUME NEW d \in Daemons, Kill(d)
      PROVE  CutInv'
    BY <1>24, DaemonsAssumption DEF Kill, Event, Over, files, listeners,
      flags, pending, outcome, TypeOK, StageInv, CutInv, Places, Starting,
      Serving
  <1>25. ASSUME NEW d \in Daemons, Signal(d)
      PROVE  CutInv'
    BY <1>25, DaemonsAssumption DEF Signal, Event, files, listeners, flags,
      pending, outcome, TypeOK, StageInv, CutInv, Places, Starting, Serving
  <1>26. ASSUME NEW d \in Daemons, Shutdown(d)
      PROVE  CutInv'
    BY <1>26, DaemonsAssumption DEF Shutdown, Served, Event,
      TriggerShutdown, files, listeners, flags, pending, outcome, TypeOK,
      StageInv, CutInv, Places, Starting, Serving
  <1>27. ASSUME NEW d \in Daemons, ServeFault(d)
      PROVE  CutInv'
    BY <1>27, DaemonsAssumption DEF ServeFault, Served, Event, files,
      listeners, flags, pending, outcome, TypeOK, StageInv, CutInv, Places,
      Starting, Serving
  <1>28. ASSUME NEW d \in Daemons, Serve(d)
      PROVE  CutInv'
    BY <1>28, DaemonsAssumption DEF Serve, files, listeners,
      flags, pending, outcome, TypeOK, StageInv, CutInv, Places, Starting,
      Serving
  <1>29. ASSUME NEW d \in Daemons, Request(d)
      PROVE  CutInv'
    BY <1>29, DaemonsAssumption DEF Request, files, listeners,
      flags, pending, outcome, TypeOK, StageInv, CutInv, Places, Starting,
      Serving
  <1>30. ASSUME NEW d \in Daemons, Answer(d)
      PROVE  CutInv'
    BY <1>30, DaemonsAssumption DEF Answer, files, listeners,
      flags, pending, outcome, TypeOK, StageInv, CutInv, Places, Starting,
      Serving
  <1>31. CASE Wipe
    BY <1>31, DaemonsAssumption DEF Wipe, Event, Unlink, files, listeners,
      flags, pending, outcome, TypeOK, StageInv, CutInv, Places, Starting,
      Serving
  <1>32. CASE UNCHANGED vars
    BY <1>32, DaemonsAssumption DEF vars, files, listeners, flags, pending,
      outcome, TypeOK, StageInv, CutInv, Places, Starting, Serving
  <1> QED BY <1>1, <1>2, <1>3, <1>4, <1>5, <1>6, <1>7, <1>8, <1>9,
    <1>10, <1>11, <1>12, <1>13, <1>14, <1>15, <1>16, <1>17, <1>18, <1>19,
    <1>20, <1>21, <1>22, <1>23, <1>24, <1>25, <1>26, <1>27, <1>28, <1>29,
    <1>30, <1>31, <1>32 DEF Next, Main, Start, Close, Watchdog, Chance

(* Every step keeps the thieves in the window.                              *)
LEMMA TheftStep ==
    ASSUME TypeOK, StageInv, SockInv, TheftInv, [Next]_vars
    PROVE  TheftInv'
  <1>1. ASSUME NEW d \in Daemons, Probe(d)
      PROVE  TheftInv'
    <2>1. CASE Dials(path)
      <3>1. /\ pc[d] = "probe"
            /\ Over(d, "zero")
            /\ UNCHANGED <<files, racing, ret, events>>
        BY <1>1, <2>1 DEF Probe, Goto
      <3> QED BY <2>1, <3>1, DaemonsAssumption DEF Over, files, listeners,
        flags, pending, outcome, TypeOK, StageInv, SockInv, TheftInv,
        TheftOnlyInWindow, Late, Dials, Places, Starting, Serving
    <2>2. CASE ~ Dials(path)
      <3>1. /\ Goto(d, "probe", "clean")
            /\ UNCHANGED <<files, listeners, watch, flags, pending, published,
                  outcome, events>>
        BY <1>1, <2>2 DEF Probe, Goto
      <3> QED BY <2>2, <3>1, DaemonsAssumption DEF Goto, files, listeners,
        flags, pending, outcome, TypeOK, StageInv, SockInv, TheftInv,
        TheftOnlyInWindow, Late, Dials, Places, Starting, Serving
    <2> QED BY <2>1, <2>2
  <1>2. ASSUME NEW d \in Daemons, Clean(d)
      PROVE  TheftInv'
    BY <1>2, DaemonsAssumption DEF Clean, Goto, files, listeners, flags,
      pending, outcome, TypeOK, StageInv, SockInv, TheftInv,
      TheftOnlyInWindow, Late, Dials, Places, Starting, Serving
  <1>3. ASSUME NEW d \in Daemons, CleanUnlink(d)
      PROVE  TheftInv'
    <2>1. CASE path = None
      <3>1. pc[d] = "unlink" /\ Refuse(d)
        BY <1>3, <2>1 DEF CleanUnlink, Goto
      <3> QED BY <2>1, <3>1, DaemonsAssumption DEF Refuse, Over, files,
        listeners, flags, pending, outcome, TypeOK, StageInv, SockInv,
        TheftInv, TheftOnlyInWindow, Late, Dials, Places, Starting, Serving
    <2>2. CASE path # None
      <3>1. /\ Goto(d, "unlink", "stat")
            /\ Unlink(d)
            /\ UNCHANGED <<listeners, watch, flags, pending, published,
                  outcome, events>>
        BY <1>3, <2>2 DEF CleanUnlink, Goto
      <3> QED BY <2>2, <3>1, DaemonsAssumption DEF Goto, Unlink, files,
        listeners, flags, pending, outcome, TypeOK, StageInv, SockInv,
        TheftInv, TheftOnlyInWindow, Late, Dials, Places, Starting, Serving
    <2> QED BY <2>1, <2>2
  <1>4. ASSUME NEW d \in Daemons, ListenStat(d)
      PROVE  TheftInv'
    BY <1>4, DaemonsAssumption DEF ListenStat, Goto, files, listeners, flags,
      pending, outcome, TypeOK, StageInv, SockInv, TheftInv,
      TheftOnlyInWindow, Late, Dials, Places, Starting, Serving
  <1>5. ASSUME NEW d \in Daemons, ListenDial(d)
      PROVE  TheftInv'
    <2>1. CASE Dials(path)
      <3>1. pc[d] = "dial" /\ Refuse(d)
        BY <1>5, <2>1 DEF ListenDial, Goto
      <3> QED BY <2>1, <3>1, DaemonsAssumption DEF Refuse, Over, files,
        listeners, flags, pending, outcome, TypeOK, StageInv, SockInv,
        TheftInv, TheftOnlyInWindow, Late, Dials, Places, Starting, Serving
    <2>2. CASE ~ Dials(path)
      <3>1. /\ Goto(d, "dial", "rmstale")
            /\ UNCHANGED <<files, listeners, watch, flags, pending, published,
                  outcome, events>>
        BY <1>5, <2>2 DEF ListenDial, Goto
      <3> QED BY <2>2, <3>1, DaemonsAssumption DEF Goto, files, listeners,
        flags, pending, outcome, TypeOK, StageInv, SockInv, TheftInv,
        TheftOnlyInWindow, Late, Dials, Places, Starting, Serving
    <2> QED BY <2>1, <2>2
  <1>6. ASSUME NEW d \in Daemons, ListenRemoveStale(d)
      PROVE  TheftInv'
    BY <1>6, DaemonsAssumption DEF ListenRemoveStale, Goto, Unlink, files,
      listeners, flags, pending, outcome, TypeOK, StageInv, SockInv,
      TheftInv, TheftOnlyInWindow, Late, Dials, Places, Starting, Serving
  <1>7. ASSUME NEW d \in Daemons, ListenBind(d)
      PROVE  TheftInv'
    <2>1. CASE path = None
      <3>1. /\ Goto(d, "bind", "ident")
            /\ \E i \in FreeInodes : path' = i /\ sock' = [sock EXCEPT ![d] =
                  i]
            /\ maker' = d
            /\ racing' = [racing EXCEPT ![d] = InWindow(d)]
            /\ UNCHANGED <<thefts, ident, lis, watch, flags, pending,
                  published, outcome, events>>
        BY <1>7, <2>1 DEF ListenBind, Goto
      <3>2. PICK i \in FreeInodes :
                path' = i /\ sock' = [sock EXCEPT ![d] = i]
        BY <3>1
      <3>3. /\ i # None /\ i \in Inodes
            /\ \A e \in Daemons : sock[e] # i
        BY <3>2, DaemonsAssumption DEF FreeInodes
      <3>4. /\ pc[d] = "bind" /\ lis[d] = "none"
            /\ pc' = [pc EXCEPT ![d] = "ident"]
            /\ UNCHANGED <<thefts, ident, lis>>
        BY <3>1 DEF Goto, StageInv, Serving
      <3>5. d \notin Robbed
        BY <3>4 DEF SockInv, Late, Serving
      <3>6. TheftOnlyInWindow'
        <4>1. SUFFICES ASSUME NEW t \in thefts, t[1] # Outside
                       PROVE  t[1] \in racing'[t[2]]
          BY <3>4 DEF TheftOnlyInWindow
        <4>2. /\ t[1] \in Daemons /\ t[2] \in Daemons
              /\ t = <<t[1], t[2]>>
          BY <4>1 DEF TypeOK
        <4>3. t[2] # d
          BY <4>1, <4>2, <3>5 DEF Robbed
        <4> QED BY <4>1, <4>2, <4>3, <3>1
          DEF TheftInv, TheftOnlyInWindow, TypeOK
      <3>7. ASSUME NEW a \in Daemons, NEW e \in Daemons,
                   a # e, sock'[e] # None
            PROVE  /\ sock'[e] = path' /\
                          (pc'[a] \in Starting \/ lis'[a] = "unlinking")
                        => a \in racing'[e]
                   /\ sock'[e] = ident'[a] /\ lis'[a] \in {"open", "checking"}
                        => a \in racing'[e]
        <4>1. CASE e = d
          <5>1. sock'[e] = i /\ pc'[a] = pc[a]
            BY <3>2, <3>4, <3>7, <4>1 DEF TypeOK
          <5>2. racing'[e] = InWindow(d)
            BY <3>1, <4>1 DEF TypeOK
          <5> QED BY <5>1, <5>2, <3>3, <3>4, <3>7, <4>1 DEF InWindow
        <4>2. CASE e # d
          <5>1. sock'[e] = sock[e] /\ racing'[e] = racing[e]
            BY <3>1, <3>2, <4>2 DEF TypeOK
          <5>2. sock'[e] # path'
            BY <5>1, <3>2, <3>3
          <5> QED BY <5>1, <5>2, <3>4, <3>7 DEF TheftInv
        <4> QED BY <4>1, <4>2
      <3> QED BY <3>6, <3>7 DEF TheftInv
    <2>2. CASE path # None
      <3>1. pc[d] = "bind" /\ Refuse(d)
        BY <1>7, <2>2 DEF ListenBind, Goto
      <3> QED BY <2>2, <3>1, DaemonsAssumption DEF Refuse, Over, files,
        listeners, flags, pending, outcome, TypeOK, StageInv, SockInv,
        TheftInv, TheftOnlyInWindow, Late, Dials, Places, Starting, Serving
    <2> QED BY <2>1, <2>2
  <1>8. ASSUME NEW d \in Daemons, ListenIdentify(d)
      PROVE  TheftInv'
    <2>1. CASE path = None
      <3>1. /\ Goto(d, "ident", "unbind")
            /\ sock' = [sock EXCEPT ![d] = None]
            /\ UNCHANGED <<files, ident, racing, lis, watch, flags, pending,
                  published, outcome, events>>
        BY <1>8, <2>1 DEF ListenIdentify, Goto
      <3> QED BY <2>1, <3>1, DaemonsAssumption DEF Goto, files, listeners,
        flags, pending, outcome, TypeOK, StageInv, SockInv, TheftInv,
        TheftOnlyInWindow, Late, Dials, Places, Starting, Serving
    <2>2. CASE path # None
      <3>1. /\ Goto(d, "ident", "boot")
            /\ ident' = [ident EXCEPT ![d] = path]
            /\ lis' = [lis EXCEPT ![d] = "open"]
            /\ watch' = [watch EXCEPT ![d] = "on"]
            /\ UNCHANGED <<files, sock, racing, flags, pending, published,
                  outcome, events>>
        BY <1>8, <2>2 DEF ListenIdentify, Goto
      <3> QED BY <2>2, <3>1, DaemonsAssumption DEF Goto, files, listeners,
        flags, pending, outcome, TypeOK, StageInv, SockInv, TheftInv,
        TheftOnlyInWindow, Late, Dials, Places, Starting, Serving
    <2> QED BY <2>1, <2>2
  <1>9. ASSUME NEW d \in Daemons, ListenUndo(d)
      PROVE  TheftInv'
    BY <1>9, DaemonsAssumption DEF ListenUndo, Over, Unlink, files,
      listeners, flags, pending, outcome, TypeOK, StageInv, SockInv,
      TheftInv, TheftOnlyInWindow, Late, Dials, Places, Starting, Serving
  <1>10. ASSUME NEW d \in Daemons, BootFails(d)
      PROVE  TheftInv'
    BY <1>10, DaemonsAssumption DEF BootFails, Bail, TriggerShutdown, files,
      listeners, flags, pending, outcome, TypeOK, StageInv, SockInv,
      TheftInv, TheftOnlyInWindow, Late, Dials, Places, Starting, Serving
  <1>11. ASSUME NEW d \in Daemons, BootCut(d)
      PROVE  TheftInv'
    BY <1>11, DaemonsAssumption DEF BootCut, Bail, TriggerShutdown, files,
      listeners, flags, pending, outcome, TypeOK, StageInv, SockInv,
      TheftInv, TheftOnlyInWindow, Late, Dials, Places, Starting, Serving
  <1>12. ASSUME NEW d \in Daemons, BootSucceeds(d)
      PROVE  TheftInv'
    BY <1>12, DaemonsAssumption DEF BootSucceeds, Goto, files, listeners,
      flags, pending, outcome, TypeOK, StageInv, SockInv, TheftInv,
      TheftOnlyInWindow, Late, Dials, Places, Starting, Serving
  <1>13. ASSUME NEW d \in Daemons, BadIdleTimeout(d)
      PROVE  TheftInv'
    BY <1>13, DaemonsAssumption DEF BadIdleTimeout, Bail, TriggerShutdown,
      files, listeners, flags, pending, outcome, TypeOK, StageInv, SockInv,
      TheftInv, TheftOnlyInWindow, Late, Dials, Places, Starting, Serving
  <1>14. ASSUME NEW d \in Daemons, Select(d)
      PROVE  TheftInv'
    BY <1>14, DaemonsAssumption DEF Select, Goto, TriggerShutdown, files,
      listeners, flags, pending, outcome, TypeOK, StageInv, SockInv,
      TheftInv, TheftOnlyInWindow, Late, Dials, Places, Starting, Serving
  <1>15. ASSUME NEW d \in Daemons, Exit(d)
      PROVE  TheftInv'
    BY <1>15, DaemonsAssumption DEF Exit, Drained, Over, files, listeners,
      flags, pending, outcome, TypeOK, StageInv, SockInv, TheftInv,
      TheftOnlyInWindow, Late, Dials, Places, Starting, Serving
  <1>16. ASSUME NEW d \in Daemons, CloseBegins(d)
      PROVE  TheftInv'
    BY <1>16, DaemonsAssumption DEF CloseBegins, files, listeners, flags,
      pending, outcome, TypeOK, StageInv, SockInv, TheftInv,
      TheftOnlyInWindow, Late, Dials, Places, Starting, Serving
  <1>17. ASSUME NEW d \in Daemons, CloseChecks(d)
      PROVE  TheftInv'
    BY <1>17, DaemonsAssumption DEF CloseChecks, StillOwned, files,
      listeners, flags, pending, outcome, TypeOK, StageInv, SockInv,
      TheftInv, TheftOnlyInWindow, Late, Dials, Places, Starting, Serving
  <1>18. ASSUME NEW d \in Daemons, CloseUnlinks(d)
      PROVE  TheftInv'
    BY <1>18, DaemonsAssumption DEF CloseUnlinks, Unlink, files, listeners,
      flags, pending, outcome, TypeOK, StageInv, SockInv, TheftInv,
      TheftOnlyInWindow, Late, Dials, Places, Starting, Serving
  <1>19. ASSUME NEW d \in Daemons, WatchTick(d)
      PROVE  TheftInv'
    BY <1>19, DaemonsAssumption DEF WatchTick, WatchMoves, StillOwned, files,
      listeners, flags, pending, outcome, TypeOK, StageInv, SockInv,
      TheftInv, TheftOnlyInWindow, Late, Dials, Places, Starting, Serving
  <1>20. ASSUME NEW d \in Daemons, WatchDoubt(d)
      PROVE  TheftInv'
    BY <1>20, DaemonsAssumption DEF WatchDoubt, WatchMoves, files, listeners,
      flags, pending, outcome, TypeOK, StageInv, SockInv, TheftInv,
      TheftOnlyInWindow, Late, Dials, Places, Starting, Serving
  <1>21. ASSUME NEW d \in Daemons, WatchMark(d)
      PROVE  TheftInv'
    BY <1>21, DaemonsAssumption DEF WatchMark, WatchMoves, files, listeners,
      flags, pending, outcome, TypeOK, StageInv, SockInv, TheftInv,
      TheftOnlyInWindow, Late, Dials, Places, Starting, Serving
  <1>22. ASSUME NEW d \in Daemons, WatchCancel(d)
      PROVE  TheftInv'
    BY <1>22, DaemonsAssumption DEF WatchCancel, WatchMoves, TriggerShutdown,
      files, listeners, flags, pending, outcome, TypeOK, StageInv, SockInv,
      TheftInv, TheftOnlyInWindow, Late, Dials, Places, Starting, Serving
  <1>23. ASSUME NEW d \in Daemons, Launch(d)
      PROVE  TheftInv'
    BY <1>23, DaemonsAssumption DEF Launch, Goto, files, listeners, flags,
      pending, outcome, TypeOK, StageInv, SockInv, TheftInv,
      TheftOnlyInWindow, Late, Dials, Places, Starting, Serving
  <1>24. ASSUME NEW d \in Daemons, Kill(d)
      PROVE  TheftInv'
    BY <1>24, DaemonsAssumption DEF Kill, Event, Over, files, listeners,
      flags, pending, outcome, TypeOK, StageInv, SockInv, TheftInv,
      TheftOnlyInWindow, Late, Dials, Places, Starting, Serving
  <1>25. ASSUME NEW d \in Daemons, Signal(d)
      PROVE  TheftInv'
    BY <1>25, DaemonsAssumption DEF Signal, Event, files, listeners, flags,
      pending, outcome, TypeOK, StageInv, SockInv, TheftInv,
      TheftOnlyInWindow, Late, Dials, Places, Starting, Serving
  <1>26. ASSUME NEW d \in Daemons, Shutdown(d)
      PROVE  TheftInv'
    BY <1>26, DaemonsAssumption DEF Shutdown, Served, Event,
      TriggerShutdown, files, listeners, flags, pending, outcome, TypeOK,
      StageInv, SockInv, TheftInv, TheftOnlyInWindow, Late, Dials, Places,
      Starting, Serving
  <1>27. ASSUME NEW d \in Daemons, ServeFault(d)
      PROVE  TheftInv'
    BY <1>27, DaemonsAssumption DEF ServeFault, Served, Event, files,
      listeners, flags, pending, outcome, TypeOK, StageInv, SockInv,
      TheftInv, TheftOnlyInWindow, Late, Dials, Places, Starting, Serving
  <1>28. ASSUME NEW d \in Daemons, Serve(d)
      PROVE  TheftInv'
    BY <1>28, DaemonsAssumption DEF Serve, files, listeners,
      flags, pending, outcome, TypeOK, StageInv, SockInv, TheftInv,
      TheftOnlyInWindow, Late, Dials, Places, Starting, Serving
  <1>29. ASSUME NEW d \in Daemons, Request(d)
      PROVE  TheftInv'
    BY <1>29, DaemonsAssumption DEF Request, files, listeners,
      flags, pending, outcome, TypeOK, StageInv, SockInv, TheftInv,
      TheftOnlyInWindow, Late, Dials, Places, Starting, Serving
  <1>30. ASSUME NEW d \in Daemons, Answer(d)
      PROVE  TheftInv'
    BY <1>30, DaemonsAssumption DEF Answer, files, listeners,
      flags, pending, outcome, TypeOK, StageInv, SockInv, TheftInv,
      TheftOnlyInWindow, Late, Dials, Places, Starting, Serving
  <1>31. CASE Wipe
    BY <1>31, DaemonsAssumption DEF Wipe, Event, Unlink, files, listeners,
      flags, pending, outcome, TypeOK, StageInv, SockInv, TheftInv,
      TheftOnlyInWindow, Late, Dials, Places, Starting, Serving
  <1>32. CASE UNCHANGED vars
    BY <1>32, DaemonsAssumption DEF vars, files, listeners, flags, pending,
      outcome, TypeOK, StageInv, SockInv, TheftInv, TheftOnlyInWindow, Late,
      Dials, Places, Starting, Serving
  <1> QED BY <1>1, <1>2, <1>3, <1>4, <1>5, <1>6, <1>7, <1>8, <1>9,
    <1>10, <1>11, <1>12, <1>13, <1>14, <1>15, <1>16, <1>17, <1>18, <1>19,
    <1>20, <1>21, <1>22, <1>23, <1>24, <1>25, <1>26, <1>27, <1>28, <1>29,
    <1>30, <1>31, <1>32 DEF Next, Main, Start, Close, Watchdog, Chance

(* Every step keeps the file at the path with its maker.                    *)
LEMMA MakerStep ==
    ASSUME TypeOK, StageInv, MakerInv, [Next]_vars
    PROVE  MakerInv'
  <1>1. ASSUME NEW d \in Daemons, Probe(d)
      PROVE  MakerInv'
    <2>1. CASE Dials(path)
      <3>1. /\ pc[d] = "probe"
            /\ Over(d, "zero")
            /\ UNCHANGED <<files, racing, ret, events>>
        BY <1>1, <2>1 DEF Probe, Goto
      <3> QED BY <2>1, <3>1, DaemonsAssumption DEF Over, files, listeners,
        flags, pending, outcome, TypeOK, StageInv, MakerInv, Closing, Places,
        Starting, Serving
    <2>2. CASE ~ Dials(path)
      <3>1. /\ Goto(d, "probe", "clean")
            /\ UNCHANGED <<files, listeners, watch, flags, pending, published,
                  outcome, events>>
        BY <1>1, <2>2 DEF Probe, Goto
      <3> QED BY <2>2, <3>1, DaemonsAssumption DEF Goto, files, listeners,
        flags, pending, outcome, TypeOK, StageInv, MakerInv, Closing, Places,
        Starting, Serving
    <2> QED BY <2>1, <2>2
  <1>2. ASSUME NEW d \in Daemons, Clean(d)
      PROVE  MakerInv'
    BY <1>2, DaemonsAssumption DEF Clean, Goto, files, listeners, flags,
      pending, outcome, TypeOK, StageInv, MakerInv, Closing, Places,
      Starting, Serving
  <1>3. ASSUME NEW d \in Daemons, CleanUnlink(d)
      PROVE  MakerInv'
    <2>1. CASE path = None
      <3>1. pc[d] = "unlink" /\ Refuse(d)
        BY <1>3, <2>1 DEF CleanUnlink, Goto
      <3> QED BY <2>1, <3>1, DaemonsAssumption DEF Refuse, Over, files,
        listeners, flags, pending, outcome, TypeOK, StageInv, MakerInv,
        Closing, Places, Starting, Serving
    <2>2. CASE path # None
      <3>1. /\ Goto(d, "unlink", "stat")
            /\ Unlink(d)
            /\ UNCHANGED <<listeners, watch, flags, pending, published,
                  outcome, events>>
        BY <1>3, <2>2 DEF CleanUnlink, Goto
      <3> QED BY <2>2, <3>1, DaemonsAssumption DEF Goto, Unlink, files,
        listeners, flags, pending, outcome, TypeOK, StageInv, MakerInv,
        Closing, Places, Starting, Serving
    <2> QED BY <2>1, <2>2
  <1>4. ASSUME NEW d \in Daemons, ListenStat(d)
      PROVE  MakerInv'
    BY <1>4, DaemonsAssumption DEF ListenStat, Goto, files, listeners, flags,
      pending, outcome, TypeOK, StageInv, MakerInv, Closing, Places,
      Starting, Serving
  <1>5. ASSUME NEW d \in Daemons, ListenDial(d)
      PROVE  MakerInv'
    <2>1. CASE Dials(path)
      <3>1. pc[d] = "dial" /\ Refuse(d)
        BY <1>5, <2>1 DEF ListenDial, Goto
      <3> QED BY <2>1, <3>1, DaemonsAssumption DEF Refuse, Over, files,
        listeners, flags, pending, outcome, TypeOK, StageInv, MakerInv,
        Closing, Places, Starting, Serving
    <2>2. CASE ~ Dials(path)
      <3>1. /\ Goto(d, "dial", "rmstale")
            /\ UNCHANGED <<files, listeners, watch, flags, pending, published,
                  outcome, events>>
        BY <1>5, <2>2 DEF ListenDial, Goto
      <3> QED BY <2>2, <3>1, DaemonsAssumption DEF Goto, files, listeners,
        flags, pending, outcome, TypeOK, StageInv, MakerInv, Closing, Places,
        Starting, Serving
    <2> QED BY <2>1, <2>2
  <1>6. ASSUME NEW d \in Daemons, ListenRemoveStale(d)
      PROVE  MakerInv'
    BY <1>6, DaemonsAssumption DEF ListenRemoveStale, Goto, Unlink, files,
      listeners, flags, pending, outcome, TypeOK, StageInv, MakerInv,
      Closing, Places, Starting, Serving
  <1>7. ASSUME NEW d \in Daemons, ListenBind(d)
      PROVE  MakerInv'
    <2>1. CASE path = None
      <3>1. /\ Goto(d, "bind", "ident")
            /\ \E i \in FreeInodes : path' = i /\ sock' = [sock EXCEPT ![d] =
                  i]
            /\ maker' = d
            /\ racing' = [racing EXCEPT ![d] = InWindow(d)]
            /\ UNCHANGED <<thefts, ident, lis, watch, flags, pending,
                  published, outcome, events>>
        BY <1>7, <2>1 DEF ListenBind, Goto
      <3> QED BY <2>1, <3>1, DaemonsAssumption DEF Goto, FreeInodes,
        InWindow, files, listeners, flags, pending, outcome, TypeOK,
        StageInv, MakerInv, Closing, Places, Starting, Serving
    <2>2. CASE path # None
      <3>1. pc[d] = "bind" /\ Refuse(d)
        BY <1>7, <2>2 DEF ListenBind, Goto
      <3> QED BY <2>2, <3>1, DaemonsAssumption DEF Refuse, Over, files,
        listeners, flags, pending, outcome, TypeOK, StageInv, MakerInv,
        Closing, Places, Starting, Serving
    <2> QED BY <2>1, <2>2
  <1>8. ASSUME NEW d \in Daemons, ListenIdentify(d)
      PROVE  MakerInv'
    <2>1. CASE path = None
      <3>1. /\ Goto(d, "ident", "unbind")
            /\ sock' = [sock EXCEPT ![d] = None]
            /\ UNCHANGED <<files, ident, racing, lis, watch, flags, pending,
                  published, outcome, events>>
        BY <1>8, <2>1 DEF ListenIdentify, Goto
      <3> QED BY <2>1, <3>1, DaemonsAssumption DEF Goto, files, listeners,
        flags, pending, outcome, TypeOK, StageInv, MakerInv, Closing, Places,
        Starting, Serving
    <2>2. CASE path # None
      <3>1. /\ Goto(d, "ident", "boot")
            /\ ident' = [ident EXCEPT ![d] = path]
            /\ lis' = [lis EXCEPT ![d] = "open"]
            /\ watch' = [watch EXCEPT ![d] = "on"]
            /\ UNCHANGED <<files, sock, racing, flags, pending, published,
                  outcome, events>>
        BY <1>8, <2>2 DEF ListenIdentify, Goto
      <3> QED BY <2>2, <3>1, DaemonsAssumption DEF Goto, files, listeners,
        flags, pending, outcome, TypeOK, StageInv, MakerInv, Closing, Places,
        Starting, Serving
    <2> QED BY <2>1, <2>2
  <1>9. ASSUME NEW d \in Daemons, ListenUndo(d)
      PROVE  MakerInv'
    BY <1>9, DaemonsAssumption DEF ListenUndo, Over, Unlink, files,
      listeners, flags, pending, outcome, TypeOK, StageInv, MakerInv,
      Closing, Places, Starting, Serving
  <1>10. ASSUME NEW d \in Daemons, BootFails(d)
      PROVE  MakerInv'
    BY <1>10, DaemonsAssumption DEF BootFails, Bail, TriggerShutdown, files,
      listeners, flags, pending, outcome, TypeOK, StageInv, MakerInv,
      Closing, Places, Starting, Serving
  <1>11. ASSUME NEW d \in Daemons, BootCut(d)
      PROVE  MakerInv'
    BY <1>11, DaemonsAssumption DEF BootCut, Bail, TriggerShutdown, files,
      listeners, flags, pending, outcome, TypeOK, StageInv, MakerInv,
      Closing, Places, Starting, Serving
  <1>12. ASSUME NEW d \in Daemons, BootSucceeds(d)
      PROVE  MakerInv'
    BY <1>12, DaemonsAssumption DEF BootSucceeds, Goto, files, listeners,
      flags, pending, outcome, TypeOK, StageInv, MakerInv, Closing, Places,
      Starting, Serving
  <1>13. ASSUME NEW d \in Daemons, BadIdleTimeout(d)
      PROVE  MakerInv'
    BY <1>13, DaemonsAssumption DEF BadIdleTimeout, Bail, TriggerShutdown,
      files, listeners, flags, pending, outcome, TypeOK, StageInv, MakerInv,
      Closing, Places, Starting, Serving
  <1>14. ASSUME NEW d \in Daemons, Select(d)
      PROVE  MakerInv'
    BY <1>14, DaemonsAssumption DEF Select, Goto, TriggerShutdown, files,
      listeners, flags, pending, outcome, TypeOK, StageInv, MakerInv,
      Closing, Places, Starting, Serving
  <1>15. ASSUME NEW d \in Daemons, Exit(d)
      PROVE  MakerInv'
    BY <1>15, DaemonsAssumption DEF Exit, Drained, Over, files, listeners,
      flags, pending, outcome, TypeOK, StageInv, MakerInv, Closing, Places,
      Starting, Serving
  <1>16. ASSUME NEW d \in Daemons, CloseBegins(d)
      PROVE  MakerInv'
    BY <1>16, DaemonsAssumption DEF CloseBegins, files, listeners, flags,
      pending, outcome, TypeOK, StageInv, MakerInv, Closing, Places,
      Starting, Serving
  <1>17. ASSUME NEW d \in Daemons, CloseChecks(d)
      PROVE  MakerInv'
    BY <1>17, DaemonsAssumption DEF CloseChecks, StillOwned, files,
      listeners, flags, pending, outcome, TypeOK, StageInv, MakerInv,
      Closing, Places, Starting, Serving
  <1>18. ASSUME NEW d \in Daemons, CloseUnlinks(d)
      PROVE  MakerInv'
    BY <1>18, DaemonsAssumption DEF CloseUnlinks, Unlink, files, listeners,
      flags, pending, outcome, TypeOK, StageInv, MakerInv, Closing, Places,
      Starting, Serving
  <1>19. ASSUME NEW d \in Daemons, WatchTick(d)
      PROVE  MakerInv'
    BY <1>19, DaemonsAssumption DEF WatchTick, WatchMoves, StillOwned, files,
      listeners, flags, pending, outcome, TypeOK, StageInv, MakerInv,
      Closing, Places, Starting, Serving
  <1>20. ASSUME NEW d \in Daemons, WatchDoubt(d)
      PROVE  MakerInv'
    BY <1>20, DaemonsAssumption DEF WatchDoubt, WatchMoves, files, listeners,
      flags, pending, outcome, TypeOK, StageInv, MakerInv, Closing, Places,
      Starting, Serving
  <1>21. ASSUME NEW d \in Daemons, WatchMark(d)
      PROVE  MakerInv'
    BY <1>21, DaemonsAssumption DEF WatchMark, WatchMoves, files, listeners,
      flags, pending, outcome, TypeOK, StageInv, MakerInv, Closing, Places,
      Starting, Serving
  <1>22. ASSUME NEW d \in Daemons, WatchCancel(d)
      PROVE  MakerInv'
    BY <1>22, DaemonsAssumption DEF WatchCancel, WatchMoves, TriggerShutdown,
      files, listeners, flags, pending, outcome, TypeOK, StageInv, MakerInv,
      Closing, Places, Starting, Serving
  <1>23. ASSUME NEW d \in Daemons, Launch(d)
      PROVE  MakerInv'
    BY <1>23, DaemonsAssumption DEF Launch, Goto, files, listeners, flags,
      pending, outcome, TypeOK, StageInv, MakerInv, Closing, Places,
      Starting, Serving
  <1>24. ASSUME NEW d \in Daemons, Kill(d)
      PROVE  MakerInv'
    BY <1>24, DaemonsAssumption DEF Kill, Event, Over, files, listeners,
      flags, pending, outcome, TypeOK, StageInv, MakerInv, Closing, Places,
      Starting, Serving
  <1>25. ASSUME NEW d \in Daemons, Signal(d)
      PROVE  MakerInv'
    BY <1>25, DaemonsAssumption DEF Signal, Event, files, listeners, flags,
      pending, outcome, TypeOK, StageInv, MakerInv, Closing, Places,
      Starting, Serving
  <1>26. ASSUME NEW d \in Daemons, Shutdown(d)
      PROVE  MakerInv'
    BY <1>26, DaemonsAssumption DEF Shutdown, Served, Event,
      TriggerShutdown, files, listeners, flags, pending, outcome, TypeOK,
      StageInv, MakerInv, Closing, Places, Starting, Serving
  <1>27. ASSUME NEW d \in Daemons, ServeFault(d)
      PROVE  MakerInv'
    BY <1>27, DaemonsAssumption DEF ServeFault, Served, Event, files,
      listeners, flags, pending, outcome, TypeOK, StageInv, MakerInv,
      Closing, Places, Starting, Serving
  <1>28. ASSUME NEW d \in Daemons, Serve(d)
      PROVE  MakerInv'
    BY <1>28, DaemonsAssumption DEF Serve, files, listeners,
      flags, pending, outcome, TypeOK, StageInv, MakerInv, Closing, Places,
      Starting, Serving
  <1>29. ASSUME NEW d \in Daemons, Request(d)
      PROVE  MakerInv'
    BY <1>29, DaemonsAssumption DEF Request, files, listeners,
      flags, pending, outcome, TypeOK, StageInv, MakerInv, Closing, Places,
      Starting, Serving
  <1>30. ASSUME NEW d \in Daemons, Answer(d)
      PROVE  MakerInv'
    BY <1>30, DaemonsAssumption DEF Answer, files, listeners,
      flags, pending, outcome, TypeOK, StageInv, MakerInv, Closing, Places,
      Starting, Serving
  <1>31. CASE Wipe
    BY <1>31, DaemonsAssumption DEF Wipe, Event, Unlink, files, listeners,
      flags, pending, outcome, TypeOK, StageInv, MakerInv, Closing, Places,
      Starting, Serving
  <1>32. CASE UNCHANGED vars
    BY <1>32, DaemonsAssumption DEF vars, files, listeners, flags, pending,
      outcome, TypeOK, StageInv, MakerInv, Closing, Places, Starting, Serving
  <1> QED BY <1>1, <1>2, <1>3, <1>4, <1>5, <1>6, <1>7, <1>8, <1>9,
    <1>10, <1>11, <1>12, <1>13, <1>14, <1>15, <1>16, <1>17, <1>18, <1>19,
    <1>20, <1>21, <1>22, <1>23, <1>24, <1>25, <1>26, <1>27, <1>28, <1>29,
    <1>30, <1>31, <1>32 DEF Next, Main, Start, Close, Watchdog, Chance

-----------------------------------------------------------------------------
(* Before anything happens the invariant holds.                             *)
LEMMA InitIInv ==
    ASSUME Init PROVE IInv
  <1>1. TypeOK /\ StageInv
    BY DaemonsAssumption DEF Init, TypeOK, StageInv, Places, Starting,
      Serving, Closing
  <1>2. SockInv /\ EvictInv /\ CutInv /\ TheftInv /\ MakerInv
    BY DaemonsAssumption DEF Init, SockInv, Robbed, EvictInv, CutInv,
      TheftInv, TheftOnlyInWindow, MakerInv, Starting
  <1> QED BY <1>1, <1>2 DEF IInv

(* Every step keeps the invariant.                                          *)
LEMMA IInvStep ==
    ASSUME IInv, [Next]_vars PROVE IInv'
  <1>1. TypeOK' /\ StageInv' /\ SockInv' /\ EvictInv'
    BY TypeStep, StageStep, SockStep, EvictStep DEF IInv
  <1>2. CutInv' /\ TheftInv' /\ MakerInv'
    BY CutStep, TheftStep, MakerStep DEF IInv
  <1> QED BY <1>1, <1>2 DEF IInv

(* The inductive invariant holds in every behaviour of Daemons.             *)
THEOREM Invariant == Spec => []IInv
  <1>1. Init => IInv BY InitIInv
  <1>2. IInv /\ [Next]_vars => IInv' BY IInvStep
  <1> QED BY <1>1, <1>2, PTL DEF Spec

(* All variables have their types, and a watchdog has an identity to watch  *)
(* (watchSocketOwnership), for any number of daemons.                       *)
THEOREM TypeCorrect == Spec => []TypeOK
  <1>1. IInv => TypeOK BY DEF IInv
  <1> QED BY <1>1, Invariant, PTL

(* No daemon evicts itself because of its own shutdown                      *)
(* (watchSocketOwnership).                                                  *)
THEOREM EvictionsAreJustified == Spec => []NoFalseEviction
  <1>1. IInv => NoFalseEviction
    BY DEF IInv, EvictInv, NoFalseEviction, Robbed, TypeOK
  <1> QED BY <1>1, Invariant, PTL

(* A boot that an eviction cut short ends with the code zero (run).         *)
THEOREM EvictedBootExitsClean == Spec => []CutBootExitsClean
  <1>1. IInv => CutBootExitsClean
    BY DEF IInv, CutInv, CutBootExitsClean
  <1> QED BY <1>1, Invariant, PTL

(* Among any number of daemons a live socket file is removed only by one    *)
(* that decided before it was bound (Listen, ownedListener.Close).          *)
THEOREM ThievesWereInWindow == Spec => []TheftOnlyInWindow
  <1>1. IInv => TheftOnlyInWindow
    BY DEF IInv, TheftInv
  <1> QED BY <1>1, Invariant, PTL

(* A daemon that ends in order, and whose Serve had registered the listener *)
(* by then, leaves no file behind (ownedListener.Close, stopGRPC).          *)
THEOREM FilesAreCleanedUp == Spec => []NoFileOutlivesItsMaker
  <1>1. IInv => NoFileOutlivesItsMaker
    BY DaemonsAssumption
    DEF IInv, TypeOK, StageInv, MakerInv, NoFileOutlivesItsMaker
  <1> QED BY <1>1, Invariant, PTL

-----------------------------------------------------------------------------
(* Daemons implements Endpoint.                                             *)

(* What a daemon is to its clients, by its stage.                           *)
LifeIs(d) ==
    /\ pc[d] = "off" => Life[d] = "off"
    /\ pc[d] \in {"unbind", "gone"} \/ lis[d] \in Closing => Life[d] = "gone"
    /\ sock[d] # None =>
          Life[d] = IF d \in published THEN "ready" ELSE "loading"
    /\ /\ pc[d] \notin {"off", "unbind", "gone"} /\ lis[d] \notin Closing
       /\ sock[d] = None
       => Life[d] = "starting"

(* What the stages say of a daemon's life, now and in the next state.       *)
LEMMA LifeOf ==
    ASSUME TypeOK, StageInv
    PROVE  \A d \in Daemons : LifeIs(d)
  BY DEF TypeOK, StageInv, LifeIs, Life, Closing, Serving

(* The same of the next state.                                              *)
LEMMA LifeOfNext ==
    ASSUME TypeOK', StageInv'
    PROVE  \A d \in Daemons : LifeIs(d)'
  BY DEF TypeOK, StageInv, LifeIs, Life, Closing, Serving

(* Who answers at the path: the one daemon that is bound to what is there.  *)
FrontIs ==
    /\ \A d \in Daemons : sock[d] # None /\ sock[d] = path => Front = d
    /\ path = File => Front = File
    /\ path # File /\ (\A d \in Daemons : sock[d] = None \/ sock[d] # path)
       => Front = None

(* Sockets have inodes of their own, so that one daemon answers at most.    *)
LEMMA FrontOf ==
    ASSUME TypeOK, SockInv
    PROVE  FrontIs
  <1>1. ASSUME NEW d \in Daemons, sock[d] # None, sock[d] = path
        PROVE  Front = d
    <2>1. (CHOOSE e \in Daemons : sock[e] = path) = d
      <3> DEFINE c == CHOOSE e \in Daemons : sock[e] = path
      <3>1. c \in Daemons /\ sock[c] = path
        BY <1>1
      <3> QED BY <1>1, <3>1 DEF SockInv
    <2> QED BY <1>1, <2>1 DEF Front, Dials
  <1>2. ~ Dials(File)
    BY DaemonsAssumption DEF Dials, TypeOK
  <1> QED BY <1>1, <1>2 DEF FrontIs, Front, Dials

(* The same of the next state.                                              *)
LEMMA FrontOfNext ==
    ASSUME TypeOK', SockInv'
    PROVE  FrontIs'
  <1>1. ASSUME NEW d \in Daemons, sock'[d] # None, sock'[d] = path'
        PROVE  Front' = d
    <2>1. (CHOOSE e \in Daemons : sock'[e] = path') = d
      <3> DEFINE c == CHOOSE e \in Daemons : sock'[e] = path'
      <3>1. c \in Daemons /\ sock'[c] = path'
        BY <1>1
      <3> QED BY <1>1, <3>1 DEF SockInv
    <2> QED BY <1>1, <2>1 DEF Front, Dials
  <1>2. ~ Dials(File)'
    BY DaemonsAssumption DEF Dials, TypeOK
  <1> QED BY <1>1, <1>2 DEF FrontIs, Front, Dials

(* Nothing changes but what belongs to d.                                   *)
Local(d) ==
    \A e \in Daemons \ {d} :
        /\ pc'[e] = pc[e] /\ lis'[e] = lis[e] /\ sock'[e] = sock[e]
        /\ e \in published' <=> e \in published

(* A step of d turns no other life.                                         *)
LEMMA LifeLocal ==
    ASSUME NEW d \in Daemons, Local(d), NEW to, Life'[d] = to
    PROVE  Life' = [Life EXCEPT ![d] = to]
  <1>1. ASSUME NEW e \in Daemons, e # d
        PROVE  Life'[e] = Life[e]
    <2>1. /\ pc'[e] = pc[e] /\ lis'[e] = lis[e] /\ sock'[e] = sock[e]
          /\ e \in published' <=> e \in published
      BY <1>1 DEF Local
    <2> QED BY <2>1 DEF Life
  <1>2. /\ Life = [e \in Daemons |-> Life[e]]
        /\ Life' = [e \in Daemons |-> Life'[e]]
    BY DEF Life
  <1> QED BY <1>1, <1>2

(* If it does not turn that of d and leaves the path, clients see nothing.  *)
LEMMA Stutters ==
    ASSUME NEW d \in Daemons, Local(d), Life'[d] = Life[d], sock' = sock,
           path' = path
    PROVE  UNCHANGED <<Front, Life>>
  <1>1. Life' = Life
    <2>1. Life = [e \in Daemons |-> Life[e]]
      BY DEF Life
    <2> QED BY <2>1, LifeLocal
  <1>2. Front' = Front
    BY DEF Front, Dials
  <1> QED BY <1>1, <1>2

(* A listener that closes with its socket is the end of a daemon.           *)
LEMMA EndStep ==
    ASSUME NEW d \in Daemons, Local(d), FrontIs, FrontIs', TypeOK, TypeOK',
           SockInv, Life[d] \in {"starting", "loading", "ready"},
           Life'[d] = "gone", sock' = [sock EXCEPT ![d] = None], path' = path
    PROVE  Path!End(d)
  <1>1. Path!Turn(d, {"starting", "loading", "ready"}, "gone")
    BY LifeLocal DEF Path!Turn
  <1>2. Front' = IF Front = d THEN None ELSE Front
    <2>1. CASE \E e \in Daemons : sock[e] # None /\ sock[e] = path
      <3>1. PICK e \in Daemons : sock[e] # None /\ sock[e] = path
        BY <2>1
      <3>2. Front = e
        BY <3>1 DEF FrontIs
      <3>3. CASE e = d
        BY <3>1, <3>2, <3>3, DaemonsAssumption DEF FrontIs, SockInv, TypeOK
      <3>4. CASE e # d
        BY <3>1, <3>2, <3>4, DaemonsAssumption DEF FrontIs, TypeOK
      <3> QED BY <3>3, <3>4
    <2>2. CASE \A e \in Daemons : sock[e] = None \/ sock[e] # path
      BY <2>2, DaemonsAssumption DEF FrontIs, TypeOK
    <2> QED BY <2>1, <2>2
  <1> QED BY <1>1, <1>2 DEF Path!End

(* An unlinked path is lost, if anything but a stale socket was there.      *)
LEMMA LoseStep ==
    ASSUME FrontIs', TypeOK', Life' = Life, path' = None
    PROVE  Path!Lose \/ UNCHANGED <<Front, Life>>
  <1>1. Front' = None
    BY DaemonsAssumption DEF FrontIs
  <1> QED BY <1>1 DEF Path!Lose

(* A step of d that leaves its life and the path alone.                     *)
LEMMA QuietStep ==
    ASSUME IInv, IInv', NEW d \in Daemons, Local(d), path' = path,
           sock' = sock,
           \/ pc'[d] = pc[d] /\ lis'[d] = lis[d] /\ published' = published
           \/ /\ pc[d] = "probe" \/ pc[d] \in Starting \ {"ident", "unbind"}
              /\ pc'[d] \in Starting \ {"ident", "unbind"}
              /\ published' = published
           \/ lis[d] \in Closing /\ lis'[d] \in Closing
           \/ /\ {pc[d], pc'[d]} \subseteq {"ident"} \union Serving
              /\ lis[d] \notin Closing /\ lis'[d] \notin Closing
              /\ published' = published
    PROVE  UNCHANGED <<Front, Life>>
  <1>1. LifeIs(d) /\ LifeIs(d)'
    BY LifeOf, LifeOfNext DEF IInv
  <1>2. Life'[d] = Life[d]
    BY <1>1 DEF IInv, TypeOK, StageInv, LifeIs, Starting, Serving, Closing
  <1> QED BY <1>2, Stutters

(* A process that ends.                                                     *)
LEMMA OverStep ==
    ASSUME IInv, IInv', NEW d \in Daemons, NEW how, Over(d, how), path' = path,
           Life[d] \in {"starting", "loading", "ready"}
    PROVE  Path!End(d)
  <1>1. LifeIs(d)' /\ FrontIs /\ FrontIs'
    BY LifeOfNext, FrontOf, FrontOfNext DEF IInv
  <1>2. Local(d) /\ sock' = [sock EXCEPT ![d] = None]
    BY DEF IInv, TypeOK, Over, Local
  <1>3. Life'[d] = "gone"
    BY <1>1 DEF Over, LifeIs, IInv, TypeOK
  <1> QED BY <1>1, <1>2, <1>3, EndStep DEF IInv

(* An early return of run ends a daemon that was starting.                  *)
LEMMA RefuseStep ==
    ASSUME IInv, IInv', NEW d \in Daemons, Refuse(d),
           pc[d] \in Starting \ {"ident", "unbind"}
    PROVE  Path!End(d)
  <1>1. LifeIs(d)
    BY LifeOf DEF IInv
  <1>2. Life[d] = "starting"
    BY <1>1 DEF IInv, StageInv, LifeIs, Starting, Serving, Closing
  <1> QED BY <1>2, OverStep DEF Refuse, files

(* The file at the path is removed by d, which goes on with its start.      *)
LEMMA UnlinkStep ==
    ASSUME IInv, IInv', NEW d \in Daemons, Unlink(d), Local(d), sock' = sock,
           published' = published,
           \/ {pc[d], pc'[d]} \subseteq Starting \ {"ident", "unbind"}
           \/ lis[d] \in Closing /\ lis'[d] \in Closing
    PROVE  Path!Lose \/ UNCHANGED <<Front, Life>>
  <1>1. LifeIs(d) /\ LifeIs(d)' /\ FrontIs'
    BY LifeOf, LifeOfNext, FrontOfNext DEF IInv
  <1>2. Life'[d] = Life[d]
    BY <1>1 DEF IInv, TypeOK, StageInv, LifeIs, Starting, Serving, Closing
  <1>3. Life = [e \in Daemons |-> Life[e]]
    BY DEF Life
  <1>4. Life' = Life
    BY <1>2, <1>3, LifeLocal
  <1> QED BY <1>1, <1>4, LoseStep DEF IInv, Unlink

(* Every step of a daemon is a step of Endpoint, or none at all.            *)
LEMMA EndpointStep ==
    ASSUME IInv, [Next]_vars
    PROVE  [Path!EndpointNext]_<<Front, Life>>
  <1> DEFINE Quiet == UNCHANGED <<Front, Life>>
  <1>0. /\ IInv' /\ TypeOK' /\ SockInv' /\ StageInv'
        /\ TypeOK /\ SockInv /\ StageInv
        /\ FrontIs /\ FrontIs'
        /\ \A d \in Daemons : LifeIs(d) /\ LifeIs(d)'
    <2>1. IInv' BY IInvStep
    <2> QED BY <2>1, LifeOf, LifeOfNext, FrontOf, FrontOfNext DEF IInv
  <1>1. ASSUME NEW d \in Daemons, Probe(d)
        PROVE  Path!End(d) \/ Quiet
    <2>1. CASE Dials(path)
      <3>1. /\ pc[d] = "probe" /\ Over(d, "zero") /\ path' = path
        BY <1>1, <2>1 DEF Probe, files
      <3>2. Life[d] = "starting"
        BY <3>1, <1>0 DEF StageInv, LifeIs, Serving, Closing
      <3> QED BY <3>1, <3>2, <1>0, OverStep
    <2>2. CASE ~ Dials(path)
      <3>1. /\ pc[d] = "probe" /\ pc' = [pc EXCEPT ![d] = "clean"]
            /\ path' = path /\ published' = published /\ sock' = sock
            /\ lis' = lis
        BY <1>1, <2>2 DEF Probe, files, listeners
      <3>2. Local(d)
        BY <3>1, <1>0 DEF TypeOK, Local
      <3> QED BY <3>1, <3>2, <1>0, QuietStep DEF TypeOK, Starting
    <2> QED BY <2>1, <2>2
  <1>2. ASSUME NEW d \in Daemons, Clean(d) PROVE Quiet
    <2>1. Local(d)
      BY <1>2, <1>0 DEF Clean, Goto, TypeOK, Local, files, listeners
    <2> QED BY <1>2, <1>0, <2>1, QuietStep DEF Clean, Goto, TypeOK, StageInv,
      Starting, Serving, Closing, files, listeners
  <1>3. ASSUME NEW d \in Daemons, CleanUnlink(d)
        PROVE  Path!EndpointNext \/ Quiet
    <2>1. CASE path = None
      <3>1. pc[d] = "unlink" /\ Refuse(d)
        BY <1>3, <2>1 DEF CleanUnlink
      <3> QED BY <3>1, <1>0, RefuseStep DEF Starting, Path!EndpointNext
    <2>2. CASE path # None
      <3>1. /\ pc[d] = "unlink" /\ pc' = [pc EXCEPT ![d] = "stat"]
            /\ Unlink(d) /\ published' = published /\ sock' = sock
            /\ lis' = lis
        BY <1>3, <2>2 DEF CleanUnlink, Goto, listeners
      <3>2. Local(d)
        BY <3>1, <1>0 DEF TypeOK, Local
      <3> QED BY <3>1, <3>2, <1>0, UnlinkStep
        DEF TypeOK, Starting, Path!EndpointNext
    <2> QED BY <2>1, <2>2
  <1>4. ASSUME NEW d \in Daemons, ListenStat(d) PROVE Quiet
    <2>1. Local(d)
      BY <1>4, <1>0 DEF ListenStat, Goto, TypeOK, Local, files, listeners
    <2> QED BY <1>4, <1>0, <2>1, QuietStep DEF ListenStat, Goto, TypeOK,
      StageInv, Starting, Serving, Closing, files, listeners
  <1>5. ASSUME NEW d \in Daemons, ListenDial(d)
        PROVE  Path!End(d) \/ Quiet
    <2>1. CASE Dials(path)
      <3>1. pc[d] = "dial" /\ Refuse(d)
        BY <1>5, <2>1 DEF ListenDial
      <3> QED BY <3>1, <1>0, RefuseStep DEF Starting
    <2>2. CASE ~ Dials(path)
      <3>1. /\ pc[d] = "dial" /\ pc' = [pc EXCEPT ![d] = "rmstale"]
            /\ path' = path /\ published' = published /\ sock' = sock
            /\ lis' = lis
        BY <1>5, <2>2 DEF ListenDial, Goto, files, listeners
      <3>2. Local(d)
        BY <3>1, <1>0 DEF TypeOK, Local
      <3> QED BY <3>1, <3>2, <1>0, QuietStep DEF TypeOK, Starting
    <2> QED BY <2>1, <2>2
  <1>6. ASSUME NEW d \in Daemons, ListenRemoveStale(d)
        PROVE  Path!EndpointNext \/ Quiet
    <2>1. Local(d)
      BY <1>6, <1>0 DEF ListenRemoveStale, Goto, listeners, TypeOK, Local
    <2> QED BY <1>6, <1>0, <2>1, UnlinkStep DEF ListenRemoveStale, Goto,
      listeners, TypeOK, Starting, Path!EndpointNext
  <1>7. ASSUME NEW d \in Daemons, ListenBind(d)
        PROVE  Path!EndpointNext
    <2>1. CASE path = None
      <3>1. PICK j \in FreeInodes :
                path' = j /\ sock' = [sock EXCEPT ![d] = j]
        BY <1>7, <2>1 DEF ListenBind
      <3>2. /\ pc[d] = "bind" /\ pc' = [pc EXCEPT ![d] = "ident"]
            /\ published' = published /\ lis' = lis
        BY <1>7, <2>1 DEF ListenBind, Goto
      <3>3. Local(d)
        BY <3>1, <3>2, <1>0 DEF TypeOK, Local
      <3>4. sock[d] = None /\ sock'[d] = j /\ j # None
        BY <3>1, <3>2, <1>0, DaemonsAssumption
          DEF FreeInodes, TypeOK, StageInv, Serving
      <3>5. Life[d] = "starting"
        BY <3>2, <3>4, <1>0 DEF StageInv, LifeIs, Serving, Closing
      <3>6. Life'[d] = "loading"
        BY <3>2, <3>4, <1>0 DEF StageInv, LifeIs, Serving
      <3>7. Front = None /\ Front' = d
        BY <3>1, <3>4, <2>1, <1>0, DaemonsAssumption DEF FrontIs
      <3> QED BY <3>3, <3>5, <3>6, <3>7, LifeLocal
        DEF Path!EndpointNext, Path!Listen, Path!Turn
    <2>2. CASE path # None
      <3>1. pc[d] = "bind" /\ Refuse(d)
        BY <1>7, <2>2 DEF ListenBind
      <3> QED BY <3>1, <1>0, RefuseStep DEF Starting, Path!EndpointNext
    <2> QED BY <2>1, <2>2
  <1>8. ASSUME NEW d \in Daemons, ListenIdentify(d)
        PROVE  Path!End(d) \/ Quiet
    <2>1. CASE path = None
      <3>1. /\ pc[d] = "ident" /\ pc' = [pc EXCEPT ![d] = "unbind"]
            /\ sock' = [sock EXCEPT ![d] = None]
            /\ path' = path /\ published' = published /\ lis' = lis
        BY <1>8, <2>1 DEF ListenIdentify, Goto, files
      <3>2. Local(d)
        BY <3>1, <1>0 DEF TypeOK, Local
      <3>3. Life[d] \in {"loading", "ready"} /\ Life'[d] = "gone"
        BY <3>1, <1>0 DEF TypeOK, StageInv, LifeIs
      <3> QED BY <3>1, <3>2, <3>3, <1>0, EndStep
    <2>2. CASE path # None
      <3>1. /\ pc[d] = "ident" /\ pc' = [pc EXCEPT ![d] = "boot"]
            /\ lis' = [lis EXCEPT ![d] = "open"]
            /\ path' = path /\ published' = published /\ sock' = sock
        BY <1>8, <2>2 DEF ListenIdentify, Goto, files
      <3>2. Local(d)
        BY <3>1, <1>0 DEF TypeOK, Local
      <3> QED BY <3>1, <3>2, <1>0, QuietStep
        DEF TypeOK, StageInv, Serving, Closing
    <2> QED BY <2>1, <2>2
  <1>9. ASSUME NEW d \in Daemons, ListenUndo(d)
        PROVE  Path!EndpointNext \/ Quiet
    <2>1. /\ pc[d] = "unbind" /\ sock[d] = None
          /\ path' = None /\ Over(d, "one")
      BY <1>9, <1>0 DEF ListenUndo, Unlink, StageInv, Serving
    <2>2. Local(d)
      BY <2>1, <1>0 DEF Over, TypeOK, Local
    <2>3. Life[d] = "gone" /\ Life'[d] = "gone"
      BY <2>1, <1>0 DEF Over, TypeOK, LifeIs
    <2>4. Life = [e \in Daemons |-> Life[e]]
      BY DEF Life
    <2>5. Life' = Life
      BY <2>2, <2>3, <2>4, LifeLocal
    <2> QED BY <2>1, <2>5, <1>0, LoseStep DEF Path!EndpointNext
  <1>10. ASSUME NEW d \in Daemons, BootFails(d) PROVE Quiet
    <2>1. Local(d)
      BY <1>10, <1>0 DEF BootFails, Bail, TypeOK, Local, files, listeners
    <2> QED BY <1>10, <1>0, <2>1, QuietStep DEF BootFails, Bail, TypeOK,
      StageInv, Starting, Serving, Closing, files, listeners
  <1>11. ASSUME NEW d \in Daemons, BootCut(d) PROVE Quiet
    <2>1. Local(d)
      BY <1>11, <1>0 DEF BootCut, Bail, TypeOK, Local, files, listeners
    <2> QED BY <1>11, <1>0, <2>1, QuietStep DEF BootCut, Bail, TypeOK,
      StageInv, Starting, Serving, Closing, files, listeners
  <1>12. ASSUME NEW d \in Daemons, Select(d) PROVE Quiet
    <2>1. Local(d)
      BY <1>12, <1>0 DEF Select, Goto, TypeOK, Local, files, listeners
    <2> QED BY <1>12, <1>0, <2>1, QuietStep DEF Select, Goto, TypeOK,
      StageInv, Starting, Serving, Closing, files, listeners
  <1>13. ASSUME NEW d \in Daemons, BootSucceeds(d)
        PROVE  Path!EndpointNext \/ Quiet
    <2>1. /\ pc[d] = "boot" /\ pc'[d] \in {"select", "draining"}
          /\ \A e \in Daemons \ {d} : pc'[e] = pc[e]
          /\ published' = published \union {d}
          /\ path' = path /\ sock' = sock /\ lis' = lis
      BY <1>13, <1>0 DEF BootSucceeds, Goto, files, listeners, TypeOK
    <2>2. Local(d)
      BY <2>1 DEF Local
    <2>3. CASE sock[d] # None
      <3>1. Life[d] = "loading" /\ Life'[d] = "ready"
        BY <2>1, <2>3, <1>0 DEF StageInv, LifeIs
      <3>2. Front' = Front
        BY <2>1 DEF Front, Dials
      <3> QED BY <2>2, <3>1, <3>2, LifeLocal
        DEF Path!EndpointNext, Path!Ready, Path!Turn
    <2>4. CASE sock[d] = None
      <3>1. lis[d] \in Closing
        BY <2>1, <2>4, <1>0 DEF TypeOK, StageInv, Serving, Closing
      <3> QED BY <2>1, <2>2, <3>1, <1>0, QuietStep
    <2> QED BY <2>3, <2>4
  <1>14. ASSUME NEW d \in Daemons, BadIdleTimeout(d)
        PROVE  Path!EndpointNext \/ Quiet
    <2>1. /\ pc[d] = "boot" /\ pc'[d] \in {"select", "draining"}
          /\ \A e \in Daemons \ {d} : pc'[e] = pc[e]
          /\ published' = published \union {d}
          /\ path' = path /\ sock' = sock /\ lis' = lis
      BY <1>14, <1>0 DEF BadIdleTimeout, Bail, files, listeners, TypeOK
    <2>2. Local(d)
      BY <2>1 DEF Local
    <2>3. CASE sock[d] # None
      <3>1. Life[d] = "loading" /\ Life'[d] = "ready"
        BY <2>1, <2>3, <1>0 DEF StageInv, LifeIs
      <3>2. Front' = Front
        BY <2>1 DEF Front, Dials
      <3> QED BY <2>2, <3>1, <3>2, LifeLocal
        DEF Path!EndpointNext, Path!Ready, Path!Turn
    <2>4. CASE sock[d] = None
      <3>1. lis[d] \in Closing
        BY <2>1, <2>4, <1>0 DEF TypeOK, StageInv, Serving, Closing
      <3> QED BY <2>1, <2>2, <3>1, <1>0, QuietStep
    <2> QED BY <2>3, <2>4
  <1>15. ASSUME NEW d \in Daemons, Exit(d)
        PROVE  Path!End(d) \/ Quiet
    <2>1. PICK how \in {"zero", "one"} :
            /\ pc[d] = "draining" /\ Over(d, how) /\ path' = path
      BY <1>15 DEF Exit, Drained, files
    <2>2. CASE lis[d] = "open"
      <3>1. Life[d] \in {"loading", "ready"}
        BY <2>1, <2>2, <1>0 DEF StageInv, LifeIs
      <3> QED BY <2>1, <3>1, <1>0, OverStep
    <2>3. CASE lis[d] # "open"
      <3>1. lis[d] \in Closing /\ sock[d] = None
        BY <2>1, <2>3, <1>0 DEF TypeOK, StageInv, Serving, Closing
      <3>2. sock' = sock /\ Local(d) /\ pc'[d] = "gone"
        BY <2>1, <3>1, <1>0 DEF Over, TypeOK, Local
      <3>3. Life[d] = "gone" /\ Life'[d] = "gone"
        BY <3>1, <3>2, <1>0 DEF LifeIs
      <3> QED BY <2>1, <3>2, <3>3, Stutters
    <2> QED BY <2>2, <2>3
  <1>16. ASSUME NEW d \in Daemons, CloseBegins(d)
        PROVE  Path!End(d)
    <2>1. /\ lis[d] = "open" /\ lis'[d] = "checking" /\ path' = path
          /\ sock' = [sock EXCEPT ![d] = None] /\ Local(d)
      BY <1>16, <1>0 DEF CloseBegins, files, TypeOK, Local
    <2>2. Life[d] \in {"loading", "ready"} /\ Life'[d] = "gone"
      BY <2>1, <1>0 DEF StageInv, LifeIs, Closing
    <2> QED BY <2>1, <2>2, <1>0, EndStep
  <1>17. ASSUME NEW d \in Daemons, CloseChecks(d) PROVE Quiet
    <2>1. Local(d)
      BY <1>17, <1>0 DEF CloseChecks, TypeOK, Local, files, listeners
    <2> QED BY <1>17, <1>0, <2>1, QuietStep DEF CloseChecks, TypeOK,
      StageInv, Starting, Serving, Closing, files, listeners
  <1>18. ASSUME NEW d \in Daemons, CloseUnlinks(d)
        PROVE  Path!EndpointNext \/ Quiet
    <2>1. Local(d) /\ lis[d] = "unlinking" /\ lis'[d] = "closed"
      BY <1>18, <1>0 DEF CloseUnlinks, TypeOK, Local
    <2> QED BY <1>18, <1>0, <2>1, UnlinkStep
      DEF CloseUnlinks, Closing, Path!EndpointNext
  <1>19. ASSUME NEW d \in Daemons, WatchTick(d) PROVE Quiet
    BY <1>19 DEF WatchTick, WatchMoves, Front, Dials, Life, files, listeners
  <1>20. ASSUME NEW d \in Daemons, WatchDoubt(d) PROVE Quiet
    BY <1>20 DEF WatchDoubt, WatchMoves, Front, Dials, Life, files, listeners
  <1>21. ASSUME NEW d \in Daemons, WatchMark(d) PROVE Quiet
    BY <1>21 DEF WatchMark, Front, Dials, Life, files, listeners
  <1>22. ASSUME NEW d \in Daemons, WatchCancel(d) PROVE Quiet
    BY <1>22 DEF WatchCancel, Front, Dials, Life, files, listeners
  <1>23. ASSUME NEW d \in Daemons, Launch(d)
        PROVE  Path!Begin(d)
    <2>1. /\ pc[d] = "off" /\ pc' = [pc EXCEPT ![d] = "probe"]
          /\ published' = published /\ lis' = lis /\ sock' = sock
          /\ path' = path
      BY <1>23 DEF Launch, Goto, files, listeners
    <2>2. Local(d) /\ pc'[d] = "probe"
      BY <2>1, <1>0 DEF TypeOK, Local
    <2>3. Life[d] = "off" /\ Life'[d] = "starting"
      BY <2>1, <2>2, <1>0 DEF StageInv, LifeIs, Serving, Closing
    <2>4. Front' = Front
      BY <2>1 DEF Front, Dials
    <2> QED BY <2>2, <2>3, <2>4, LifeLocal DEF Path!Begin, Path!Turn
  <1>24. ASSUME NEW d \in Daemons, Kill(d)
        PROVE  Path!End(d) \/ Quiet
    <2>1. /\ pc[d] \notin {"off", "gone"} /\ Over(d, "killed")
          /\ path' = path
      BY <1>24 DEF Kill, files
    <2>2. CASE Life[d] \in {"starting", "loading", "ready"}
      BY <2>1, <2>2, <1>0, OverStep
    <2>3. CASE Life[d] \notin {"starting", "loading", "ready"}
      <3>1. pc[d] = "unbind" \/ lis[d] \in Closing
        BY <2>1, <2>3, <1>0 DEF LifeIs
      <3>2. sock[d] = None
        BY <3>1, <1>0 DEF StageInv, Closing, Serving
      <3>3. sock' = sock /\ Local(d) /\ pc'[d] = "gone"
        BY <2>1, <3>2, <1>0 DEF Over, TypeOK, Local
      <3>4. Life[d] = "gone" /\ Life'[d] = "gone"
        BY <3>1, <3>3, <1>0 DEF LifeIs
      <3> QED BY <2>1, <3>3, <3>4, Stutters
    <2> QED BY <2>2, <2>3
  <1>25. ASSUME NEW d \in Daemons, Signal(d) PROVE Quiet
    BY <1>25 DEF Signal, Front, Dials, Life, files, listeners
  <1>26. ASSUME NEW d \in Daemons, Shutdown(d) PROVE Quiet
    BY <1>26 DEF Shutdown, Served, Front, Dials, Life, files, listeners
  <1>27. ASSUME NEW d \in Daemons, ServeFault(d) PROVE Quiet
    BY <1>27 DEF ServeFault, Served, Front, Dials, Life, files, listeners
  <1>28. ASSUME NEW d \in Daemons, Serve(d) PROVE Quiet
    BY <1>28 DEF Serve, Front, Dials, Life, files, listeners
  <1>29. ASSUME NEW d \in Daemons, Request(d) PROVE Quiet
    BY <1>29 DEF Request, Front, Dials, Life, files, listeners
  <1>30. ASSUME NEW d \in Daemons, Answer(d) PROVE Quiet
    BY <1>30 DEF Answer, Front, Dials, Life, files, listeners
  <1>31. CASE Wipe
    <2>1. path' = None /\ Life' = Life
      BY <1>31 DEF Wipe, Unlink, listeners, Life
    <2> QED BY <2>1, <1>0, LoseStep DEF Path!EndpointNext
  <1>32. CASE UNCHANGED vars
    BY <1>32 DEF vars, files, listeners, Front, Dials, Life
  <1> QED BY <1>1, <1>2, <1>3, <1>4, <1>5, <1>6, <1>7, <1>8, <1>9,
    <1>10, <1>11, <1>12, <1>13, <1>14, <1>15, <1>16, <1>17, <1>18, <1>19,
    <1>20, <1>21, <1>22, <1>23, <1>24, <1>25, <1>26, <1>27, <1>28, <1>29,
    <1>30, <1>31, <1>32 DEF Next, Main, Start, Close, Watchdog, Chance,
      Path!EndpointNext

(* All that clients see of any number of daemons is Endpoint.               *)
THEOREM Implementation == Spec => ImplementsEndpoint
  <1>1. Init => Path!EndpointInit
    <2>1. SUFFICES ASSUME Init PROVE Path!EndpointInit
      OBVIOUS
    <2>2. IInv
      BY <2>1, InitIInv
    <2>3. FrontIs /\ \A d \in Daemons : LifeIs(d)
      BY <2>2, FrontOf, LifeOf DEF IInv
    <2>4. Front \in {None, File}
      BY <2>1, <2>3 DEF Init, FrontIs
    <2>5. Life = [d \in Daemons |-> "off"]
      <3>1. Life = [d \in Daemons |-> Life[d]]
        BY DEF Life
      <3>2. \A d \in Daemons : Life[d] = "off"
        BY <2>1, <2>3 DEF Init, LifeIs
      <3> QED BY <3>1, <3>2
    <2> QED BY <2>4, <2>5 DEF Path!EndpointInit
  <1>2. IInv /\ [Next]_vars => [Path!EndpointNext]_<<Front, Life>>
    BY EndpointStep
  <1> QED BY Invariant, <1>1, <1>2, PTL
    DEF Spec, ImplementsEndpoint, Path!EndpointSpec, Path!endpoint
=============================================================================
