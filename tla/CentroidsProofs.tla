-------------------------- MODULE CentroidsProofs ---------------------------
(***************************************************************************)
(* Proofs about Centroids, for any number of streams and requests, any     *)
(* vectors, headers and lengths.                                           *)
(***************************************************************************)
EXTENDS Centroids, WellFoundedInduction, TLAPS

(* Which streams are between installMu.Lock and Unlock, and what they and   *)
(* the daemon hold there.                                                   *)
LockInv ==
    /\ \A p \in Pushers :
          stage[p] \in {"write", "rename", "unlock"} <=> installMu = p
    /\ \A p \in Pushers : installMu = p => memory = cs[p]
    /\ ~up => /\ memory = NoSet
              /\ installMu = NoProc
              /\ \A p \in Pushers : stage[p] = "idle"
              /\ \A q \in Routers : ~calling[q]

(* Every set that was let in is sound, wherever it is.                      *)
SoundInv ==
    /\ \A p \in Pushers : stage[p] \in Installing => cs[p] \in Sound
    /\ memory # NoSet => memory \in Sound
    /\ \A q \in Routers : calling[q] => held[q] \in Sound
    /\ disk # NoSet /\ ~rotten => disk \in Sound

(* The cache is what the last successful Persist left.                      *)
CacheInv == up /\ saved /\ ~rotten => Load(disk) = memory

IInv == TypeOK /\ LockInv /\ SoundInv /\ CacheInv /\ AnswersOnOneSet

(* b[n] is the winner of the first n vectors, as the loop of Assign finds   *)
(* it: its CHOOSE, written out.                                             *)
IsScan(b, vecs, x, len) ==
    b = [n \in 0 .. len |->
            IF n = 0 THEN 1
            ELSE IF vecs[n] * x > vecs[b[n - 1]] * x THEN n
            ELSE b[n - 1]]

-----------------------------------------------------------------------------
(* Assign.  The provers see a recursive function as its CHOOSE: that the    *)
(* recursion has a solution, and what that computes, is by least            *)
(* counterexample.                                                          *)

(* A set of naturals has a least element: the minimal counterexample of the *)
(* two lemmas below.                                                        *)
LEMMA Least ==
    ASSUME NEW T \in SUBSET Nat, T # {}
    PROVE  \E n \in T : \A m \in T : n <= m
  <1>1. PICK n \in T : \A m \in T : <<m, n>> \notin OpToRel(<, Nat)
    BY NatLessThanWellFounded, WFMin
  <1>2. \A m \in T : ~(m < n)
    BY <1>1 DEF OpToRel
  <1> QED BY <1>2

(* The recursion of Assign has a solution for every length.                 *)
LEMMA ScanExists ==
    ASSUME NEW vecs, NEW x, NEW len \in Nat
    PROVE  \E b : IsScan(b, vecs, x, len)
  <1> DEFINE T == {n \in Nat : ~ \E b : IsScan(b, vecs, x, n)}
  <1> SUFFICES ASSUME T # {} PROVE FALSE
    OBVIOUS
  <1>1. PICK k \in T : \A m \in T : k <= m
    BY Least
  <1>2. CASE k = 0
    <2>1. IsScan([n \in 0 .. 0 |-> 1], vecs, x, 0)
      BY DEF IsScan
    <2> QED BY <1>2, <2>1
  <1>3. CASE k # 0
    <2>1. k - 1 \in Nat /\ k - 1 \notin T
      BY <1>1, <1>3
    <2>2. PICK b : IsScan(b, vecs, x, k - 1)
      BY <2>1
    <2> DEFINE c == [n \in 0 .. k |->
                        IF n = 0 THEN 1
                        ELSE IF vecs[n] * x > vecs[b[n - 1]] * x THEN n
                        ELSE b[n - 1]]
    <2>3. \A n \in 0 .. k - 1 : c[n] = b[n]
      BY <2>1, <2>2 DEF IsScan
    <2>4. \A n \in 0 .. k : n # 0 => n - 1 \in 0 .. k - 1
      BY <2>1
    <2>5. IsScan(c, vecs, x, k)
      BY <2>3, <2>4 DEF IsScan
    <2> QED BY <2>5
  <1> QED BY <1>2, <1>3

(* Its solutions pick the nearest of the first n, the lowest id of many.    *)
LEMMA ScanIsNearest ==
    ASSUME NEW vecs \in Seq(Int), vecs # <<>>, NEW x \in Int,
           NEW b, IsScan(b, vecs, x, Len(vecs))
    PROVE  IsNearest(b[Len(vecs)] - 1, vecs, x)
  <1> DEFINE s == [i \in DOMAIN vecs |-> vecs[i] * x]
             P(n) == /\ b[n] \in DOMAIN vecs
                     /\ b[n] <= IF n = 0 THEN 1 ELSE n
                     /\ \A i \in 1 .. n :
                           /\ s[i] <= s[b[n]]
                           /\ i < b[n] => s[i] < s[b[n]]
             T == {n \in 0 .. Len(vecs) : ~P(n)}
  <1>1. DOMAIN vecs = 1 .. Len(vecs) /\ Len(vecs) \in Nat \ {0}
    OBVIOUS
  <1>2. s \in [1 .. Len(vecs) -> Int]
    <2>1. \A i \in DOMAIN vecs : vecs[i] * x \in Int
      BY <1>1
    <2> QED BY <1>1, <2>1
  <1>3. b[0] = 1
    BY <1>1 DEF IsScan
  <1>4. \A n \in 1 .. Len(vecs) :
           b[n - 1] \in DOMAIN vecs =>
              b[n] = IF s[n] > s[b[n - 1]] THEN n ELSE b[n - 1]
    <2> SUFFICES ASSUME NEW n \in 1 .. Len(vecs),
                        b[n - 1] \in DOMAIN vecs
                 PROVE  b[n] = IF s[n] > s[b[n - 1]] THEN n ELSE b[n - 1]
      OBVIOUS
    <2>1. n \in 0 .. Len(vecs) /\ n # 0 /\ n \in DOMAIN vecs
      BY <1>1
    <2>2. b[n] = IF vecs[n] * x > vecs[b[n - 1]] * x THEN n ELSE b[n - 1]
      BY <2>1 DEF IsScan
    <2>3. s[n] = vecs[n] * x /\ s[b[n - 1]] = vecs[b[n - 1]] * x
      BY <2>1
    <2> QED BY <2>2, <2>3
  <1> HIDE DEF s
  <1>5. P(0)
    BY <1>1, <1>3
  <1>6. ASSUME NEW n \in 1 .. Len(vecs), P(n - 1)
        PROVE  P(n)
    <2>1. b[n] = IF s[n] > s[b[n - 1]] THEN n ELSE b[n - 1]
      BY <1>4, <1>6
    <2>2. CASE s[n] > s[b[n - 1]]
      <3>1. b[n] = n
        BY <2>1, <2>2
      <3>2. \A i \in 1 .. n : i < n => s[i] < s[n]
        <4> SUFFICES ASSUME NEW i \in 1 .. n, i < n
                     PROVE  s[i] < s[n]
          OBVIOUS
        <4>1. s[i] <= s[b[n - 1]]
          BY <1>1, <1>6
        <4>2. b[n - 1] \in 1 .. Len(vecs) /\ i \in 1 .. Len(vecs)
          BY <1>1, <1>6
        <4>3. s[i] \in Int /\ s[n] \in Int /\ s[b[n - 1]] \in Int
          BY <1>2, <4>2
        <4> QED BY <2>2, <4>1, <4>3
      <3>3. \A i \in 1 .. n : s[i] <= s[n]
        <4> SUFFICES ASSUME NEW i \in 1 .. n
                     PROVE  s[i] <= s[n]
          OBVIOUS
        <4>1. s[i] \in Int /\ s[n] \in Int
          BY <1>1, <1>2
        <4>2. i = n \/ i < n
          OBVIOUS
        <4> QED BY <3>2, <4>1, <4>2
      <3> QED BY <1>1, <3>1, <3>2, <3>3
    <2>3. CASE ~(s[n] > s[b[n - 1]])
      BY <1>1, <1>2, <1>6, <2>1, <2>3
    <2> QED BY <2>2, <2>3
  <1>7. T = {}
    <2> SUFFICES ASSUME T # {} PROVE FALSE
      OBVIOUS
    <2> HIDE DEF P
    <2>1. T \in SUBSET Nat
      BY <1>1
    <2>2. PICK k \in T : \A m \in T : k <= m
      BY <2>1, Least
    <2>3. k # 0
      BY <1>5
    <2>4. k \in 1 .. Len(vecs) /\ k - 1 \in 0 .. Len(vecs) /\ ~(k <= k - 1)
      BY <1>1, <2>2, <2>3
    <2> QED BY <1>6, <2>2, <2>4
  <1>8. P(Len(vecs))
    BY <1>1, <1>7
  <1>9. \A i \in DOMAIN vecs : s[i] = vecs[i] * x
    BY DEF s
  <1>10. b[Len(vecs)] - 1 + 1 = b[Len(vecs)]
    BY <1>1, <1>8
  <1> QED BY <1>1, <1>8, <1>9, <1>10 DEF IsNearest

(* Assign returns the nearest centroid.                                     *)
LEMMA AssignIsNearest ==
    ASSUME NEW vecs \in Seq(Int), vecs # <<>>, NEW x \in Int
    PROVE  IsNearest(Assign(vecs, x), vecs, x)
  <1> DEFINE b == CHOOSE best : IsScan(best, vecs, x, Len(vecs))
  <1>1. IsScan(b, vecs, x, Len(vecs))
    BY ScanExists
  <1>2. Assign(vecs, x) = b[Len(vecs)] - 1
    BY DEF Assign, IsScan
  <1> HIDE DEF b
  <1> QED BY <1>1, <1>2, ScanIsNearest

-----------------------------------------------------------------------------
(* Load returns a sound file as it is, and else nothing.                    *)
LEMMA LoadSound ==
    ASSUME NEW d
    PROVE  /\ d \in Sound => Load(d) = d
           /\ d \notin Sound => Load(d) = NoSet
  BY DEF Load, Sound

(* A sound set has vectors, and all of them are well-formed.                *)
LEMMA SoundVectors ==
    ASSUME NEW s \in Sound
    PROVE  s.vecs \in Seq(Int) /\ s.vecs # <<>>
  <1>1. s.vecs \in Seq(Vectors \union {Short}) /\ s.vecs # <<>>
    BY DEF Sound, CentroidSet, Validate
  <1>2. \A i \in 1 .. Len(s.vecs) : s.vecs[i] \in Vectors
    <2>1. \A i \in DOMAIN s.vecs : s.vecs[i] # Short
      BY DEF Sound, Validate
    <2> QED BY <1>1, <2>1
  <1>3. \A i \in 1 .. Len(s.vecs) : s.vecs[i] \in Int
    BY <1>2, CentroidsAssumption
  <1> QED BY <1>1, <1>3

(* No set: neither is the absence of one, nor a broken file.                *)
LEMMA NoSetIsNone == NoSet \notin Sound /\ Garbage \notin Sound
  BY CentroidsAssumption DEF Sound

(* A header without vectors is a set.                                       *)
LEMMA HeaderSet ==
    ASSUME NEW h \in Headers
    PROVE  [version |-> h.version, sized |-> h.sized,
            preset |-> h.preset, vecs |-> <<>>] \in CentroidSet
  <1>1. h \in [version : Tags, sized : BOOLEAN, preset : Presets]
    BY CentroidsAssumption
  <1>2. <<>> \in Seq(Vectors \union {Short})
    OBVIOUS
  <1> QED BY <1>1, <1>2 DEF CentroidSet

(* A set stays one when a vector is appended.                               *)
LEMMA AppendSet ==
    ASSUME NEW s \in CentroidSet, NEW v \in Vectors \union {Short}
    PROVE  [s EXCEPT !.vecs = Append(@, v)] \in CentroidSet
  <1>1. Append(s.vecs, v) \in Seq(Vectors \union {Short})
    BY DEF CentroidSet
  <1> QED BY <1>1 DEF CentroidSet

(* A set stays one when a vector of it is damaged.                          *)
LEMMA FlipSet ==
    ASSUME NEW s \in CentroidSet, NEW i \in DOMAIN s.vecs, NEW v \in Vectors
    PROVE  [s EXCEPT !.vecs[i] = v] \in CentroidSet
  <1>1. [s.vecs EXCEPT ![i] = v] \in Seq(Vectors \union {Short})
    BY DEF CentroidSet
  <1> QED BY <1>1 DEF CentroidSet

(* The content hash pins a set that was pushed with its preset: damage that *)
(* goes unseen is in a legacy set, or changed nothing.                      *)
LEMMA DamageIsSeen ==
    ASSUME NEW s \in Sound, NEW i \in DOMAIN s.vecs, NEW v \in Vectors,
           [s EXCEPT !.vecs[i] = v] \in Sound
    PROVE  \/ s \in Legacy /\ [s EXCEPT !.vecs[i] = v] \in Legacy
           \/ [s EXCEPT !.vecs[i] = v] = s
  <1> DEFINE t == [s EXCEPT !.vecs[i] = v]
  <1>1. s \in CentroidSet /\ VerifyVersion(s) /\ VerifyVersion(t)
    BY DEF Sound
  <1>2. t.preset = s.preset /\ t.version = s.version
    BY <1>1 DEF CentroidSet
  <1>3. CASE s.preset = NoPreset
    BY <1>2, <1>3 DEF Legacy
  <1>4. CASE s.preset # NoPreset
    <2>1. t.vecs = s.vecs
      BY <1>1, <1>2, <1>4 DEF VerifyVersion, ComputeVersion
    <2>2. t.vecs = [s.vecs EXCEPT ![i] = v]
      BY <1>1 DEF CentroidSet
    <2>3. t = [s EXCEPT !.vecs = t.vecs]
      BY <2>2
    <2> QED BY <1>1, <2>1, <2>3 DEF CentroidSet
  <1> QED BY <1>3, <1>4

-----------------------------------------------------------------------------
(* Every step keeps the types.                                              *)
LEMMA TypeStep ==
    ASSUME TypeOK, SoundInv, [Next]_vars
    PROVE  TypeOK'
  <1>1. ASSUME NEW p \in Pushers, OpenStream(p)
        PROVE  TypeOK'
    BY <1>1 DEF OpenStream, Move, routes, history, TypeOK, Stages, Installing
  <1>2. ASSUME NEW p \in Pushers, NEW h \in Headers, RecvHeader(p, h)
        PROVE  TypeOK'
    <2> DEFINE s == [version |-> h.version, sized |-> h.sized,
                     preset |-> h.preset, vecs |-> <<>>]
    <2>1. s \in CentroidSet
      BY <1>2, HeaderSet
    <2>2. CASE cs[p] # NoSet
      BY <1>2, <2>2 DEF RecvHeader, Return, routes, history, TypeOK, Stages,
        Installing
    <2>3. CASE cs[p] = NoSet
      <3>1. cs' = [cs EXCEPT ![p] = s]
        BY <1>2, <2>3 DEF RecvHeader
      <3> HIDE DEF s
      <3> QED BY <1>2, <2>1, <2>3, <3>1 DEF RecvHeader, routes, history,
        TypeOK, Stages, Installing
    <2> QED BY <2>2, <2>3
  <1>3. ASSUME NEW p \in Pushers, NEW v \in Vectors \union {Short},
               RecvVector(p, v)
        PROVE  TypeOK'
    <2>1. CASE cs[p] = NoSet
      BY <1>3, <2>1 DEF RecvVector, Return, routes, history, TypeOK, Stages,
        Installing
    <2>2. CASE cs[p] # NoSet
      <3>1. cs' = [cs EXCEPT ![p] = [cs[p] EXCEPT !.vecs = Append(@, v)]]
        BY <1>3, <2>2 DEF RecvVector
      <3>2. [cs[p] EXCEPT !.vecs = Append(@, v)] \in CentroidSet
        BY <1>3, <2>2, AppendSet DEF TypeOK
      <3> DEFINE s == [cs[p] EXCEPT !.vecs = Append(@, v)]
      <3> HIDE DEF s
      <3>3. cs' = [cs EXCEPT ![p] = s] /\ s \in CentroidSet
        BY <3>1, <3>2 DEF s
      <3> QED BY <1>3, <2>2, <3>3 DEF RecvVector, routes, history, TypeOK,
        Stages, Installing
    <2> QED BY <2>1, <2>2
  <1>4. ASSUME NEW p \in Pushers, RecvError(p)
        PROVE  TypeOK'
    BY <1>4 DEF RecvError, Return, routes, history, TypeOK, Stages, Installing
  <1>5. ASSUME NEW p \in Pushers, RecvEnd(p)
        PROVE  TypeOK'
    BY <1>5 DEF RecvEnd, Return, routes, history, TypeOK, Stages, Installing
  <1>6. ASSUME NEW p \in Pushers, Install(p)
        PROVE  TypeOK'
    BY <1>6 DEF Install, Move, routes, TypeOK, Stages, Installing
  <1>7. ASSUME NEW p \in Pushers, PersistWrite(p)
        PROVE  TypeOK'
    BY <1>7 DEF PersistWrite, Move, routes, history, TypeOK, Stages, Installing
  <1>8. ASSUME NEW p \in Pushers, PersistRename(p)
        PROVE  TypeOK'
    BY <1>8 DEF PersistRename, Move, routes, TypeOK, Stages, Installing
  <1>9. ASSUME NEW p \in Pushers, PersistFails(p)
        PROVE  TypeOK'
    BY <1>9 DEF PersistFails, routes, history, TypeOK, Stages, Installing
  <1>10. ASSUME NEW p \in Pushers, Unlock(p)
        PROVE  TypeOK'
    BY <1>10 DEF Unlock, Return, routes, history, TypeOK, Stages, Installing
  <1>11. ASSUME NEW q \in Routers, RouteStart(q)
        PROVE  TypeOK'
    BY <1>11 DEF RouteStart, pushes, history, TypeOK
  <1>12. ASSUME NEW q \in Routers, NEW x \in Vectors, RouteAnswer(q, x)
        PROVE  TypeOK'
    BY <1>12 DEF RouteAnswer, RouteEnds, pushes, history, TypeOK
  <1>13. ASSUME NEW q \in Routers, RouteFails(q)
        PROVE  TypeOK'
    BY <1>13 DEF RouteFails, RouteEnds, pushes, history, TypeOK
  <1>14. CASE Crash
    BY <1>14 DEF Crash, history, TypeOK, Stages, Installing
  <1>15. CASE Boot
    <2>1. Load(disk) \in CentroidSet \union {NoSet}
      BY DEF Load
    <2> QED BY <1>15, <2>1 DEF Boot, pushes, routes, TypeOK
  <1>16. CASE Rot
    <2>1. disk' \in CentroidSet \union {Garbage}
      <3>1. CASE disk' = Garbage
        BY <3>1
      <3>2. CASE \E i \in DOMAIN disk.vecs, v \in Vectors :
                   disk' = [disk EXCEPT !.vecs[i] = v]
        <4>1. disk \in CentroidSet
          BY <1>16, NoSetIsNone DEF Rot, SoundInv, Sound
        <4> QED BY <3>2, <4>1, FlipSet
      <3> QED BY <1>16, <3>1, <3>2 DEF Rot
    <2> QED BY <1>16, <2>1 DEF Rot, pushes, routes, TypeOK
  <1>17. CASE UNCHANGED vars
    BY <1>17 DEF vars, pushes, routes, history, TypeOK
  <1> QED BY <1>1, <1>2, <1>3, <1>4, <1>5, <1>6, <1>7, <1>8, <1>9, <1>10,
    <1>11, <1>12, <1>13, <1>14, <1>15, <1>16, <1>17 DEF Next, PushStep

(* Every step keeps the lock discipline.                                    *)
LEMMA LockStep ==
    ASSUME TypeOK, LockInv, [Next]_vars
    PROVE  LockInv'
  <1>1. ASSUME NEW p \in Pushers, OpenStream(p)
        PROVE  LockInv'
    BY <1>1 DEF OpenStream, Move, routes, history, TypeOK, LockInv, Stages,
      Installing
  <1>2. ASSUME NEW p \in Pushers, NEW h \in Headers, RecvHeader(p, h)
        PROVE  LockInv'
    BY <1>2 DEF RecvHeader, Return, routes, history, TypeOK, LockInv,
      Stages, Installing
  <1>3. ASSUME NEW p \in Pushers, NEW v \in Vectors \union {Short},
               RecvVector(p, v)
        PROVE  LockInv'
    BY <1>3 DEF RecvVector, Return, routes, history, TypeOK, LockInv,
      Stages, Installing
  <1>4. ASSUME NEW p \in Pushers, RecvError(p)
        PROVE  LockInv'
    BY <1>4 DEF RecvError, Return, routes, history, TypeOK, LockInv, Stages,
      Installing
  <1>5. ASSUME NEW p \in Pushers, RecvEnd(p)
        PROVE  LockInv'
    BY <1>5 DEF RecvEnd, Return, routes, history, TypeOK, LockInv, Stages,
      Installing
  <1>6. ASSUME NEW p \in Pushers, Install(p)
        PROVE  LockInv'
    BY <1>6, CentroidsAssumption DEF Install, Move, routes, TypeOK, LockInv,
      Stages, Installing
  <1>7. ASSUME NEW p \in Pushers, PersistWrite(p)
        PROVE  LockInv'
    BY <1>7 DEF PersistWrite, Move, routes, history, TypeOK, LockInv,
      Stages, Installing
  <1>8. ASSUME NEW p \in Pushers, PersistRename(p)
        PROVE  LockInv'
    BY <1>8 DEF PersistRename, Move, routes, TypeOK, LockInv, Stages,
      Installing
  <1>9. ASSUME NEW p \in Pushers, PersistFails(p)
        PROVE  LockInv'
    BY <1>9 DEF PersistFails, routes, history, TypeOK, LockInv, Stages,
      Installing
  <1>10. ASSUME NEW p \in Pushers, Unlock(p)
        PROVE  LockInv'
    BY <1>10, CentroidsAssumption DEF Unlock, Return, routes, history,
      TypeOK, LockInv, Stages, Installing
  <1>11. ASSUME NEW q \in Routers, RouteStart(q)
        PROVE  LockInv'
    BY <1>11 DEF RouteStart, pushes, history, TypeOK, LockInv, Stages,
      Installing
  <1>12. ASSUME NEW q \in Routers, NEW x \in Vectors, RouteAnswer(q, x)
        PROVE  LockInv'
    BY <1>12 DEF RouteAnswer, RouteEnds, pushes, history, TypeOK, LockInv,
      Stages, Installing
  <1>13. ASSUME NEW q \in Routers, RouteFails(q)
        PROVE  LockInv'
    BY <1>13 DEF RouteFails, RouteEnds, pushes, history, TypeOK, LockInv,
      Stages, Installing
  <1>14. CASE Crash
    BY <1>14, CentroidsAssumption DEF Crash, history, TypeOK, LockInv,
      Stages, Installing
  <1>15. CASE Boot
    BY <1>15 DEF Boot, pushes, routes, TypeOK, LockInv, Stages, Installing
  <1>16. CASE Rot
    BY <1>16 DEF Rot, pushes, routes, TypeOK, LockInv, Stages, Installing
  <1>17. CASE UNCHANGED vars
    BY <1>17 DEF vars, pushes, routes, history, TypeOK, LockInv, Stages,
      Installing
  <1> QED BY <1>1, <1>2, <1>3, <1>4, <1>5, <1>6, <1>7, <1>8, <1>9, <1>10,
    <1>11, <1>12, <1>13, <1>14, <1>15, <1>16, <1>17 DEF Next, PushStep

(* Every step keeps all sets sound: the checks at the two entries suffice.  *)
LEMMA SoundStep ==
    ASSUME TypeOK, LockInv, SoundInv, [Next]_vars
    PROVE  SoundInv'
  <1>1. ASSUME NEW p \in Pushers, OpenStream(p)
        PROVE  SoundInv'
    BY <1>1 DEF OpenStream, Move, routes, history, TypeOK, LockInv,
      SoundInv, Installing
  <1>2. ASSUME NEW p \in Pushers, NEW h \in Headers, RecvHeader(p, h)
        PROVE  SoundInv'
    BY <1>2 DEF RecvHeader, Return, routes, history, TypeOK, LockInv,
      SoundInv, Installing
  <1>3. ASSUME NEW p \in Pushers, NEW v \in Vectors \union {Short},
               RecvVector(p, v)
        PROVE  SoundInv'
    BY <1>3 DEF RecvVector, Return, routes, history, TypeOK, LockInv,
      SoundInv, Installing
  <1>4. ASSUME NEW p \in Pushers, RecvError(p)
        PROVE  SoundInv'
    BY <1>4 DEF RecvError, Return, routes, history, TypeOK, LockInv,
      SoundInv, Installing
  <1>5. ASSUME NEW p \in Pushers, RecvEnd(p)
        PROVE  SoundInv'
    <2>1. CASE cs[p] # NoSet /\ Validate(cs[p]) /\ VerifyVersion(cs[p])
      <3>1. cs[p] \in Sound
        BY <2>1 DEF TypeOK, Sound
      <3> QED BY <1>5, <2>1, <3>1 DEF RecvEnd, routes, history, TypeOK,
        SoundInv, Installing
    <2>2. CASE ~(cs[p] # NoSet /\ Validate(cs[p]) /\ VerifyVersion(cs[p]))
      BY <1>5, <2>2 DEF RecvEnd, Return, routes, history, TypeOK, SoundInv,
        Installing
    <2> QED BY <2>1, <2>2
  <1>6. ASSUME NEW p \in Pushers, Install(p)
        PROVE  SoundInv'
    BY <1>6 DEF Install, Move, routes, TypeOK, LockInv, SoundInv, Installing
  <1>7. ASSUME NEW p \in Pushers, PersistWrite(p)
        PROVE  SoundInv'
    BY <1>7 DEF PersistWrite, Move, routes, history, TypeOK, LockInv,
      SoundInv, Installing
  <1>8. ASSUME NEW p \in Pushers, PersistRename(p)
        PROVE  SoundInv'
    BY <1>8 DEF PersistRename, Move, routes, TypeOK, LockInv, SoundInv,
      Installing
  <1>9. ASSUME NEW p \in Pushers, PersistFails(p)
        PROVE  SoundInv'
    BY <1>9 DEF PersistFails, routes, history, TypeOK, LockInv, SoundInv,
      Installing
  <1>10. ASSUME NEW p \in Pushers, Unlock(p)
        PROVE  SoundInv'
    BY <1>10 DEF Unlock, Return, routes, history, TypeOK, LockInv, SoundInv,
      Installing
  <1>11. ASSUME NEW q \in Routers, RouteStart(q)
        PROVE  SoundInv'
    BY <1>11 DEF RouteStart, pushes, history, TypeOK, LockInv, SoundInv,
      Installing
  <1>12. ASSUME NEW q \in Routers, NEW x \in Vectors, RouteAnswer(q, x)
        PROVE  SoundInv'
    BY <1>12 DEF RouteAnswer, RouteEnds, pushes, history, TypeOK, LockInv,
      SoundInv, Installing
  <1>13. ASSUME NEW q \in Routers, RouteFails(q)
        PROVE  SoundInv'
    BY <1>13 DEF RouteFails, RouteEnds, pushes, history, TypeOK, LockInv,
      SoundInv, Installing
  <1>14. CASE Crash
    BY <1>14 DEF Crash, history, TypeOK, LockInv, SoundInv, Installing
  <1>15. CASE Boot
    <2>1. memory' # NoSet => memory' \in Sound
      BY <1>15, LoadSound DEF Boot
    <2> QED BY <1>15, <2>1 DEF Boot, pushes, routes, SoundInv
  <1>16. CASE Rot
    BY <1>16 DEF Rot, pushes, routes, SoundInv
  <1>17. CASE UNCHANGED vars
    BY <1>17 DEF vars, pushes, routes, history, TypeOK, LockInv, SoundInv,
      Installing
  <1> QED BY <1>1, <1>2, <1>3, <1>4, <1>5, <1>6, <1>7, <1>8, <1>9, <1>10,
    <1>11, <1>12, <1>13, <1>14, <1>15, <1>16, <1>17 DEF Next, PushStep

(* Every step keeps memory and cache together: the lock makes the two       *)
(* stores of a push one.                                                    *)
LEMMA CacheStep ==
    ASSUME TypeOK, LockInv, SoundInv, CacheInv, [Next]_vars
    PROVE  CacheInv'
  <1>1. ASSUME NEW p \in Pushers, OpenStream(p)
        PROVE  CacheInv'
    BY <1>1 DEF OpenStream, history, CacheInv, Load
  <1>2. ASSUME NEW p \in Pushers, NEW h \in Headers, RecvHeader(p, h)
        PROVE  CacheInv'
    BY <1>2 DEF RecvHeader, history, CacheInv, Load
  <1>3. ASSUME NEW p \in Pushers, NEW v \in Vectors \union {Short},
               RecvVector(p, v)
        PROVE  CacheInv'
    BY <1>3 DEF RecvVector, history, CacheInv, Load
  <1>4. ASSUME NEW p \in Pushers, RecvError(p)
        PROVE  CacheInv'
    BY <1>4 DEF RecvError, history, CacheInv, Load
  <1>5. ASSUME NEW p \in Pushers, RecvEnd(p)
        PROVE  CacheInv'
    BY <1>5 DEF RecvEnd, history, CacheInv, Load
  <1>6. ASSUME NEW p \in Pushers, Install(p)
        PROVE  CacheInv'
    BY <1>6 DEF Install, CacheInv, Load
  <1>7. ASSUME NEW p \in Pushers, PersistWrite(p)
        PROVE  CacheInv'
    BY <1>7 DEF PersistWrite, history, CacheInv, Load
  <1>8. ASSUME NEW p \in Pushers, PersistRename(p)
        PROVE  CacheInv'
    <2>1. cs[p] \in Sound /\ memory = cs[p]
      BY <1>8 DEF PersistRename, Move, LockInv, SoundInv, Installing
    <2> QED BY <1>8, <2>1, LoadSound DEF PersistRename, CacheInv
  <1>9. ASSUME NEW p \in Pushers, PersistFails(p)
        PROVE  CacheInv'
    BY <1>9 DEF PersistFails, history, CacheInv, Load
  <1>10. ASSUME NEW p \in Pushers, Unlock(p)
        PROVE  CacheInv'
    BY <1>10 DEF Unlock, history, CacheInv, Load
  <1>11. ASSUME NEW q \in Routers, RouteStart(q)
        PROVE  CacheInv'
    BY <1>11 DEF RouteStart, history, CacheInv, Load
  <1>12. ASSUME NEW q \in Routers, NEW x \in Vectors, RouteAnswer(q, x)
        PROVE  CacheInv'
    BY <1>12 DEF RouteAnswer, RouteEnds, history, CacheInv, Load
  <1>13. ASSUME NEW q \in Routers, RouteFails(q)
        PROVE  CacheInv'
    BY <1>13 DEF RouteFails, RouteEnds, history, CacheInv, Load
  <1>14. CASE Crash
    BY <1>14 DEF Crash, CacheInv, Load
  <1>15. CASE Boot
    BY <1>15 DEF Boot, CacheInv, Load
  <1>16. CASE Rot
    BY <1>16 DEF Rot, CacheInv, Load
  <1>17. CASE UNCHANGED vars
    BY <1>17 DEF vars, history, CacheInv, Load
  <1> QED BY <1>1, <1>2, <1>3, <1>4, <1>5, <1>6, <1>7, <1>8, <1>9, <1>10,
    <1>11, <1>12, <1>13, <1>14, <1>15, <1>16, <1>17 DEF Next, PushStep

(* Every step keeps answers true to their version: the snapshot is sound.   *)
LEMMA AnswerStep ==
    ASSUME TypeOK, SoundInv, AnswersOnOneSet, [Next]_vars
    PROVE  AnswersOnOneSet'
  <1>1. ASSUME NEW p \in Pushers, OpenStream(p)
        PROVE  AnswersOnOneSet'
    BY <1>1 DEF OpenStream, routes, AnswersOnOneSet
  <1>2. ASSUME NEW p \in Pushers, NEW h \in Headers, RecvHeader(p, h)
        PROVE  AnswersOnOneSet'
    BY <1>2 DEF RecvHeader, routes, AnswersOnOneSet
  <1>3. ASSUME NEW p \in Pushers, NEW v \in Vectors \union {Short},
               RecvVector(p, v)
        PROVE  AnswersOnOneSet'
    BY <1>3 DEF RecvVector, routes, AnswersOnOneSet
  <1>4. ASSUME NEW p \in Pushers, RecvError(p)
        PROVE  AnswersOnOneSet'
    BY <1>4 DEF RecvError, routes, AnswersOnOneSet
  <1>5. ASSUME NEW p \in Pushers, RecvEnd(p)
        PROVE  AnswersOnOneSet'
    BY <1>5 DEF RecvEnd, routes, AnswersOnOneSet
  <1>6. ASSUME NEW p \in Pushers, Install(p)
        PROVE  AnswersOnOneSet'
    BY <1>6 DEF Install, routes, AnswersOnOneSet
  <1>7. ASSUME NEW p \in Pushers, PersistWrite(p)
        PROVE  AnswersOnOneSet'
    BY <1>7 DEF PersistWrite, routes, AnswersOnOneSet
  <1>8. ASSUME NEW p \in Pushers, PersistRename(p)
        PROVE  AnswersOnOneSet'
    BY <1>8 DEF PersistRename, routes, AnswersOnOneSet
  <1>9. ASSUME NEW p \in Pushers, PersistFails(p)
        PROVE  AnswersOnOneSet'
    BY <1>9 DEF PersistFails, routes, AnswersOnOneSet
  <1>10. ASSUME NEW p \in Pushers, Unlock(p)
        PROVE  AnswersOnOneSet'
    BY <1>10 DEF Unlock, routes, AnswersOnOneSet
  <1>11. ASSUME NEW q \in Routers, RouteStart(q)
        PROVE  AnswersOnOneSet'
    BY <1>11 DEF RouteStart, AnswersOnOneSet
  <1>12. ASSUME NEW q \in Routers, NEW x \in Vectors, RouteAnswer(q, x)
        PROVE  AnswersOnOneSet'
    <2> DEFINE a == [version |-> held[q].version, preset |-> held[q].preset,
                     query |-> x, cluster |-> Assign(held[q].vecs, x)]
    <2>1. answer' = [answer EXCEPT ![q] = a]
      BY <1>12 DEF RouteAnswer
    <2>2. held[q] \in Sound
      BY <1>12 DEF RouteAnswer, RouteEnds, SoundInv
    <2>3. held[q].preset # NoPreset => held[q].version[2] = held[q].vecs
      BY <2>2 DEF Sound, VerifyVersion, ComputeVersion
    <2>4. IsNearest(Assign(held[q].vecs, x), held[q].vecs, x)
      BY <2>2, SoundVectors, AssignIsNearest, CentroidsAssumption
    <2>5. a.preset # NoPreset => IsNearest(a.cluster, a.version[2], a.query)
      BY <2>3, <2>4
    <2> HIDE DEF a
    <2> QED BY <2>1, <2>5 DEF TypeOK, AnswersOnOneSet
  <1>13. ASSUME NEW q \in Routers, RouteFails(q)
        PROVE  AnswersOnOneSet'
    BY <1>13 DEF RouteFails, AnswersOnOneSet
  <1>14. CASE Crash
    BY <1>14 DEF Crash, AnswersOnOneSet
  <1>15. CASE Boot
    BY <1>15 DEF Boot, routes, AnswersOnOneSet
  <1>16. CASE Rot
    BY <1>16 DEF Rot, routes, AnswersOnOneSet
  <1>17. CASE UNCHANGED vars
    BY <1>17 DEF vars, routes, AnswersOnOneSet
  <1> QED BY <1>1, <1>2, <1>3, <1>4, <1>5, <1>6, <1>7, <1>8, <1>9, <1>10,
    <1>11, <1>12, <1>13, <1>14, <1>15, <1>16, <1>17 DEF Next, PushStep

(* The daemon starts with the invariant.                                    *)
LEMMA InitIInv == Init => IInv
  <1> SUFFICES ASSUME Init PROVE IInv
    OBVIOUS
  <1>1. TypeOK
    BY DEF Init, TypeOK, Stages, Installing
  <1>2. LockInv
    BY CentroidsAssumption DEF Init, LockInv
  <1>3. SoundInv
    BY DEF Init, SoundInv, Installing
  <1>4. CacheInv
    BY DEF Init, CacheInv
  <1>5. AnswersOnOneSet
    BY DEF Init, AnswersOnOneSet, NoAnswer
  <1> QED BY <1>1, <1>2, <1>3, <1>4, <1>5 DEF IInv

(* The invariant holds in every reachable state.                            *)
THEOREM Invariant == Spec => []IInv
  <1>1. IInv /\ [Next]_vars => IInv'
    BY TypeStep, LockStep, SoundStep, CacheStep, AnswerStep DEF IInv
  <1> QED BY InitIInv, <1>1, PTL DEF Spec

(* All variables have their types, and no nil set is dereferenced.          *)
THEOREM TypeCorrect == Spec => []TypeOK
  <1>1. IInv => TypeOK
    BY DEF IInv
  <1> QED BY Invariant, <1>1, PTL

(* A set that is not what its version says is never served.                 *)
THEOREM ServedSetsAreVerified == Spec => []VerifiedSets
  <1>1. IInv => VerifiedSets
    BY DEF IInv, SoundInv, VerifiedSets
  <1> QED BY Invariant, <1>1, PTL

(* However pushes race, a restart serves what was served before it.         *)
THEOREM RestartKeepsTheSet == Spec => []RestartServesCurrent
  <1>1. IInv => RestartServesCurrent
    BY DEF IInv, CacheInv, RestartServesCurrent
  <1> QED BY Invariant, <1>1, PTL

(* Persist never leaves a half-cache.                                       *)
THEOREM NoHalfCache == Spec => []CacheIsWhole
  <1>1. IInv => CacheIsWhole
    BY LoadSound DEF IInv, SoundInv, CacheIsWhole
  <1> QED BY Invariant, <1>1, PTL

(* A routed answer is the nearest centroid of the set whose version it      *)
(* carries, whatever was pushed during the forward pass.                    *)
THEOREM AnswersAreNearest == Spec => []AnswersOnOneSet
  <1>1. IInv => AnswersOnOneSet
    BY DEF IInv
  <1> QED BY Invariant, <1>1, PTL

-----------------------------------------------------------------------------
(* Every step is a step of the abstract index, or leaves it alone.          *)
LEMMA IndexStep ==
    ASSUME IInv, [Next]_vars
    PROVE  [Index!Next]_<<memory, Load(disk)>>
  <1>1. ASSUME NEW p \in Pushers, OpenStream(p)
        PROVE  [Index!Next]_<<memory, Load(disk)>>
    BY <1>1 DEF OpenStream, Load
  <1>2. ASSUME NEW p \in Pushers, NEW h \in Headers, RecvHeader(p, h)
        PROVE  [Index!Next]_<<memory, Load(disk)>>
    BY <1>2 DEF RecvHeader, Load
  <1>3. ASSUME NEW p \in Pushers, NEW v \in Vectors \union {Short},
               RecvVector(p, v)
        PROVE  [Index!Next]_<<memory, Load(disk)>>
    BY <1>3 DEF RecvVector, Load
  <1>4. ASSUME NEW p \in Pushers, RecvError(p)
        PROVE  [Index!Next]_<<memory, Load(disk)>>
    BY <1>4 DEF RecvError, Load
  <1>5. ASSUME NEW p \in Pushers, RecvEnd(p)
        PROVE  [Index!Next]_<<memory, Load(disk)>>
    BY <1>5 DEF RecvEnd, Load
  <1>6. ASSUME NEW p \in Pushers, Install(p)
        PROVE  [Index!Next]_<<memory, Load(disk)>>
    <2>1. cs[p] \in Sound
      BY <1>6 DEF Install, Move, IInv, SoundInv, Installing
    <2>2. Index!Install
      BY <1>6, <2>1 DEF Install, Index!Install, Load
    <2> QED BY <2>2 DEF Index!Next
  <1>7. ASSUME NEW p \in Pushers, PersistWrite(p)
        PROVE  [Index!Next]_<<memory, Load(disk)>>
    BY <1>7 DEF PersistWrite, Load
  <1>8. ASSUME NEW p \in Pushers, PersistRename(p)
        PROVE  [Index!Next]_<<memory, Load(disk)>>
    <2>1. cs[p] \in Sound /\ memory = cs[p]
      BY <1>8 DEF PersistRename, Move, IInv, LockInv, SoundInv, Installing
    <2>2. Index!Save
      BY <1>8, <2>1, LoadSound DEF PersistRename, Index!Save
    <2> QED BY <2>2 DEF Index!Next
  <1>9. ASSUME NEW p \in Pushers, PersistFails(p)
        PROVE  [Index!Next]_<<memory, Load(disk)>>
    BY <1>9 DEF PersistFails, Load
  <1>10. ASSUME NEW p \in Pushers, Unlock(p)
        PROVE  [Index!Next]_<<memory, Load(disk)>>
    BY <1>10 DEF Unlock, Load
  <1>11. ASSUME NEW q \in Routers, RouteStart(q)
        PROVE  [Index!Next]_<<memory, Load(disk)>>
    BY <1>11 DEF RouteStart, Load
  <1>12. ASSUME NEW q \in Routers, NEW x \in Vectors, RouteAnswer(q, x)
        PROVE  [Index!Next]_<<memory, Load(disk)>>
    BY <1>12 DEF RouteAnswer, RouteEnds, Load
  <1>13. ASSUME NEW q \in Routers, RouteFails(q)
        PROVE  [Index!Next]_<<memory, Load(disk)>>
    BY <1>13 DEF RouteFails, RouteEnds, Load
  <1>14. CASE Crash
    <2>1. Index!Crash
      BY <1>14 DEF Crash, Index!Crash, Load
    <2> QED BY <2>1 DEF Index!Next
  <1>15. CASE Boot
    <2>1. Index!Restart
      BY <1>15 DEF Boot, Index!Restart, Load, IInv, LockInv
    <2> QED BY <2>1 DEF Index!Next
  <1>16. CASE Rot
    <2>1. disk \in Sound /\ memory' = memory
      BY <1>16 DEF Rot, IInv, SoundInv
    <2>2. CASE disk' \notin Sound
      <3>1. Index!Spoil
        BY <2>1, <2>2, LoadSound DEF Index!Spoil
      <3> QED BY <3>1 DEF Index!Next
    <2>3. CASE disk' \in Sound
      <3>1. PICK i \in DOMAIN disk.vecs, v \in Vectors :
                   disk' = [disk EXCEPT !.vecs[i] = v]
        BY <1>16, <2>3, NoSetIsNone DEF Rot
      <3>2. (disk \in Legacy /\ disk' \in Legacy) \/ disk' = disk
        BY <2>1, <2>3, <3>1, DamageIsSeen
      <3>3. Load(disk) = disk /\ Load(disk') = disk'
        BY <2>1, <2>3, LoadSound
      <3>4. Index!Spoil \/ UNCHANGED <<memory, Load(disk)>>
        BY <2>1, <3>2, <3>3 DEF Index!Spoil
      <3> QED BY <3>4 DEF Index!Next
    <2> QED BY <2>2, <2>3
  <1>17. CASE UNCHANGED vars
    BY <1>17 DEF vars, Load
  <1> QED BY <1>1, <1>2, <1>3, <1>4, <1>5, <1>6, <1>7, <1>8, <1>9, <1>10,
    <1>11, <1>12, <1>13, <1>14, <1>15, <1>16, <1>17 DEF Next, PushStep

(* Streams, locks, files and crashes implement the abstract index.          *)
THEOREM Implementation == Spec => ImplementsIndex
  <1>1. Init => Index!Init
    BY LoadSound, NoSetIsNone DEF Init, Index!Init
  <1>2. IInv /\ [Next]_vars => [Index!Next]_<<memory, Load(disk)>>
    BY IndexStep
  <1> QED BY Invariant, <1>1, <1>2, PTL DEF Spec, ImplementsIndex, Index!Spec
=============================================================================
