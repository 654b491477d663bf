--------------------------- MODULE InstallProofs ----------------------------
(***************************************************************************)
(* Proofs about Install, for any number of boots, versions, files and      *)
(* changes of the manifest.                                                *)
(***************************************************************************)
EXTENDS Install, TLAPS

(* A boot knows its version once it waits for the lock, and the licences    *)
(* are whole once an artifact may be touched.                               *)
StageInv ==
    \A b \in Boots :
        /\ pc[b] \in {"lock"} \union Locked => ver[b] \in Versions
        /\ pc[b] \in Locked \ {"licences", "licensing"} => licences = "whole"

(* A marker that nothing overtook stands for the whole tree, but for an     *)
(* executable that is missing.                                              *)
MarkerInv ==
    ~behind /\ marker \in Versions =>
        \A f \in Parts[marker] :
            tree[f] = marker \/ (f = Exec /\ tree[f] = None)

(* What a boot that extracts has extracted, and what one that is past       *)
(* llama-server has found or put in place.                                  *)
ServerInv ==
    \A b \in Boots :
        /\ pc[b] = "extract" =>
              /\ tarball = ver[b]
              /\ \A f \in Parts[ver[b]] \ todo[b] : tree[f] = ver[b]
        /\ pc[b] = "mark" => Whole(ver[b])
        /\ pc[b] \in {"model", "getmodel", "audit"}
              /\ "llama_server" \in needs[b] => Whole(ver[b]) \/ b \in misled

(* What a boot that is past the model has found or put in place.            *)
ModelInv ==
    \A b \in Boots :
        pc[b] = "audit" /\ "model" \in needs[b] => model = ver[b]

IInv == TypeOK /\ StageInv /\ MarkerInv /\ ServerInv /\ ModelInv

-----------------------------------------------------------------------------
(* A boot that is inside the lock is alone there.                           *)
LEMMA OneInside ==
    ASSUME TypeOK, NEW b \in Boots, NEW c \in Boots,
           pc[b] \in Locked, pc[c] \in Locked
    PROVE  b = c
  BY DEF TypeOK

(* Every step keeps the types, and the lock with who is inside it.          *)
LEMMA TypeStep ==
    ASSUME TypeOK, StageInv, [Next]_vars
    PROVE  TypeOK'
  <1>1. ASSUME NEW b \in Boots, Start(b)
        PROVE  TypeOK'
    BY <1>1, InstallAssumption DEF Start, Goto, manifest, disk, history,
      progress, TypeOK, StageInv, Locked, Ended, MaxAttempts
  <1>2. ASSUME NEW b \in Boots, FetchManifest(b)
        PROVE  TypeOK'
    BY <1>2, InstallAssumption DEF FetchManifest, Goto, disk, manifest,
      history, progress, TypeOK, StageInv, Locked, Ended, MaxAttempts
  <1>3. ASSUME NEW b \in Boots,
               NEW place \in {"manifest", "getserver", "getmodel"},
               AttemptFails(b, place)
        PROVE  TypeOK'
    BY <1>3, InstallAssumption DEF AttemptFails, Leave, manifest, disk,
      TypeOK, StageInv, Locked, Ended, MaxAttempts
  <1>4. ASSUME NEW b \in Boots, AcquireLock(b)
        PROVE  TypeOK'
    BY <1>4, InstallAssumption DEF AcquireLock, Goto, manifest, disk,
      progress, history, TypeOK, StageInv, Locked, Ended, MaxAttempts
  <1>5. ASSUME NEW b \in Boots, LockTimeout(b)
        PROVE  TypeOK'
    BY <1>5, InstallAssumption DEF LockTimeout, Leave, manifest, disk,
      TypeOK, StageInv, Locked, Ended, MaxAttempts
  <1>6. ASSUME NEW b \in Boots, LicencesBegin(b)
        PROVE  TypeOK'
    BY <1>6, InstallAssumption DEF LicencesBegin, Goto, manifest, progress,
      history, TypeOK, StageInv, Locked, Ended, MaxAttempts
  <1>7. ASSUME NEW b \in Boots, LicencesEnd(b)
        PROVE  TypeOK'
    BY <1>7, InstallAssumption DEF LicencesEnd, Goto, After, manifest,
      progress, history, TypeOK, StageInv, Locked, Ended, MaxAttempts
  <1>8. ASSUME NEW b \in Boots, ServerCached(b)
        PROVE  TypeOK'
    BY <1>8, InstallAssumption DEF ServerCached, Goto, After, manifest, disk,
      progress, TypeOK, StageInv, Locked, Ended, MaxAttempts
  <1>9. ASSUME NEW b \in Boots, ServerMissing(b)
        PROVE  TypeOK'
    BY <1>9, InstallAssumption DEF ServerMissing, Goto, manifest, disk,
      progress, history, TypeOK, StageInv, Locked, Ended, MaxAttempts
  <1>10. ASSUME NEW b \in Boots, ServerDownloaded(b)
        PROVE  TypeOK'
    <2>1. pc[b] = "getserver" /\ ver[b] \in Versions
      BY <1>10 DEF ServerDownloaded, StageInv, Locked
    <2>2. CASE ver[b] \in Raw
      <3>1. behind' \in BOOLEAN
        BY <1>10, <2>2 DEF ServerDownloaded, Overtake
      <3> QED BY <1>10, <2>1, <2>2, <3>1 DEF ServerDownloaded, manifest, TypeOK,
        Locked, Ended, MaxAttempts
    <2>3. CASE ver[b] \notin Raw
      <3>1. Parts[ver[b]] \in SUBSET Files
        BY <2>1, InstallAssumption
      <3> QED BY <1>10, <2>1, <2>3, <3>1 DEF ServerDownloaded, manifest, TypeOK,
        Locked, Ended, MaxAttempts
    <2> QED BY <2>2, <2>3
  <1>11. ASSUME NEW b \in Boots, Extract(b)
        PROVE  TypeOK'
    BY <1>11, InstallAssumption DEF Extract, Overtake, manifest, TypeOK,
      StageInv, Locked, Ended, MaxAttempts
  <1>12. ASSUME NEW b \in Boots, Mark(b)
        PROVE  TypeOK'
    BY <1>12, InstallAssumption DEF Mark, Goto, After, manifest, progress,
      TypeOK, StageInv, Locked, Ended, MaxAttempts
  <1>13. ASSUME NEW b \in Boots, ModelCached(b)
        PROVE  TypeOK'
    BY <1>13, InstallAssumption DEF ModelCached, Goto, manifest, disk,
      progress, history, TypeOK, StageInv, Locked, Ended, MaxAttempts
  <1>14. ASSUME NEW b \in Boots, ModelMissing(b)
        PROVE  TypeOK'
    BY <1>14, InstallAssumption DEF ModelMissing, Goto, manifest, disk,
      progress, history, TypeOK, StageInv, Locked, Ended, MaxAttempts
  <1>15. ASSUME NEW b \in Boots, ModelDownloaded(b)
        PROVE  TypeOK'
    BY <1>15, InstallAssumption DEF ModelDownloaded, Goto, manifest, history,
      TypeOK, StageInv, Locked, Ended, MaxAttempts
  <1>16. ASSUME NEW b \in Boots, RecordInstall(b)
        PROVE  TypeOK'
    BY <1>16, InstallAssumption DEF RecordInstall, Leave, manifest, TypeOK,
      StageInv, Locked, Ended, MaxAttempts
  <1>17. ASSUME NEW b \in Boots, Fail(b)
        PROVE  TypeOK'
    BY <1>17, InstallAssumption DEF Fail, Leave, manifest, TypeOK, StageInv,
      Locked, Ended, MaxAttempts
  <1>18. ASSUME NEW b \in Boots, Crash(b)
        PROVE  TypeOK'
    BY <1>18, InstallAssumption DEF Crash, Leave, manifest, disk, TypeOK,
      StageInv, Locked, Ended, MaxAttempts
  <1>19. ASSUME NEW b \in Boots, Cancel(b)
        PROVE  TypeOK'
    BY <1>19, InstallAssumption DEF Cancel, manifest, disk, progress,
      history, TypeOK, StageInv, Locked, Ended, MaxAttempts
  <1>20. CASE Publish
    BY <1>20, InstallAssumption DEF Publish, disk, progress, history, TypeOK,
      StageInv, Locked, Ended, MaxAttempts
  <1>21. CASE UNCHANGED vars
    BY <1>21, InstallAssumption DEF vars, manifest, disk, progress, history,
      TypeOK, StageInv, Locked, Ended, MaxAttempts
  <1> QED BY <1>1, <1>2, <1>3, <1>4, <1>5, <1>6, <1>7, <1>8, <1>9, <1>10,
    <1>11, <1>12, <1>13, <1>14, <1>15, <1>16, <1>17, <1>18, <1>19, <1>20,
    <1>21 DEF Next, Step, Server, Model

(* Every step keeps the stages: the licences are torn only by the boot that *)
(* is alone inside the lock.                                                *)
LEMMA StageStep ==
    ASSUME TypeOK, StageInv, [Next]_vars
    PROVE  StageInv'
  <1>1. ASSUME NEW b \in Boots, Start(b)
        PROVE  StageInv'
    BY <1>1 DEF Start, Goto, manifest, disk, history, progress, TypeOK,
      StageInv, Locked, Ended
  <1>2. ASSUME NEW b \in Boots, FetchManifest(b)
        PROVE  StageInv'
    BY <1>2 DEF FetchManifest, Goto, disk, manifest, history, progress,
      TypeOK, StageInv, Locked, Ended
  <1>3. ASSUME NEW b \in Boots,
               NEW place \in {"manifest", "getserver", "getmodel"},
               AttemptFails(b, place)
        PROVE  StageInv'
    BY <1>3 DEF AttemptFails, Leave, manifest, disk, TypeOK, StageInv,
      Locked, Ended
  <1>4. ASSUME NEW b \in Boots, AcquireLock(b)
        PROVE  StageInv'
    BY <1>4 DEF AcquireLock, Goto, manifest, disk, progress, history, TypeOK,
      StageInv, Locked, Ended
  <1>5. ASSUME NEW b \in Boots, LockTimeout(b)
        PROVE  StageInv'
    BY <1>5 DEF LockTimeout, Leave, manifest, disk, TypeOK, StageInv, Locked,
      Ended
  <1>6. ASSUME NEW b \in Boots, LicencesBegin(b)
        PROVE  StageInv'
    BY <1>6 DEF LicencesBegin, Goto, manifest, progress, history, TypeOK,
      StageInv, Locked, Ended
  <1>7. ASSUME NEW b \in Boots, LicencesEnd(b)
        PROVE  StageInv'
    BY <1>7 DEF LicencesEnd, Goto, After, manifest, progress, history,
      TypeOK, StageInv, Locked, Ended
  <1>8. ASSUME NEW b \in Boots, ServerCached(b)
        PROVE  StageInv'
    BY <1>8 DEF ServerCached, Goto, After, manifest, disk, progress, TypeOK,
      StageInv, Locked, Ended
  <1>9. ASSUME NEW b \in Boots, ServerMissing(b)
        PROVE  StageInv'
    BY <1>9 DEF ServerMissing, Goto, manifest, disk, progress, history,
      TypeOK, StageInv, Locked, Ended
  <1>10. ASSUME NEW b \in Boots, ServerDownloaded(b)
        PROVE  StageInv'
    BY <1>10 DEF ServerDownloaded, Overtake, manifest, TypeOK, StageInv,
      Locked, Ended
  <1>11. ASSUME NEW b \in Boots, Extract(b)
        PROVE  StageInv'
    BY <1>11 DEF Extract, Overtake, manifest, TypeOK, StageInv, Locked, Ended
  <1>12. ASSUME NEW b \in Boots, Mark(b)
        PROVE  StageInv'
    BY <1>12 DEF Mark, Goto, After, manifest, progress, TypeOK, StageInv,
      Locked, Ended
  <1>13. ASSUME NEW b \in Boots, ModelCached(b)
        PROVE  StageInv'
    BY <1>13 DEF ModelCached, Goto, manifest, disk, progress, history,
      TypeOK, StageInv, Locked, Ended
  <1>14. ASSUME NEW b \in Boots, ModelMissing(b)
        PROVE  StageInv'
    BY <1>14 DEF ModelMissing, Goto, manifest, disk, progress, history,
      TypeOK, StageInv, Locked, Ended
  <1>15. ASSUME NEW b \in Boots, ModelDownloaded(b)
        PROVE  StageInv'
    BY <1>15 DEF ModelDownloaded, Goto, manifest, history, TypeOK, StageInv,
      Locked, Ended
  <1>16. ASSUME NEW b \in Boots, RecordInstall(b)
        PROVE  StageInv'
    BY <1>16 DEF RecordInstall, Leave, manifest, TypeOK, StageInv, Locked,
      Ended
  <1>17. ASSUME NEW b \in Boots, Fail(b)
        PROVE  StageInv'
    BY <1>17 DEF Fail, Leave, manifest, TypeOK, StageInv, Locked, Ended
  <1>18. ASSUME NEW b \in Boots, Crash(b)
        PROVE  StageInv'
    BY <1>18 DEF Crash, Leave, manifest, disk, TypeOK, StageInv, Locked,
      Ended
  <1>19. ASSUME NEW b \in Boots, Cancel(b)
        PROVE  StageInv'
    BY <1>19 DEF Cancel, manifest, disk, progress, history, TypeOK, StageInv,
      Locked, Ended
  <1>20. CASE Publish
    BY <1>20 DEF Publish, disk, progress, history, TypeOK, StageInv, Locked,
      Ended
  <1>21. CASE UNCHANGED vars
    BY <1>21 DEF vars, manifest, disk, progress, history, TypeOK, StageInv,
      Locked, Ended
  <1> QED BY <1>1, <1>2, <1>3, <1>4, <1>5, <1>6, <1>7, <1>8, <1>9, <1>10,
    <1>11, <1>12, <1>13, <1>14, <1>15, <1>16, <1>17, <1>18, <1>19, <1>20,
    <1>21 DEF Next, Step, Server, Model

(* Every step keeps the marker true, or notes that it is behind.            *)
LEMMA MarkerStep ==
    ASSUME IInv, [Next]_vars
    PROVE  MarkerInv'
  <1>1. ASSUME NEW b \in Boots, Start(b)
        PROVE  MarkerInv'
    BY <1>1, InstallAssumption DEF Start, Goto, manifest, disk, history,
      progress, IInv, TypeOK, MarkerInv
  <1>2. ASSUME NEW b \in Boots, FetchManifest(b)
        PROVE  MarkerInv'
    BY <1>2, InstallAssumption DEF FetchManifest, Goto, disk, manifest,
      history, progress, IInv, TypeOK, MarkerInv
  <1>3. ASSUME NEW b \in Boots,
               NEW place \in {"manifest", "getserver", "getmodel"},
               AttemptFails(b, place)
        PROVE  MarkerInv'
    BY <1>3, InstallAssumption DEF AttemptFails, Leave, manifest, disk, IInv,
      TypeOK, MarkerInv
  <1>4. ASSUME NEW b \in Boots, AcquireLock(b)
        PROVE  MarkerInv'
    BY <1>4, InstallAssumption DEF AcquireLock, Goto, manifest, disk,
      progress, history, IInv, TypeOK, MarkerInv
  <1>5. ASSUME NEW b \in Boots, LockTimeout(b)
        PROVE  MarkerInv'
    BY <1>5, InstallAssumption DEF LockTimeout, Leave, manifest, disk, IInv,
      TypeOK, MarkerInv
  <1>6. ASSUME NEW b \in Boots, LicencesBegin(b)
        PROVE  MarkerInv'
    BY <1>6, InstallAssumption DEF LicencesBegin, Goto, manifest, progress,
      history, IInv, TypeOK, MarkerInv
  <1>7. ASSUME NEW b \in Boots, LicencesEnd(b)
        PROVE  MarkerInv'
    BY <1>7, InstallAssumption DEF LicencesEnd, Goto, After, manifest,
      progress, history, IInv, TypeOK, MarkerInv
  <1>8. ASSUME NEW b \in Boots, ServerCached(b)
        PROVE  MarkerInv'
    BY <1>8, InstallAssumption DEF ServerCached, Goto, After, manifest, disk,
      progress, IInv, TypeOK, MarkerInv
  <1>9. ASSUME NEW b \in Boots, ServerMissing(b)
        PROVE  MarkerInv'
    BY <1>9, InstallAssumption DEF ServerMissing, Goto, manifest, disk,
      progress, history, IInv, TypeOK, MarkerInv
  <1>10. ASSUME NEW b \in Boots, ServerDownloaded(b)
        PROVE  MarkerInv'
    <2>1. ver[b] \in Versions
      BY <1>10 DEF ServerDownloaded, IInv, StageInv, Locked
    <2>2. CASE ver[b] \in Raw
      BY <1>10, <2>1, <2>2, InstallAssumption DEF ServerDownloaded, Overtake,
        IInv, TypeOK, MarkerInv
    <2>3. CASE ver[b] \notin Raw
      BY <1>10, <2>3 DEF ServerDownloaded, IInv, MarkerInv
    <2> QED BY <2>2, <2>3
  <1>11. ASSUME NEW b \in Boots, Extract(b)
        PROVE  MarkerInv'
    <2>1. PICK f \in todo[b] : tree' = [tree EXCEPT ![f] = tarball]
      BY <1>11 DEF Extract
    <2>2. tarball = ver[b] /\ ver[b] \in Versions
      BY <1>11 DEF Extract, IInv, StageInv, ServerInv, Locked
    <2>3. marker' = marker /\ behind' = (behind \/ marker \notin {ver[b], None})
      BY <1>11, <2>2 DEF Extract, Overtake
    <2> QED BY <2>1, <2>2, <2>3, InstallAssumption DEF IInv, TypeOK, MarkerInv
  <1>12. ASSUME NEW b \in Boots, Mark(b)
        PROVE  MarkerInv'
    <2>1. Whole(ver[b]) /\ ver[b] \in Versions
      BY <1>12 DEF Mark, Goto, IInv, StageInv, ServerInv, Locked
    <2>2. CASE marker' \in {ver[b], None}
      BY <1>12, <2>1, <2>2, InstallAssumption DEF Mark, MarkerInv, Whole
    <2>3. CASE marker' = marker /\ marker' \notin {ver[b], None}
      BY <1>12, <2>3 DEF Mark, IInv, MarkerInv
    <2> QED BY <1>12, <2>2, <2>3 DEF Mark
  <1>13. ASSUME NEW b \in Boots, ModelCached(b)
        PROVE  MarkerInv'
    BY <1>13, InstallAssumption DEF ModelCached, Goto, manifest, disk,
      progress, history, IInv, TypeOK, MarkerInv
  <1>14. ASSUME NEW b \in Boots, ModelMissing(b)
        PROVE  MarkerInv'
    BY <1>14, InstallAssumption DEF ModelMissing, Goto, manifest, disk,
      progress, history, IInv, TypeOK, MarkerInv
  <1>15. ASSUME NEW b \in Boots, ModelDownloaded(b)
        PROVE  MarkerInv'
    BY <1>15, InstallAssumption DEF ModelDownloaded, Goto, manifest, history,
      IInv, TypeOK, MarkerInv
  <1>16. ASSUME NEW b \in Boots, RecordInstall(b)
        PROVE  MarkerInv'
    BY <1>16, InstallAssumption DEF RecordInstall, Leave, manifest, IInv,
      TypeOK, MarkerInv
  <1>17. ASSUME NEW b \in Boots, Fail(b)
        PROVE  MarkerInv'
    BY <1>17, InstallAssumption DEF Fail, Leave, manifest, IInv, TypeOK,
      MarkerInv
  <1>18. ASSUME NEW b \in Boots, Crash(b)
        PROVE  MarkerInv'
    BY <1>18, InstallAssumption DEF Crash, Leave, manifest, disk, IInv,
      TypeOK, MarkerInv
  <1>19. ASSUME NEW b \in Boots, Cancel(b)
        PROVE  MarkerInv'
    BY <1>19, InstallAssumption DEF Cancel, manifest, disk, progress,
      history, IInv, TypeOK, MarkerInv
  <1>20. CASE Publish
    BY <1>20, InstallAssumption DEF Publish, disk, progress, history, IInv,
      TypeOK, MarkerInv
  <1>21. CASE UNCHANGED vars
    BY <1>21, InstallAssumption DEF vars, manifest, disk, progress, history,
      IInv, TypeOK, MarkerInv
  <1> QED BY <1>1, <1>2, <1>3, <1>4, <1>5, <1>6, <1>7, <1>8, <1>9, <1>10,
    <1>11, <1>12, <1>13, <1>14, <1>15, <1>16, <1>17, <1>18, <1>19, <1>20,
    <1>21 DEF Next, Step, Server, Model

(* Every step keeps what was extracted and found.                           *)
LEMMA ServerStep ==
    ASSUME IInv, [Next]_vars
    PROVE  ServerInv'
  <1>1. ASSUME NEW b \in Boots, Start(b)
        PROVE  ServerInv'
    BY <1>1, OneInside DEF Start, Goto, manifest, disk, history, progress,
      IInv, TypeOK, ServerInv, Whole, Locked, Ended
  <1>2. ASSUME NEW b \in Boots, FetchManifest(b)
        PROVE  ServerInv'
    BY <1>2, OneInside DEF FetchManifest, Goto, disk, manifest, history,
      progress, IInv, TypeOK, ServerInv, Whole, Locked, Ended
  <1>3. ASSUME NEW b \in Boots,
               NEW place \in {"manifest", "getserver", "getmodel"},
               AttemptFails(b, place)
        PROVE  ServerInv'
    BY <1>3, OneInside DEF AttemptFails, Leave, manifest, disk, IInv, TypeOK,
      ServerInv, Whole, Locked, Ended
  <1>4. ASSUME NEW b \in Boots, AcquireLock(b)
        PROVE  ServerInv'
    BY <1>4, OneInside DEF AcquireLock, Goto, manifest, disk, progress,
      history, IInv, TypeOK, ServerInv, Whole, Locked, Ended
  <1>5. ASSUME NEW b \in Boots, LockTimeout(b)
        PROVE  ServerInv'
    BY <1>5, OneInside DEF LockTimeout, Leave, manifest, disk, IInv, TypeOK,
      ServerInv, Whole, Locked, Ended
  <1>6. ASSUME NEW b \in Boots, LicencesBegin(b)
        PROVE  ServerInv'
    BY <1>6, OneInside DEF LicencesBegin, Goto, manifest, progress, history,
      IInv, TypeOK, ServerInv, Whole, Locked, Ended
  <1>7. ASSUME NEW b \in Boots, LicencesEnd(b)
        PROVE  ServerInv'
    BY <1>7, OneInside DEF LicencesEnd, Goto, After, manifest, progress,
      history, IInv, TypeOK, ServerInv, Whole, Locked, Ended
  <1>8. ASSUME NEW b \in Boots, ServerCached(b)
        PROVE  ServerInv'
    <2>1. ver[b] \in Versions /\ marker = ver[b] /\ tree[Exec] # None
      BY <1>8 DEF ServerCached, Goto, IInv, StageInv, Locked
    <2>2. ~behind => Whole(ver[b])
      BY <2>1 DEF IInv, MarkerInv, Whole
    <2> QED BY <1>8, <2>2 DEF ServerCached, Goto, After, disk, progress, IInv,
      TypeOK, ServerInv, Whole
  <1>9. ASSUME NEW b \in Boots, ServerMissing(b)
        PROVE  ServerInv'
    BY <1>9, OneInside DEF ServerMissing, Goto, manifest, disk, progress,
      history, IInv, TypeOK, ServerInv, Whole, Locked, Ended
  <1>10. ASSUME NEW b \in Boots, ServerDownloaded(b)
        PROVE  ServerInv'
    <2>1. ver[b] \in Versions /\ pc[b] = "getserver"
      BY <1>10 DEF ServerDownloaded, IInv, StageInv, Locked
    <2>2. \A c \in Boots \ {b} : pc[c] \notin Locked /\ pc'[c] = pc[c]
      BY <1>10, <2>1, OneInside DEF ServerDownloaded, IInv, TypeOK, Locked
    <2>3. UNCHANGED <<needs, ver, misled>>
      BY <1>10 DEF ServerDownloaded
    <2>4. CASE ver[b] \in Raw
      <3>1. pc'[b] = "mark" /\ Whole(ver[b])'
        BY <1>10, <2>1, <2>4, InstallAssumption DEF ServerDownloaded, IInv,
          TypeOK, Whole
      <3> QED BY <2>2, <2>3, <3>1 DEF ServerInv, Locked
    <2>5. CASE ver[b] \notin Raw
      <3>1. pc'[b] = "extract" /\ tarball' = ver[b] /\ todo'[b] = Parts[ver[b]]
        BY <1>10, <2>5 DEF ServerDownloaded, IInv, TypeOK
      <3> QED BY <2>2, <2>3, <3>1 DEF ServerInv, Locked
    <2> QED BY <2>4, <2>5
  <1>11. ASSUME NEW b \in Boots, Extract(b)
        PROVE  ServerInv'
    <2>1. pc[b] = "extract" /\ tarball = ver[b]
      BY <1>11 DEF Extract, IInv, ServerInv
    <2>2. \A c \in Boots \ {b} : pc[c] \notin Locked /\ pc'[c] = pc[c]
      BY <1>11, <2>1, OneInside DEF Extract, IInv, TypeOK, Locked
    <2>3. UNCHANGED <<needs, ver, misled, tarball>>
      BY <1>11 DEF Extract
    <2>4. PICK f \in todo[b] :
                /\ tree' = [tree EXCEPT ![f] = tarball]
                /\ todo' = [todo EXCEPT ![b] = @ \ {f}]
                /\ pc' = [pc EXCEPT ![b] =
                          IF todo[b] = {f} THEN "mark" ELSE @]
      BY <1>11 DEF Extract
    <2>5. \A g \in Parts[ver[b]] \ todo'[b] : tree'[g] = ver[b]
      BY <2>1, <2>4 DEF IInv, TypeOK, ServerInv
    <2>6. pc'[b] = "mark" => todo'[b] = {}
      BY <2>1, <2>4 DEF IInv, TypeOK
    <2>7. pc'[b] \in {"extract", "mark"}
      BY <2>1, <2>4 DEF IInv, TypeOK
    <2> QED BY <2>1, <2>2, <2>3, <2>5, <2>6, <2>7 DEF ServerInv, Whole, Locked
  <1>12. ASSUME NEW b \in Boots, Mark(b)
        PROVE  ServerInv'
    <2>1. pc[b] = "mark" /\ Whole(ver[b])
      BY <1>12 DEF Mark, Goto, IInv, ServerInv
    <2>2. \A c \in Boots \ {b} : pc[c] \notin Locked /\ pc'[c] = pc[c]
      BY <1>12, <2>1, OneInside DEF Mark, Goto, IInv, TypeOK, Locked
    <2>3. UNCHANGED <<needs, ver, misled, tree>>
      BY <1>12 DEF Mark, progress
    <2>4. pc'[b] \in {"model", "audit"}
      BY <1>12 DEF Mark, Goto, After, IInv, TypeOK
    <2> QED BY <2>1, <2>2, <2>3, <2>4 DEF ServerInv, Whole, Locked
  <1>13. ASSUME NEW b \in Boots, ModelCached(b)
        PROVE  ServerInv'
    BY <1>13, OneInside DEF ModelCached, Goto, manifest, disk, progress,
      history, IInv, TypeOK, ServerInv, Whole, Locked, Ended
  <1>14. ASSUME NEW b \in Boots, ModelMissing(b)
        PROVE  ServerInv'
    BY <1>14, OneInside DEF ModelMissing, Goto, manifest, disk, progress,
      history, IInv, TypeOK, ServerInv, Whole, Locked, Ended
  <1>15. ASSUME NEW b \in Boots, ModelDownloaded(b)
        PROVE  ServerInv'
    BY <1>15, OneInside DEF ModelDownloaded, Goto, manifest, history, IInv,
      TypeOK, ServerInv, Whole, Locked, Ended
  <1>16. ASSUME NEW b \in Boots, RecordInstall(b)
        PROVE  ServerInv'
    BY <1>16, OneInside DEF RecordInstall, Leave, manifest, IInv, TypeOK,
      ServerInv, Whole, Locked, Ended
  <1>17. ASSUME NEW b \in Boots, Fail(b)
        PROVE  ServerInv'
    BY <1>17, OneInside DEF Fail, Leave, manifest, IInv, TypeOK, ServerInv,
      Whole, Locked, Ended
  <1>18. ASSUME NEW b \in Boots, Crash(b)
        PROVE  ServerInv'
    BY <1>18, OneInside DEF Crash, Leave, manifest, disk, IInv, TypeOK,
      ServerInv, Whole, Locked, Ended
  <1>19. ASSUME NEW b \in Boots, Cancel(b)
        PROVE  ServerInv'
    BY <1>19, OneInside DEF Cancel, manifest, disk, progress, history, IInv,
      TypeOK, ServerInv, Whole, Locked, Ended
  <1>20. CASE Publish
    BY <1>20, OneInside DEF Publish, disk, progress, history, IInv, TypeOK,
      ServerInv, Whole, Locked, Ended
  <1>21. CASE UNCHANGED vars
    BY <1>21, OneInside DEF vars, manifest, disk, progress, history, IInv,
      TypeOK, ServerInv, Whole, Locked, Ended
  <1> QED BY <1>1, <1>2, <1>3, <1>4, <1>5, <1>6, <1>7, <1>8, <1>9, <1>10,
    <1>11, <1>12, <1>13, <1>14, <1>15, <1>16, <1>17, <1>18, <1>19, <1>20,
    <1>21 DEF Next, Step, Server, Model

(* Every step keeps the model of a boot that is past it.                    *)
LEMMA ModelStep ==
    ASSUME IInv, [Next]_vars
    PROVE  ModelInv'
  <1>1. ASSUME NEW b \in Boots, Start(b)
        PROVE  ModelInv'
    BY <1>1, OneInside DEF Start, Goto, manifest, disk, history, progress,
      IInv, TypeOK, ModelInv, Locked, Ended
  <1>2. ASSUME NEW b \in Boots, FetchManifest(b)
        PROVE  ModelInv'
    BY <1>2, OneInside DEF FetchManifest, Goto, disk, manifest, history,
      progress, IInv, TypeOK, ModelInv, Locked, Ended
  <1>3. ASSUME NEW b \in Boots,
               NEW place \in {"manifest", "getserver", "getmodel"},
               AttemptFails(b, place)
        PROVE  ModelInv'
    BY <1>3, OneInside DEF AttemptFails, Leave, manifest, disk, IInv, TypeOK,
      ModelInv, Locked, Ended
  <1>4. ASSUME NEW b \in Boots, AcquireLock(b)
        PROVE  ModelInv'
    BY <1>4, OneInside DEF AcquireLock, Goto, manifest, disk, progress,
      history, IInv, TypeOK, ModelInv, Locked, Ended
  <1>5. ASSUME NEW b \in Boots, LockTimeout(b)
        PROVE  ModelInv'
    BY <1>5, OneInside DEF LockTimeout, Leave, manifest, disk, IInv, TypeOK,
      ModelInv, Locked, Ended
  <1>6. ASSUME NEW b \in Boots, LicencesBegin(b)
        PROVE  ModelInv'
    BY <1>6, OneInside DEF LicencesBegin, Goto, manifest, progress, history,
      IInv, TypeOK, ModelInv, Locked, Ended
  <1>7. ASSUME NEW b \in Boots, LicencesEnd(b)
        PROVE  ModelInv'
    BY <1>7, OneInside DEF LicencesEnd, Goto, After, manifest, progress,
      history, IInv, TypeOK, ModelInv, Locked, Ended
  <1>8. ASSUME NEW b \in Boots, ServerCached(b)
        PROVE  ModelInv'
    BY <1>8, OneInside DEF ServerCached, Goto, After, manifest, disk,
      progress, IInv, TypeOK, ModelInv, Locked, Ended
  <1>9. ASSUME NEW b \in Boots, ServerMissing(b)
        PROVE  ModelInv'
    BY <1>9, OneInside DEF ServerMissing, Goto, manifest, disk, progress,
      history, IInv, TypeOK, ModelInv, Locked, Ended
  <1>10. ASSUME NEW b \in Boots, ServerDownloaded(b)
        PROVE  ModelInv'
    BY <1>10, OneInside DEF ServerDownloaded, Overtake, manifest, IInv,
      TypeOK, ModelInv, Locked, Ended
  <1>11. ASSUME NEW b \in Boots, Extract(b)
        PROVE  ModelInv'
    BY <1>11, OneInside DEF Extract, Overtake, manifest, IInv, TypeOK,
      ModelInv, Locked, Ended
  <1>12. ASSUME NEW b \in Boots, Mark(b)
        PROVE  ModelInv'
    BY <1>12, OneInside DEF Mark, Goto, After, manifest, progress, IInv,
      TypeOK, ModelInv, Locked, Ended
  <1>13. ASSUME NEW b \in Boots, ModelCached(b)
        PROVE  ModelInv'
    BY <1>13, OneInside DEF ModelCached, Goto, manifest, disk, progress,
      history, IInv, TypeOK, ModelInv, Locked, Ended
  <1>14. ASSUME NEW b \in Boots, ModelMissing(b)
        PROVE  ModelInv'
    BY <1>14, OneInside DEF ModelMissing, Goto, manifest, disk, progress,
      history, IInv, TypeOK, ModelInv, Locked, Ended
  <1>15. ASSUME NEW b \in Boots, ModelDownloaded(b)
        PROVE  ModelInv'
    BY <1>15, OneInside DEF ModelDownloaded, Goto, manifest, history, IInv,
      TypeOK, ModelInv, Locked, Ended
  <1>16. ASSUME NEW b \in Boots, RecordInstall(b)
        PROVE  ModelInv'
    BY <1>16, OneInside DEF RecordInstall, Leave, manifest, IInv, TypeOK,
      ModelInv, Locked, Ended
  <1>17. ASSUME NEW b \in Boots, Fail(b)
        PROVE  ModelInv'
    BY <1>17, OneInside DEF Fail, Leave, manifest, IInv, TypeOK, ModelInv,
      Locked, Ended
  <1>18. ASSUME NEW b \in Boots, Crash(b)
        PROVE  ModelInv'
    BY <1>18, OneInside DEF Crash, Leave, manifest, disk, IInv, TypeOK,
      ModelInv, Locked, Ended
  <1>19. ASSUME NEW b \in Boots, Cancel(b)
        PROVE  ModelInv'
    BY <1>19, OneInside DEF Cancel, manifest, disk, progress, history, IInv,
      TypeOK, ModelInv, Locked, Ended
  <1>20. CASE Publish
    BY <1>20, OneInside DEF Publish, disk, progress, history, IInv, TypeOK,
      ModelInv, Locked, Ended
  <1>21. CASE UNCHANGED vars
    BY <1>21, OneInside DEF vars, manifest, disk, progress, history, IInv,
      TypeOK, ModelInv, Locked, Ended
  <1> QED BY <1>1, <1>2, <1>3, <1>4, <1>5, <1>6, <1>7, <1>8, <1>9, <1>10,
    <1>11, <1>12, <1>13, <1>14, <1>15, <1>16, <1>17, <1>18, <1>19, <1>20,
    <1>21 DEF Next, Step, Server, Model

(* A home that earlier daemons left in order satisfies the invariant.       *)
LEMMA InitIInv == Init => IInv
  <1> SUFFICES ASSUME Init PROVE IInv
    OBVIOUS
  <1>1. TypeOK
    <2>1. tree \in [Files -> Versions \union {None}]
      BY DEF Init
    <2>2. changes \in 0 .. MaxPublish /\ attempt \in [Boots -> 1 .. MaxAttempts]
      BY InstallAssumption DEF Init, MaxAttempts
    <2>3. \A b \in Boots : holder = b <=> pc[b] \in Locked
      BY InstallAssumption DEF Init, Locked
    <2> QED BY <2>1, <2>2, <2>3 DEF Init, TypeOK
  <1>2. StageInv
    BY DEF Init, StageInv, Locked
  <1>3. MarkerInv
    BY InstallAssumption DEF Init, MarkerInv
  <1>4. ServerInv /\ ModelInv
    BY DEF Init, ServerInv, ModelInv
  <1> QED BY <1>1, <1>2, <1>3, <1>4 DEF IInv

(* The invariant holds in every reachable state.                            *)
THEOREM Invariant == Spec => []IInv
  <1>1. IInv /\ [Next]_vars => IInv'
    BY TypeStep, StageStep, MarkerStep, ServerStep, ModelStep DEF IInv
  <1> QED BY InitIInv, <1>1, PTL DEF Spec

(* All variables have their types, and install.lock is held by exactly the  *)
(* boot that is between AcquireLock and Release.                            *)
THEOREM TypeCorrect == Spec => []TypeOK
  <1>1. IInv => TypeOK
    BY DEF IInv
  <1> QED BY Invariant, <1>1, PTL

(* No step puts a file of llama-server or a model in place while the        *)
(* licences are not.                                                        *)
THEOREM LicencesComeFirst == Spec => LicencesFirst
  <1> DEFINE A == tree' # tree \/ model' # model => licences = "whole"
  <1>1. ASSUME IInv, [Next]_vars
        PROVE  [A]_vars
    <2>1. ASSUME NEW b \in Boots, ServerDownloaded(b)
          PROVE  A
      BY <1>1, <2>1 DEF ServerDownloaded, IInv, StageInv, Locked
    <2>2. ASSUME NEW b \in Boots, Extract(b)
          PROVE  A
      BY <1>1, <2>2 DEF Extract, IInv, StageInv, Locked
    <2>3. ASSUME NEW b \in Boots, ModelDownloaded(b)
          PROVE  A
      BY <1>1, <2>3 DEF ModelDownloaded, Goto, IInv, StageInv, Locked
    <2>4. ASSUME NEW b \in Boots, Step(b), ~ServerDownloaded(b), ~Extract(b),
                 ~ModelDownloaded(b)
          PROVE  A
      BY <2>4 DEF Step, Server, Model, disk, FetchManifest, AttemptFails,
        AcquireLock, LockTimeout, LicencesBegin, LicencesEnd, ServerCached,
        ServerMissing, Mark, ModelCached, ModelMissing, RecordInstall, Fail
    <2>5. ASSUME NEW b \in Boots, Start(b) \/ Crash(b) \/ Cancel(b)
          PROVE  A
      BY <2>5 DEF disk, Start, Crash, Cancel
    <2>6. CASE Publish
      BY <2>6 DEF Publish, disk
    <2>7. CASE UNCHANGED vars
      BY <2>7
    <2> QED BY <1>1, <2>1, <2>2, <2>3, <2>4, <2>5, <2>6, <2>7 DEF Next
  <1> QED BY Invariant, <1>1, PTL DEF Spec, LicencesFirst

(* A bootstrap that succeeds hands out what its manifest names.             *)
THEOREM HandsOutItsVersion == Spec => ReturnsWhatIsInstalled
  <1> DEFINE A == \A b \in Boots : Returns(b) =>
          /\ "llama_server" \in needs[b] => Whole(ver[b]) \/ b \in misled
          /\ "model" \in needs[b] => model = ver[b]
  <1>1. ASSUME IInv, [Next]_vars
        PROVE  [A]_vars
    <2> SUFFICES ASSUME NEW b \in Boots, Returns(b)
                 PROVE  pc[b] = "audit"
      BY <1>1 DEF IInv, ServerInv, ModelInv
    <2>1. pc[b] # "ok" /\ pc'[b] = "ok"
      BY DEF Returns
    <2>2. ASSUME NEW c \in Boots, Start(c)
          PROVE  pc[b] = "audit"
      BY <1>1, <2>1, <2>2 DEF Start, Goto, IInv, TypeOK
    <2>3. ASSUME NEW c \in Boots, FetchManifest(c)
          PROVE  pc[b] = "audit"
      BY <1>1, <2>1, <2>3 DEF FetchManifest, Goto, IInv, TypeOK
    <2>4. ASSUME NEW c \in Boots,
                 NEW place \in {"manifest", "getserver", "getmodel"},
                 AttemptFails(c, place)
          PROVE  pc[b] = "audit"
      BY <1>1, <2>1, <2>4 DEF AttemptFails, Leave, IInv, TypeOK
    <2>5. ASSUME NEW c \in Boots, AcquireLock(c)
          PROVE  pc[b] = "audit"
      BY <1>1, <2>1, <2>5 DEF AcquireLock, Goto, IInv, TypeOK
    <2>6. ASSUME NEW c \in Boots, LockTimeout(c)
          PROVE  pc[b] = "audit"
      BY <1>1, <2>1, <2>6 DEF LockTimeout, Leave, IInv, TypeOK
    <2>7. ASSUME NEW c \in Boots, LicencesBegin(c)
          PROVE  pc[b] = "audit"
      BY <1>1, <2>1, <2>7 DEF LicencesBegin, Goto, IInv, TypeOK
    <2>8. ASSUME NEW c \in Boots, LicencesEnd(c)
          PROVE  pc[b] = "audit"
      BY <1>1, <2>1, <2>8 DEF LicencesEnd, Goto, After, IInv, TypeOK
    <2>9. ASSUME NEW c \in Boots, ServerCached(c)
          PROVE  pc[b] = "audit"
      BY <1>1, <2>1, <2>9 DEF ServerCached, Goto, After, IInv, TypeOK
    <2>10. ASSUME NEW c \in Boots, ServerMissing(c)
          PROVE  pc[b] = "audit"
      BY <1>1, <2>1, <2>10 DEF ServerMissing, Goto, IInv, TypeOK
    <2>11. ASSUME NEW c \in Boots, ServerDownloaded(c)
          PROVE  pc[b] = "audit"
      BY <1>1, <2>1, <2>11 DEF ServerDownloaded, IInv, TypeOK
    <2>12. ASSUME NEW c \in Boots, Extract(c)
          PROVE  pc[b] = "audit"
      BY <1>1, <2>1, <2>12 DEF Extract, IInv, TypeOK
    <2>13. ASSUME NEW c \in Boots, Mark(c)
          PROVE  pc[b] = "audit"
      BY <1>1, <2>1, <2>13 DEF Mark, Goto, After, IInv, TypeOK
    <2>14. ASSUME NEW c \in Boots, ModelCached(c)
          PROVE  pc[b] = "audit"
      BY <1>1, <2>1, <2>14 DEF ModelCached, Goto, IInv, TypeOK
    <2>15. ASSUME NEW c \in Boots, ModelMissing(c)
          PROVE  pc[b] = "audit"
      BY <1>1, <2>1, <2>15 DEF ModelMissing, Goto, IInv, TypeOK
    <2>16. ASSUME NEW c \in Boots, ModelDownloaded(c)
          PROVE  pc[b] = "audit"
      BY <1>1, <2>1, <2>16 DEF ModelDownloaded, Goto, IInv, TypeOK
    <2>17. ASSUME NEW c \in Boots, RecordInstall(c)
          PROVE  pc[b] = "audit"
      BY <1>1, <2>1, <2>17 DEF RecordInstall, Leave, IInv, TypeOK
    <2>18. ASSUME NEW c \in Boots, Fail(c)
          PROVE  pc[b] = "audit"
      BY <1>1, <2>1, <2>18 DEF Fail, Leave, IInv, TypeOK
    <2>19. ASSUME NEW c \in Boots, Crash(c)
          PROVE  pc[b] = "audit"
      BY <1>1, <2>1, <2>19 DEF Crash, Leave, IInv, TypeOK
    <2>20. ASSUME NEW c \in Boots, Cancel(c)
          PROVE  pc[b] = "audit"
      BY <1>1, <2>1, <2>20 DEF Cancel, IInv, TypeOK
    <2>21. CASE Publish
      BY <1>1, <2>1, <2>21 DEF Publish, IInv, TypeOK
    <2>22. CASE UNCHANGED vars
      BY <1>1, <2>1, <2>22 DEF vars, IInv, TypeOK
    <2> QED BY <1>1, <2>2, <2>3, <2>4, <2>5, <2>6, <2>7, <2>8, <2>9, <2>10,
      <2>11, <2>12, <2>13, <2>14, <2>15, <2>16, <2>17, <2>18, <2>19, <2>20,
      <2>21, <2>22 DEF Next, Step, Server, Model
  <1> QED BY Invariant, <1>1, PTL DEF Spec, ReturnsWhatIsInstalled

-----------------------------------------------------------------------------
(* The safety half of BootsEnd: the places of a boot, the last one lowest.  *)
Left ==
    [off |-> 13, manifest |-> 12, lock |-> 11, licences |-> 10,
     licensing |-> 9, server |-> 8, getserver |-> 7, extract |-> 6, mark |-> 5,
     model |-> 4, getmodel |-> 3, audit |-> 2, ok |-> 1, failed |-> 1]

Stays(b) == pc'[b] = pc[b] /\ attempt'[b] = attempt[b] /\ todo'[b] = todo[b]

(* b is at a later place, has a file less to extract or an attempt less.    *)
Nearer(b) ==
    \/ Left[pc'[b]] < Left[pc[b]]
    \/ /\ pc'[b] = pc[b] /\ attempt'[b] = attempt[b]
       /\ todo'[b] \subseteq todo[b] /\ todo'[b] # todo[b]
    \/ /\ pc'[b] = pc[b] /\ todo'[b] = todo[b]
       /\ attempt'[b] = attempt[b] + 1 /\ attempt'[b] <= MaxAttempts

LEMMA LeaveNears ==
    ASSUME TypeOK, NEW b \in Boots, NEW how \in Ended, Leave(b, how),
           pc[b] \notin Ended
    PROVE  Nearer(b)
  BY DEF Leave, TypeOK, Ended, Locked, Nearer, Left

LEMMA AttemptNears ==
    ASSUME TypeOK, NEW b \in Boots, NEW place, AttemptFails(b, place),
           place \notin Ended
    PROVE  Nearer(b)
  <1>1. CASE Leave(b, "failed")
    BY <1>1, LeaveNears DEF AttemptFails, Ended
  <1>2. CASE /\ attempt[b] < MaxAttempts
             /\ attempt' = [attempt EXCEPT ![b] = @ + 1]
             /\ UNCHANGED <<pc, todo>>
    BY <1>2 DEF TypeOK, MaxAttempts, Nearer
  <1> QED BY <1>1, <1>2 DEF AttemptFails

LEMMA StepNears ==
    ASSUME TypeOK, NEW b \in Boots, Step(b)
    PROVE  Nearer(b)
  <1> USE DEF TypeOK, Goto, After, Nearer, Left
  <1>1. CASE FetchManifest(b) \/ AcquireLock(b)
    BY <1>1 DEF FetchManifest, AcquireLock
  <1>2. CASE LicencesBegin(b) \/ LicencesEnd(b)
    BY <1>2 DEF LicencesBegin, LicencesEnd
  <1>3. CASE ServerCached(b) \/ ServerMissing(b) \/ Mark(b)
    BY <1>3 DEF ServerCached, ServerMissing, Mark
  <1>4. CASE ServerDownloaded(b)
    BY <1>4 DEF ServerDownloaded
  <1>5. CASE Extract(b)
    <2>1. PICK f \in todo[b] :
             /\ todo' = [todo EXCEPT ![b] = @ \ {f}]
             /\ pc' = [pc EXCEPT ![b] = IF todo[b] = {f} THEN "mark" ELSE @]
      BY <1>5 DEF Extract
    <2>2. pc[b] = "extract" /\ attempt' = attempt
      BY <1>5 DEF Extract
    <2>3. CASE todo[b] = {f}
      BY <2>1, <2>2, <2>3
    <2>4. CASE todo[b] # {f}
      BY <2>1, <2>2, <2>4
    <2> QED BY <2>3, <2>4
  <1>6. CASE ModelCached(b) \/ ModelMissing(b) \/ ModelDownloaded(b)
    BY <1>6 DEF ModelCached, ModelMissing, ModelDownloaded
  <1>7. CASE \/ AttemptFails(b, "manifest") \/ AttemptFails(b, "getserver")
             \/ AttemptFails(b, "getmodel")
    BY <1>7, AttemptNears DEF Ended
  <1>8. CASE LockTimeout(b) \/ RecordInstall(b) \/ Fail(b)
    BY <1>8, LeaveNears DEF LockTimeout, RecordInstall, Fail, Ended, Locked
  <1> QED BY <1>1, <1>2, <1>3, <1>4, <1>5, <1>6, <1>7, <1>8
          DEF Step, Server, Model

(* Nobody moves a boot but itself, its death and the eviction's cancel.     *)
LEMMA OthersStay ==
    ASSUME TypeOK, [Next]_vars, NEW b \in Boots
    PROVE  Stays(b) \/ Nearer(b)
  <1> USE DEF TypeOK, Goto, Stays
  <1>1. ASSUME NEW d \in Boots, d # b, Step(d) \/ Start(d) \/ Crash(d)
        PROVE  Stays(b)
    BY <1>1 DEF Start, Step, FetchManifest, AttemptFails, AcquireLock,
       LockTimeout, LicencesBegin, LicencesEnd, Server, ServerCached,
       ServerMissing, ServerDownloaded, Extract, Mark, Model, ModelCached,
       ModelMissing, ModelDownloaded, RecordInstall, Fail, Crash, Leave,
       progress
  <1>2. CASE Start(b)
    BY <1>2 DEF Start, Nearer, Left
  <1>3. CASE Crash(b)
    BY <1>3, LeaveNears DEF Crash, Ended, Locked
  <1>4. ASSUME \/ \E d \in Boots : Cancel(d)
               \/ Publish \/ UNCHANGED vars
        PROVE  Stays(b)
    BY <1>4 DEF Cancel, Publish, vars, progress
  <1> QED BY <1>1, <1>2, <1>3, <1>4, StepNears DEF Next

(* No bootstrap goes round in a circle: each step of its own brings it      *)
(* nearer to its end, in a place, a file or an attempt, and whatever other  *)
(* boots, crashes and the manifest do never sets it back                    *)
(* (downloadWithRetry, EnsureAll).                                          *)
THEOREM BootsWind ==
    Spec => [][\A b \in Boots : /\ Step(b) => Nearer(b)
                                /\ Stays(b) \/ Nearer(b)]_vars
  <1>1. IInv /\ [Next]_vars =>
          \A b \in Boots : /\ Step(b) => Nearer(b)
                           /\ Stays(b) \/ Nearer(b)
    BY StepNears, OthersStay DEF IInv
  <1> QED BY <1>1, Invariant, PTL DEF Spec
=============================================================================
