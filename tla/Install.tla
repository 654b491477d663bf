------------------------------ MODULE Install -------------------------------
(***************************************************************************)
(* The self-bootstrap of daemons that share $RUNED_HOME (selfBootstrap of  *)
(* cmd/runed and internal/bootstrap): the manifest is fetched, and under   *)
(* install.lock the licences are written, llama-server and the model are   *)
(* put in place unless they are there, and the audit record is updated.    *)
(* A boot may fail or die between any two steps; what it put on the disk   *)
(* stays there.  The manifest server may move to another version and back. *)
(*                                                                         *)
(* A version stands for everything a manifest names: the archive of        *)
(* llama-server, its hash, and the model.  A file is its content, the      *)
(* version it belongs to; one file appears at a time, by a rename.         *)
(***************************************************************************)
EXTENDS Naturals

CONSTANTS
    Boots,          \* daemons, one bootstrap each
    Versions,       \* of the manifest
    Files,          \* file names within the archives of llama-server
    Exec,           \* the one that is started
    Parts,          \* per version: the files of its archive
    Raw,            \* versions whose llama-server is the bare executable
    None, Other,    \* no content, content of no version
    MaxPublish      \* bound: changes of the manifest

ASSUME InstallAssumption ==
    /\ Raw \subseteq Versions
    /\ Parts \in [Versions -> SUBSET Files]
    /\ \A v \in Versions : Exec \in Parts[v]
    /\ \A v \in Raw : Parts[v] = {Exec}
    /\ None \notin Versions /\ Other \notin Versions /\ None # Other
    /\ None \notin Boots
    /\ MaxPublish \in Nat

VARIABLES
    published, changes,     \* the manifest server's version, its changes
    licences,               \* "none", "torn" or "whole"
    tree,                   \* the files of llama-server
    tarball,                \* the downloaded archive in the cache
    marker,                 \* what .llama_server.sha256 says
    model,                  \* the model file
    audit,                  \* the artifacts in installed.json
    holder,                 \* who holds install.lock
    pc,                     \* per boot: where it is
    needs,                  \* per boot: the artifacts it has to provide
    ver,                    \* per boot: the version its manifest names
    attempt,                \* per boot: of the download under way
    todo,                   \* per boot: files still to be extracted
    cancelled,              \* boots whose context is cancelled
    behind,                 \* history: files newer than the marker
    misled                  \* history: boots that trusted such a marker

disk == <<licences, tree, tarball, marker, model, audit>>
progress == <<needs, ver, attempt, todo>>
manifest == <<published, changes>>
history == <<behind, misled>>
vars == <<manifest, disk, holder, pc, progress, cancelled, history>>

Artifacts == {"llama_server", "model"}
Ended == {"ok", "failed"}     \* failed: an error was returned, or it died
Locked == {"licences", "licensing", "server", "getserver", "extract",
           "mark", "model", "getmodel", "audit"}
MaxAttempts == 3

TypeOK ==
    /\ published \in Versions /\ changes \in 0 .. MaxPublish
    /\ licences \in {"none", "torn", "whole"}
    /\ tree \in [Files -> Versions \union {None}]
    /\ tarball \in Versions \union {None}
    /\ marker \in Versions \union {None}
    /\ model \in Versions \union {None, Other}
    /\ audit \in [Artifacts -> Versions \union {None}]
    /\ holder \in Boots \union {None}
    /\ pc \in [Boots -> {"off", "manifest", "lock"} \union Locked
                           \union Ended]
    /\ needs \in [Boots -> SUBSET Artifacts]
    /\ ver \in [Boots -> Versions \union {None}]
    /\ attempt \in [Boots -> 1 .. MaxAttempts]
    /\ todo \in [Boots -> SUBSET Files]
    /\ cancelled \subseteq Boots
    /\ behind \in BOOLEAN /\ misled \subseteq Boots
    /\ \A b \in Boots : holder = b <=> pc[b] \in Locked

Whole(v) == \A f \in Parts[v] : tree[f] = v

(* What earlier daemons left: nothing, an installation, one whose           *)
(* executable is gone, a model that is damaged or another version's.        *)
Init ==
    /\ published \in Versions /\ changes = 0
    /\ licences \in {"none", "whole"}
    /\ marker \in Versions \union {None}
    /\ LET installed == [f \in Files |->
               IF marker \in Versions /\ f \in Parts[marker]
               THEN marker ELSE None]
       IN tree \in {installed, [installed EXCEPT ![Exec] = None]}
    /\ model \in Versions \union {None, Other}
    /\ audit = [a \in Artifacts |-> None]
    /\ tarball = None /\ holder = None
    /\ pc = [b \in Boots |-> "off"]
    /\ needs = [b \in Boots |-> {}]
    /\ ver = [b \in Boots |-> None]
    /\ attempt = [b \in Boots |-> 1]
    /\ todo = [b \in Boots |-> {}]
    /\ cancelled = {} /\ behind = FALSE /\ misled = {}

-----------------------------------------------------------------------------
Goto(b, from, to) == pc[b] = from /\ pc' = [pc EXCEPT ![b] = to]

(* Mutated: the lock is kept by a boot that fails.                          *)
LeaveHolding(b, how) ==
    /\ pc' = [pc EXCEPT ![b] = how]
    /\ holder' = IF holder = b /\ how = "ok" THEN None ELSE holder
    /\ cancelled' = cancelled \ {b}
    /\ attempt' = [attempt EXCEPT ![b] = 1]
    /\ todo' = [todo EXCEPT ![b] = {}]
    /\ needs' = [needs EXCEPT ![b] = {}]
    /\ ver' = [ver EXCEPT ![b] = None]
    /\ misled' = misled \ {b}

(* The end of a boot; the lock is released, by a defer or by the kernel,    *)
(* and what it knew is forgotten.                                           *)
Leave(b, how) ==
    /\ pc' = [pc EXCEPT ![b] = how]
    /\ holder' = IF holder = b THEN None ELSE holder
    /\ cancelled' = cancelled \ {b}
    /\ attempt' = [attempt EXCEPT ![b] = 1]
    /\ todo' = [todo EXCEPT ![b] = {}]
    /\ needs' = [needs EXCEPT ![b] = {}]
    /\ ver' = [ver EXCEPT ![b] = None]
    /\ misled' = misled \ {b}

(* run: RUNED_LLAMA_SERVER and RUNED_MODEL say what is needed.              *)
Start(b) ==
    /\ Goto(b, "off", "manifest")
    /\ \E n \in SUBSET Artifacts \ {{}} : needs' = [needs EXCEPT ![b] = n]
    /\ UNCHANGED <<manifest, disk, holder, ver, attempt, todo, cancelled,
                   history>>

(* Mutated: every failure is followed by another attempt.                   *)
AttemptFailsForEver(b, place) ==
    /\ pc[b] = place
    /\ attempt' = [attempt EXCEPT ![b] = IF @ = MaxAttempts THEN 1 ELSE @ + 1]
    /\ UNCHANGED <<manifest, disk, holder, pc, needs, ver, todo, cancelled,
                   history>>

(* An attempt of a download, or of the manifest's, fails: the next one      *)
(* follows after a backoff, unless it was the last or the context is done.  *)
AttemptFails(b, place) ==
    /\ pc[b] = place
    /\ \/ /\ attempt[b] < MaxAttempts /\ b \notin cancelled
          /\ attempt' = [attempt EXCEPT ![b] = @ + 1]
          /\ UNCHANGED <<holder, pc, needs, ver, todo, cancelled, misled>>
       \/ /\ attempt[b] = MaxAttempts \/ b \in cancelled
          /\ Leave(b, "failed")
    /\ UNCHANGED <<manifest, disk, behind>>

(* FetchManifest and ResolveModelVariant; the lock is waited for next.      *)
FetchManifest(b) ==
    /\ Goto(b, "manifest", "lock")
    /\ ver' = [ver EXCEPT ![b] = published]
    /\ attempt' = [attempt EXCEPT ![b] = 1]
    /\ UNCHANGED <<manifest, disk, holder, needs, todo, cancelled, history>>

AcquireLock(b) ==
    /\ Goto(b, "lock", "licences")
    /\ holder = None
    /\ holder' = b
    /\ UNCHANGED <<manifest, disk, progress, cancelled, history>>

(* Four hours passed; the context is not looked at.                         *)
LockTimeout(b) ==
    /\ pc[b] = "lock" /\ holder # None
    /\ Leave(b, "failed")
    /\ UNCHANGED <<manifest, disk, behind>>

-----------------------------------------------------------------------------
(* installLicenses rewrites the files in place.                             *)

LicencesBegin(b) ==
    /\ Goto(b, "licences", "licensing")
    /\ licences' = "torn"
    /\ UNCHANGED <<manifest, tree, tarball, marker, model, audit, holder,
                   progress, cancelled, history>>

After(b, done) ==
    IF done = "licences" /\ "llama_server" \in needs[b] THEN "server"
    ELSE IF done # "model" /\ "model" \in needs[b] THEN "model"
    ELSE "audit"

(* Mutated: an error of installLicenses is not looked at.                   *)
LicencesEndAnyway(b) ==
    /\ Goto(b, "licensing", After(b, "licences"))
    /\ licences' \in {"whole", licences}
    /\ UNCHANGED <<manifest, tree, tarball, marker, model, audit, holder,
                   progress, cancelled, history>>

LicencesEnd(b) ==
    /\ Goto(b, "licensing", After(b, "licences"))
    /\ licences' = "whole"
    /\ UNCHANGED <<manifest, tree, tarball, marker, model, audit, holder,
                   progress, cancelled, history>>

-----------------------------------------------------------------------------
(* ensureLlamaServer.                                                       *)

(* The marker matches and the executable is there, whatever else is.        *)
ServerCached(b) ==
    /\ Goto(b, "server", After(b, "server"))
    /\ marker = ver[b] /\ tree[Exec] # None
    /\ misled' = IF behind THEN misled \union {b} ELSE misled
    /\ UNCHANGED <<manifest, disk, holder, progress, cancelled, behind>>

ServerMissing(b) ==
    /\ Goto(b, "server", "getserver")
    /\ ~ (marker = ver[b] /\ tree[Exec] # None)
    /\ UNCHANGED <<manifest, disk, holder, progress, cancelled, history>>

(* History: a file is put in place that the marker does not stand for.      *)
Overtake(v) == behind' = (behind \/ marker \notin {v, None})

(* Mutated: the marker is written before the extraction.                    *)
ServerDownloadedMarked(b) ==
    /\ pc[b] = "getserver"
    /\ attempt' = [attempt EXCEPT ![b] = 1]
    /\ pc' = [pc EXCEPT ![b] = "extract"]
    /\ tarball' = ver[b] /\ marker' = ver[b] /\ behind' = FALSE
    /\ todo' = [todo EXCEPT ![b] = Parts[ver[b]]]
    /\ UNCHANGED <<manifest, licences, tree, model, audit, holder, needs,
                   ver, cancelled, misled>>

(* downloadWithRetry succeeded: the bare executable is in place, or the     *)
(* archive in the cache.                                                    *)
ServerDownloaded(b) ==
    /\ pc[b] = "getserver"
    /\ attempt' = [attempt EXCEPT ![b] = 1]
    /\ \/ /\ ver[b] \in Raw
          /\ pc' = [pc EXCEPT ![b] = "mark"]
          /\ tree' = [tree EXCEPT ![Exec] = ver[b]]
          /\ Overtake(ver[b])
          /\ UNCHANGED <<tarball, todo>>
       \/ /\ ver[b] \notin Raw
          /\ pc' = [pc EXCEPT ![b] = "extract"]
          /\ tarball' = ver[b]
          /\ todo' = [todo EXCEPT ![b] = Parts[ver[b]]]
          /\ UNCHANGED <<tree, behind>>
    /\ UNCHANGED <<manifest, licences, marker, model, audit, holder, needs,
                   ver, cancelled, misled>>

(* ExtractTarGz: writeOne puts one file in place.                           *)
Extract(b) ==
    /\ pc[b] = "extract"
    /\ \E f \in todo[b] :
          /\ tree' = [tree EXCEPT ![f] = tarball]
          /\ todo' = [todo EXCEPT ![b] = @ \ {f}]
          /\ pc' = [pc EXCEPT ![b] = IF todo[b] = {f} THEN "mark" ELSE @]
    /\ Overtake(tarball)
    /\ UNCHANGED <<manifest, licences, tarball, marker, model, audit, holder,
                   needs, ver, attempt, cancelled, misled>>

(* The marker is rewritten in place, and a failure is ignored: it may also  *)
(* keep its content or lose it.  An archive is removed.                     *)
Mark(b) ==
    /\ Goto(b, "mark", After(b, "server"))
    /\ marker' \in {ver[b], None, marker}
    /\ behind' = (behind /\ marker' \notin {ver[b], None})
    /\ tarball' = IF ver[b] \in Raw THEN tarball ELSE None
    /\ UNCHANGED <<manifest, licences, tree, model, audit, holder, progress,
                   cancelled, misled>>

-----------------------------------------------------------------------------
(* ensureModel, and the record.                                             *)

ModelCached(b) ==
    /\ Goto(b, "model", "audit")
    /\ model = ver[b]
    /\ UNCHANGED <<manifest, disk, holder, progress, cancelled, history>>

ModelMissing(b) ==
    /\ Goto(b, "model", "getmodel")
    /\ model # ver[b]
    /\ UNCHANGED <<manifest, disk, holder, progress, cancelled, history>>

ModelDownloaded(b) ==
    /\ Goto(b, "getmodel", "audit")
    /\ model' = ver[b]
    /\ attempt' = [attempt EXCEPT ![b] = 1]
    /\ UNCHANGED <<manifest, licences, tree, tarball, marker, audit, holder,
                   needs, ver, todo, cancelled, history>>

(* recordInstall merges into what is there; a failure is only logged.       *)
RecordInstall(b) ==
    /\ pc[b] = "audit"
    /\ Leave(b, "ok")
    /\ \/ audit' = [a \in Artifacts |->
                       IF a \in needs[b] THEN ver[b] ELSE audit[a]]
       \/ UNCHANGED audit
    /\ UNCHANGED <<manifest, licences, tree, tarball, marker, model, behind>>

-----------------------------------------------------------------------------
(* Failures and the surroundings.                                           *)

(* A manifest that does not parse or lacks the entry, a directory, a file   *)
(* or a rename that fails.  An archive is removed.                          *)
Fail(b) ==
    /\ pc[b] \in {"manifest", "lock"} \union (Locked \ {"audit"})
    /\ Leave(b, "failed")
    /\ tarball' = IF pc[b] \in {"extract", "mark"} /\ ver[b] \notin Raw
                  THEN None ELSE tarball
    /\ UNCHANGED <<manifest, licences, tree, marker, model, audit, behind>>

Crash(b) ==
    /\ pc[b] \in {"manifest", "lock"} \union Locked
    /\ Leave(b, "failed")
    /\ UNCHANGED <<manifest, disk, behind>>

(* The watchdog evicts the daemon.                                          *)
Cancel(b) ==
    /\ pc[b] \in {"manifest", "lock"} \union Locked
    /\ cancelled' = cancelled \union {b}
    /\ UNCHANGED <<manifest, disk, holder, pc, progress, history>>

(* An upgrade, or a roll-back.                                              *)
Publish ==
    /\ changes < MaxPublish
    /\ changes' = changes + 1
    /\ published' \in Versions \ {published}
    /\ UNCHANGED <<disk, holder, pc, progress, cancelled, history>>

-----------------------------------------------------------------------------
Server(b) ==
    \/ ServerCached(b) \/ ServerMissing(b) \/ ServerDownloaded(b)
    \/ AttemptFails(b, "getserver") \/ Extract(b) \/ Mark(b)

Model(b) ==
    \/ ModelCached(b) \/ ModelMissing(b) \/ ModelDownloaded(b)
    \/ AttemptFails(b, "getmodel")

Step(b) ==
    \/ FetchManifest(b) \/ AttemptFails(b, "manifest")
    \/ AcquireLock(b) \/ LockTimeout(b)
    \/ LicencesBegin(b) \/ LicencesEnd(b)
    \/ Server(b) \/ Model(b) \/ RecordInstall(b) \/ Fail(b)

Next ==
    \/ \E b \in Boots : Start(b) \/ Step(b) \/ Crash(b) \/ Cancel(b)
    \/ Publish

Spec == Init /\ [][Next]_vars

(* Every boot runs on: attempts and the wait for the lock are timed.        *)
FairSpec == Spec /\ \A b \in Boots : WF_vars(Step(b))

-----------------------------------------------------------------------------
(* Properties.                                                              *)

Returns(b) == pc[b] # "ok" /\ pc'[b] = "ok"

(* A bootstrap that succeeds hands out the model its manifest names, and    *)
(* all files of its llama-server, whatever crashes, failures and changes of *)
(* the manifest came before (EnsureAll, EnsureLlamaServer, EnsureModel).    *)
(* One case is excused: a change of version was interrupted, or its marker  *)
(* not written, and the manifest moved back to what the old marker says.    *)
ReturnsWhatIsInstalled ==
    [][\A b \in Boots : Returns(b) =>
          /\ "llama_server" \in needs[b] => Whole(ver[b]) \/ b \in misled
          /\ "model" \in needs[b] => model = ver[b]]_vars

(* No file of llama-server and no model is put in place unless the licences *)
(* are there (installLicenses fails closed, under the same lock).           *)
LicencesFirst ==
    [][tree' # tree \/ model' # model => licences = "whole"]_vars

(* Every bootstrap ends: downloads are not retried for ever, and nobody     *)
(* waits for a lock that is never released.  There is one of each daemon,   *)
(* so that all of them are at rest in the end.                              *)
BootsEnd ==
    <>[] \A b \in Boots : pc[b] \in {"off"} \union Ended
=============================================================================
