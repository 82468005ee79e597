--------------------------- MODULE BuildLifecycle ---------------------------
(***************************************************************************)
(* The life of an image build.  An upload stages an archive in the object  *)
(* store and creates the build, its image row and an outbox row; the       *)
(* outbox worker of Core publishes the message; a goroutine of Builder     *)
(* starts the build, downloads the archive, pushes the image and reports   *)
(* the result to Core.  Meanwhile owners cancel and delete builds and      *)
(* images, the garbage collector ends stale builds and stale stagings, and *)
(* either service restarts.                                                *)
(*                                                                         *)
(* One step is one transaction of Core, or one call to the registry, to    *)
(* the object store or to Docker.  All builds belong to one owner.         *)
(***************************************************************************)
EXTENDS Naturals, FiniteSets

CONSTANTS
    Builds,      \* a build, its image row, its archive and the content it makes
    Tags,        \* image tags, each a repository:tag of the registry
    TagOf,       \* the tag a build is for
    Workers,     \* consumer goroutines of Builder
    Callers,     \* Core's handlers of build cancellation and deletion
    Gc,          \* the garbage collector of Core
    None,        \* no build
    Requests,    \* what owners ask for in this model
    MaxCopies,   \* bound: copies of one message in the broker
    MaxCrashes,  \* bound: restarts of either service
    MaxFaults,   \* bound: failing calls
    FaultPoints  \* the calls that may fail in this model

Faults == {"db", "registry", "object", "download", "reply", "publish",
           "confirm", "dbMark"}

ASSUME BuildConstants ==
    /\ TagOf \in [Builds -> Tags]
    /\ None \notin Builds
    /\ Workers \cap Callers = {} /\ Gc \notin Workers \cup Callers
    /\ IsFiniteSet(Workers)
    /\ Requests \subseteq {"cancel", "delete", "deleteImage"}
    /\ MaxCopies \in Nat /\ MaxCrashes \in Nat /\ MaxFaults \in Nat
    /\ FaultPoints \subseteq Faults

VARIABLES
    builds,    \* table builds: the status of each
    images,    \* table images: the status of each
    staged,    \* table staged_object_reservations, kind build_archive
    objects,   \* archives in the object store
    uploads,   \* the requests that create builds
    outbox,    \* table build_queue_outbox: status per build
    queue,     \* RabbitMQ: deliverable copies of a build's message
    publisher, \* the outbox worker
    tasks,     \* the goroutines that work on builds
    registry,  \* the content a tag of the registry points to
    erasures,  \* queued deletions of images and their executor
    crashes, faults  \* budgets spent

rows == <<builds, images>>
archives == <<staged, objects, uploads>>
carriers == <<outbox, queue, publisher>>
budgets == <<crashes, faults>>
vars == <<builds, images, staged, objects, uploads, outbox, queue, publisher,
          tasks, registry, erasures, crashes, faults>>

-----------------------------------------------------------------------------
(* Data *)

\* "failed" stands for each of the failed_* statuses.
TerminalStatuses == {"success", "failed", "canceled"}
BuildStatuses == {"absent", "pending", "running"} \cup TerminalStatuses
ImageStatuses == {"absent", "building", "available", "deleting", "error"}

Active(b) == builds[b] \in {"pending", "running"}
Terminal(b) == builds[b] \in TerminalStatuses

Tasks == Workers \cup Callers \cup {Gc}

\* Where a task is.  Builder: download, build, discard.  Core: complete to
\* object.  Garbage collector: staleObject, staleRelease.
TaskPcs == {"idle", "download", "build", "discard", "complete", "measure", "digest",
            "manifest", "mark", "record", "release", "object", "staleObject",
            "staleRelease"}
Verdicts == TerminalStatuses \cup {"none", "quota", "unmeasured"}
TaskType == [pc : TaskPcs, build : Builds \cup {None}, verdict : Verdicts,
             digest : Builds \cup {None}]
IdleTask == [pc |-> "idle", build |-> None, verdict |-> "none", digest |-> None]

NoErasure == [pc |-> "none", digest |-> None]
IdlePublisher == [pc |-> "idle", build |-> None]

Fault(point) ==
    /\ point \in FaultPoints
    /\ faults < MaxFaults
    /\ faults' = faults + 1

Init ==
    /\ builds = [b \in Builds |-> "absent"]
    /\ images = [b \in Builds |-> "absent"]
    /\ staged = [b \in Builds |-> "none"]
    /\ objects = {}
    /\ uploads = [b \in Builds |-> "none"]
    /\ outbox = [b \in Builds |-> "none"]
    /\ queue = [b \in Builds |-> 0]
    /\ publisher = IdlePublisher
    /\ tasks = [t \in Tasks |-> IdleTask]
    /\ registry = [g \in Tags |-> None]
    /\ erasures = [b \in Builds |-> NoErasure]
    /\ crashes = 0
    /\ faults = 0

-----------------------------------------------------------------------------
(* Uploads: CreateBuildFromArchive and CreateBuildFromGit *)

SetUpload(b, pc) == uploads' = [uploads EXCEPT ![b] = pc]

ReserveArchive(b) ==
    /\ uploads[b] = "none"
    /\ SetUpload(b, "reserved")
    /\ staged' = [staged EXCEPT ![b] = "active"]
    /\ UNCHANGED <<rows, objects, carriers, tasks, registry, erasures, budgets>>

UploadArchive(b) ==
    /\ uploads[b] = "reserved"
    /\ \/ objects' = objects \cup {b} /\ SetUpload(b, "uploaded") /\ UNCHANGED faults
       \/ Fault("object") /\ SetUpload(b, "rollback") /\ UNCHANGED objects
    /\ UNCHANGED <<rows, staged, carriers, tasks, registry, erasures, crashes>>

\* Mutant: several builds of one tag at a time.
NeverBusy(b) == FALSE

\* An image of this tag is being built: idx_images_owner_tag_building_unique.
TagBusy(b) == \E c \in Builds : TagOf[c] = TagOf[b] /\ images[c] = "building"

\* Image row, build row and outbox row in one transaction.
CreateQueuedBuild(b) ==
    /\ uploads[b] = "uploaded"
    /\ ~TagBusy(b)
    /\ SetUpload(b, "created")
    /\ images' = [images EXCEPT ![b] = "building"]
    /\ builds' = [builds EXCEPT ![b] = "pending"]
    /\ outbox' = [outbox EXCEPT ![b] = "pending"]
    /\ UNCHANGED <<staged, objects, queue, publisher, tasks, registry, erasures,
                   budgets>>

\* The tag is busy, a limit is reached or the transaction fails.
RejectBuild(b) ==
    /\ uploads[b] = "uploaded"
    /\ SetUpload(b, "rollback")
    /\ UNCHANGED <<rows, staged, objects, carriers, tasks, registry, erasures,
                   budgets>>

\* Errors of both calls are ignored.
RollBackUpload(b) ==
    /\ \/ /\ uploads[b] = "rollback"
          /\ \/ objects' = objects \ {b} /\ UNCHANGED faults
             \/ Fault("object") /\ UNCHANGED objects
          /\ SetUpload(b, "unreserve")
          /\ UNCHANGED staged
       \/ /\ uploads[b] = "unreserve"
          /\ \/ staged' = [staged EXCEPT ![b] = "released"] /\ UNCHANGED faults
             \/ Fault("db") /\ UNCHANGED staged
          /\ SetUpload(b, "ended")
          /\ UNCHANGED objects
    /\ UNCHANGED <<rows, carriers, tasks, registry, erasures, crashes>>

-----------------------------------------------------------------------------
(* Outbox worker *)

\* The outbox row goes with its build (ON DELETE CASCADE).
SetOutbox(b, status) ==
    outbox' = IF outbox[b] = "none" THEN outbox ELSE [outbox EXCEPT ![b] = status]

\* Mutant: the row counts as published before the broker has the message.
LeaseAsPublished(b) ==
    /\ publisher.pc = "idle"
    /\ outbox[b] \in {"pending", "publishing"}
    /\ SetOutbox(b, "published")
    /\ publisher' = [pc |-> "publish", build |-> b]
    /\ UNCHANGED <<rows, archives, queue, tasks, registry, erasures, budgets>>

LeaseOutbox(b) ==
    /\ publisher.pc = "idle"
    /\ outbox[b] \in {"pending", "publishing"}
    /\ SetOutbox(b, "publishing")
    /\ publisher' = [pc |-> "publish", build |-> b]
    /\ UNCHANGED <<rows, archives, queue, tasks, registry, erasures, budgets>>

\* The build ended or is gone; a failure to mark the row is ignored.
DiscardOutbox ==
    LET b == publisher.build IN
    /\ publisher.pc = "publish"
    /\ ~Active(b)
    /\ \/ SetOutbox(b, "discarded") /\ UNCHANGED faults
       \/ Fault("dbMark") /\ UNCHANGED outbox
    /\ publisher' = IdlePublisher
    /\ UNCHANGED <<rows, archives, queue, tasks, registry, erasures, crashes>>

Copies(b) ==
    queue[b] + Cardinality({w \in Workers : tasks[w].build = b})

Enqueue(b) == Copies(b) < MaxCopies /\ queue' = [queue EXCEPT ![b] = @ + 1]

PublishMessage ==
    /\ publisher.pc = "publish"
    /\ Active(publisher.build)
    /\ Enqueue(publisher.build)
    /\ publisher' = [publisher EXCEPT !.pc = "mark"]
    /\ UNCHANGED <<rows, archives, outbox, tasks, registry, erasures, budgets>>

\* The publish, or a read before it, fails; with "confirm" only the broker's
\* confirmation was lost.
PublishFails ==
    LET b == publisher.build IN
    /\ publisher.pc = "publish"
    /\ \/ Fault("publish") /\ UNCHANGED queue
       \/ Fault("confirm") /\ Active(b) /\ Enqueue(b)
    /\ SetOutbox(b, "pending")
    /\ publisher' = IdlePublisher
    /\ UNCHANGED <<rows, archives, tasks, registry, erasures, crashes>>

MarkPublished ==
    /\ publisher.pc = "mark"
    /\ \/ SetOutbox(publisher.build, "published") /\ UNCHANGED faults
       \/ Fault("dbMark") /\ UNCHANGED outbox
    /\ publisher' = IdlePublisher
    /\ UNCHANGED <<rows, archives, queue, tasks, registry, erasures, crashes>>

-----------------------------------------------------------------------------
(* Tasks *)

Goto(t, pc) == tasks' = [tasks EXCEPT ![t].pc = pc]

GotoWith(t, pc, verdict, digest) ==
    tasks' = [tasks EXCEPT ![t] = [@ EXCEPT !.pc = pc, !.verdict = verdict,
                                            !.digest = digest]]

Begin(t, b, pc, verdict) ==
    tasks' = [tasks EXCEPT ![t] = [IdleTask EXCEPT !.pc = pc, !.build = b,
                                                   !.verdict = verdict]]

End(t) == tasks' = [tasks EXCEPT ![t] = IdleTask]

\* Core's handler returns without an error: Builder goes on to its archive.
Return(t) == IF t \in Workers THEN Goto(t, "discard") ELSE End(t)

\* It returns an error; Builder puts the message back unless it is permanent.
Fail(t, permanent) ==
    /\ End(t)
    /\ queue' = IF t \in Workers /\ ~permanent
                THEN [queue EXCEPT ![tasks[t].build] = @ + 1] ELSE queue

-----------------------------------------------------------------------------
(* Builder: HandleBuildMessage *)

\* Mutant: a build that runs already starts once more.
DeliverAgain(w, b) ==
    /\ tasks[w].pc = "idle"
    /\ queue[b] > 0
    /\ queue' = [queue EXCEPT ![b] = @ - 1]
    /\ IF Active(b) THEN /\ builds' = [builds EXCEPT ![b] = "running"]
                         /\ Begin(w, b, "download", "none")
                    ELSE UNCHANGED <<builds, tasks>>
    /\ UNCHANGED <<images, archives, outbox, publisher, registry, erasures, budgets>>

\* StartBuildRecord on a delivered message.  Only a pending build starts; the
\* message of one that runs already, or is gone, is dropped.
Deliver(w, b) ==
    /\ tasks[w].pc = "idle"
    /\ queue[b] > 0
    /\ queue' = [queue EXCEPT ![b] = @ - 1]
    /\ \/ /\ builds[b] = "pending"
          /\ builds' = [builds EXCEPT ![b] = "running"]
          /\ Begin(w, b, "download", "none")
       \/ Terminal(b) /\ Begin(w, b, "discard", "none") /\ UNCHANGED builds
       \/ builds[b] \in {"running", "absent"} /\ UNCHANGED <<builds, tasks>>
    /\ UNCHANGED <<images, archives, outbox, publisher, registry, erasures, budgets>>

\* The reply of StartBuildRecord is lost ("reply"), the download fails, the
\* archive is not there (permanent) or is invalid, or the poll of the build's
\* status found it ended and interrupts.
Download(w) ==
    LET b == tasks[w].build IN
    /\ tasks[w].pc = "download"
    /\ \/ /\ b \in objects
          /\ \/ Goto(w, "build")
             \/ GotoWith(w, "complete", "failed", None)
          /\ UNCHANGED <<queue, faults>>
       \/ b \notin objects /\ Fail(w, TRUE) /\ UNCHANGED faults
       \/ /\ Terminal(b)
          /\ GotoWith(w, "complete", "canceled", None)
          /\ UNCHANGED <<queue, faults>>
       \/ (Fault("download") \/ Fault("reply")) /\ Fail(w, FALSE)
    /\ UNCHANGED <<rows, archives, outbox, publisher, registry, erasures, crashes>>

\* Kaniko builds and pushes to the build's tag, or fails before or after it; an
\* interrupted build is reported as canceled whether it pushed or not.
Build(w) ==
    LET b == tasks[w].build IN
    /\ tasks[w].pc = "build"
    /\ \E pushed \in BOOLEAN, verdict \in TerminalStatuses :
          /\ verdict = "success" => pushed
          /\ verdict = "canceled" => Terminal(b)
          /\ registry' = IF pushed THEN [registry EXCEPT ![TagOf[b]] = b]
                                   ELSE registry
          /\ GotoWith(w, "complete", verdict, None)
    /\ UNCHANGED <<rows, archives, carriers, erasures, budgets>>

\* The archive is deleted, whose failure is ignored, and the message
\* acknowledged; or Core's reply was lost and the message comes back.
Discard(w) ==
    /\ tasks[w].pc = "discard"
    /\ \/ objects' = objects \ {tasks[w].build} /\ Fail(w, TRUE) /\ UNCHANGED faults
       \/ Fault("object") /\ Fail(w, TRUE) /\ UNCHANGED objects
       \/ Fault("reply") /\ Fail(w, FALSE) /\ UNCHANGED objects
    /\ UNCHANGED <<rows, staged, uploads, outbox, publisher, registry, erasures,
                   crashes>>

-----------------------------------------------------------------------------
(* Core: CompleteBuildRecord, and the steps it shares with cancellation *)

\* A success that comes after a cancellation would have its manifest removed,
\* were the image row not gone by then: cleanupBuiltImageManifest finds nothing.
ReadComplete(t) ==
    LET b == tasks[t].build IN
    /\ tasks[t].pc = "complete"
    /\ \/ builds[b] = "absent" /\ Fail(t, TRUE) /\ UNCHANGED faults
       \/ Terminal(b) /\ Goto(t, "release") /\ UNCHANGED <<queue, faults>>
       \/ /\ Active(b)
          /\ Goto(t, IF tasks[t].verdict = "success" THEN "measure" ELSE "mark")
          /\ UNCHANGED <<queue, faults>>
       \/ Fault("db") /\ Fail(t, FALSE)
    /\ UNCHANGED <<rows, archives, outbox, publisher, registry, erasures, crashes>>

\* The image row, size and digest of what the tag points to, and the quota.
Measure(t) ==
    LET b == tasks[t].build
        digest == registry[TagOf[b]]
    IN
    /\ tasks[t].pc = "measure"
    /\ \/ images[b] = "absent" /\ Fail(t, TRUE) /\ UNCHANGED faults
       \/ /\ images[b] # "absent"
          /\ (digest = None /\ UNCHANGED faults) \/ Fault("registry")
          /\ GotoWith(t, "mark", "unmeasured", None)
          /\ UNCHANGED queue
       \/ /\ images[b] # "absent" /\ digest # None
          /\ \/ GotoWith(t, "record", "success", digest)
             \/ GotoWith(t, "mark", "quota", digest)
          /\ UNCHANGED <<queue, faults>>
       \/ Fault("db") /\ Fail(t, FALSE)
    /\ UNCHANGED <<rows, archives, outbox, publisher, registry, erasures, crashes>>

\* Mutant: the reason for the failure is stored as it came.
StatusAsGiven(verdict) == verdict

StatusFor(verdict) == IF verdict = "canceled" THEN "canceled" ELSE "failed"

\* Mutant: the last report wins.
MarkAnyway(t) ==
    LET b == tasks[t].build IN
    /\ tasks[t].pc = "mark"
    /\ IF builds[b] = "absent" THEN UNCHANGED rows
       ELSE /\ builds' = [builds EXCEPT ![b] = StatusFor(tasks[t].verdict)]
            /\ images' = [images EXCEPT ![b] = "absent"]
    /\ Goto(t, "release")
    /\ UNCHANGED <<archives, carriers, registry, erasures, budgets>>

\* MarkBuildFailedAndDeleteImageTx: a build that ended keeps its status.  A build
\* that could not be measured keeps its staging.
Mark(t) ==
    LET b == tasks[t].build
        verdict == tasks[t].verdict
    IN
    /\ tasks[t].pc = "mark"
    /\ \/ /\ IF Active(b)
             THEN /\ builds' = [builds EXCEPT ![b] = StatusFor(verdict)]
                  /\ images' = [images EXCEPT ![b] = "absent"]
             ELSE UNCHANGED rows
          /\ CASE verdict = "quota"      -> Goto(t, "manifest")
               [] verdict = "unmeasured" -> Return(t)
               [] OTHER                  -> Goto(t, "release")
          /\ UNCHANGED <<queue, faults>>
       \/ Fault("db") /\ Fail(t, FALSE) /\ UNCHANGED rows
    /\ UNCHANGED <<archives, outbox, publisher, registry, erasures, crashes>>

\* The registry forgets a manifest, and with it the tags that point to it.
Forget(digest) ==
    registry' = [g \in Tags |-> IF registry[g] = digest THEN None ELSE registry[g]]

\* DeleteManifest, whose error is ignored.
DeleteManifest(t) ==
    /\ tasks[t].pc = "manifest"
    /\ \/ Forget(tasks[t].digest) /\ UNCHANGED faults
       \/ Fault("registry") /\ UNCHANGED registry
    /\ Goto(t, IF t \in Callers THEN "mark" ELSE "release")
    /\ UNCHANGED <<rows, archives, carriers, erasures, crashes>>

\* Mutant: the image the tag had before stays.
RecordBeside(t) ==
    LET b == tasks[t].build IN
    /\ tasks[t].pc = "record"
    /\ IF Active(b)
       THEN /\ builds' = [builds EXCEPT ![b] = "success"]
            /\ images' = [images EXCEPT ![b] = "available"]
       ELSE UNCHANGED rows
    /\ Goto(t, "release")
    /\ UNCHANGED <<archives, carriers, registry, erasures, budgets>>

\* UpdateBuildAndImageSizeTx: the image replaces every other one of its tag.
Record(t) ==
    LET b == tasks[t].build IN
    /\ tasks[t].pc = "record"
    /\ \/ /\ IF Active(b)
             THEN /\ builds' = [builds EXCEPT ![b] = "success"]
                  /\ images' = [c \in Builds |->
                        IF c = b THEN "available"
                        ELSE IF TagOf[c] = TagOf[b] THEN "absent" ELSE images[c]]
             ELSE UNCHANGED rows
          /\ Goto(t, "release")
          /\ UNCHANGED <<queue, faults>>
       \/ Fault("db") /\ Fail(t, FALSE) /\ UNCHANGED rows
    /\ UNCHANGED <<archives, outbox, publisher, registry, erasures, crashes>>

Unstage(b) ==
    staged' = IF staged[b] = "active" THEN [staged EXCEPT ![b] = "released"]
                                      ELSE staged

\* cleanupBuildArchive: the reservation, then the object; errors are ignored.
Release(t) ==
    /\ tasks[t].pc = "release"
    /\ \/ Unstage(tasks[t].build) /\ UNCHANGED faults
       \/ Fault("db") /\ UNCHANGED staged
    /\ Goto(t, "object")
    /\ UNCHANGED <<rows, objects, uploads, carriers, registry, erasures, crashes>>

DeleteArchive(t) ==
    /\ tasks[t].pc = "object"
    /\ \/ objects' = objects \ {tasks[t].build} /\ UNCHANGED faults
       \/ Fault("object") /\ UNCHANGED objects
    /\ Return(t)
    /\ UNCHANGED <<rows, staged, uploads, carriers, registry, erasures, crashes>>

-----------------------------------------------------------------------------
(* Core: owners cancel and delete *)

\* CancelBuildRecord reads the build.
CancelBuild(k, b) ==
    /\ "cancel" \in Requests
    /\ tasks[k].pc = "idle"
    /\ Active(b)
    /\ Begin(k, b, IF builds[b] = "running" THEN "digest" ELSE "mark", "canceled")
    /\ UNCHANGED <<rows, archives, carriers, registry, erasures, budgets>>

\* cleanupBuiltImageManifestForImage asks what the tag points to.
FindDigest(k) ==
    LET b == tasks[k].build
        digest == registry[TagOf[b]]
    IN
    /\ tasks[k].pc = "digest"
    /\ \/ /\ images[b] # "absent" /\ digest # None
          /\ GotoWith(k, "manifest", "canceled", digest)
          /\ UNCHANGED faults
       \/ (images[b] = "absent" \/ digest = None) /\ Goto(k, "mark") /\ UNCHANGED faults
       \/ Fault("registry") /\ Goto(k, "mark")
    /\ UNCHANGED <<rows, archives, carriers, registry, erasures, crashes>>

\* In any status; the image row stays as it is.
DeleteBuild(k, b) ==
    /\ "delete" \in Requests
    /\ tasks[k].pc = "idle"
    /\ builds[b] # "absent"
    /\ builds' = [builds EXCEPT ![b] = "absent"]
    /\ outbox' = [outbox EXCEPT ![b] = "none"]
    /\ Begin(k, b, "release", "none")
    /\ UNCHANGED <<images, archives, queue, publisher, registry, erasures, budgets>>

SetErasure(b, pc, digest) ==
    erasures' = [erasures EXCEPT ![b] = [pc |-> pc, digest |-> digest]]

\* Image Delete: only what is available; the resource queue carries it.
DeleteImage(b) ==
    /\ "deleteImage" \in Requests
    /\ images[b] = "available"
    /\ erasures[b].pc = "none"
    /\ images' = [images EXCEPT ![b] = "deleting"]
    /\ SetErasure(b, "load", None)
    /\ UNCHANGED <<builds, archives, carriers, tasks, registry, budgets>>

\* executeQueuedImageDelete: the row, the digest of its tag, the manifest and
\* the row again.  Only a failure to read or to delete the row counts.
EraseImage(b) ==
    LET digest == registry[TagOf[b]] IN
    /\ \/ /\ erasures[b].pc = "load"
          /\ \/ images[b] # "absent" /\ SetErasure(b, "digest", None) /\ UNCHANGED faults
             \/ images[b] = "absent" /\ SetErasure(b, "none", None) /\ UNCHANGED faults
             \/ Fault("db") /\ SetErasure(b, "none", None)
          /\ UNCHANGED <<images, registry>>
       \/ /\ erasures[b].pc = "digest"
          /\ \/ digest # None /\ SetErasure(b, "manifest", digest) /\ UNCHANGED faults
             \/ digest = None /\ SetErasure(b, "row", None) /\ UNCHANGED faults
             \/ Fault("registry") /\ SetErasure(b, "row", None)
          /\ UNCHANGED <<images, registry>>
       \/ /\ erasures[b].pc = "manifest"
          /\ \/ Forget(erasures[b].digest) /\ UNCHANGED faults
             \/ Fault("registry") /\ UNCHANGED registry
          /\ SetErasure(b, "row", None)
          /\ UNCHANGED images
       \/ /\ erasures[b].pc = "row"
          /\ \/ /\ images' = [images EXCEPT ![b] = "absent"]
                /\ SetErasure(b, "none", None)
                /\ UNCHANGED faults
             \/ Fault("db") /\ SetErasure(b, "load", None) /\ UNCHANGED images
             \/ /\ Fault("db")
                /\ images' = IF images[b] = "absent" THEN images
                             ELSE [images EXCEPT ![b] = "error"]
                /\ SetErasure(b, "none", None)
          /\ UNCHANGED registry
    /\ UNCHANGED <<builds, archives, carriers, tasks, crashes>>

-----------------------------------------------------------------------------
(* Core: garbage collector *)

\* Mutant: only builds that never started go stale.
EndStalePending(b) ==
    /\ tasks[Gc].pc = "idle"
    /\ builds[b] = "pending"
    /\ Begin(Gc, b, "complete", "failed")
    /\ UNCHANGED <<rows, archives, carriers, registry, erasures, budgets>>

\* CompleteBuildRecord(failed_timeout) for a build of GetStaleBuilds.
EndStaleBuild(b) ==
    /\ tasks[Gc].pc = "idle"
    /\ Active(b)
    /\ Begin(Gc, b, "complete", "failed")
    /\ UNCHANGED <<rows, archives, carriers, registry, erasures, budgets>>

\* A request refreshes its reservation and ends before that is stale.
Uploading(b) == uploads[b] \in {"reserved", "uploaded", "rollback", "unreserve"}

\* Mutants: a staging goes stale under an active build; it never does once
\* there is a build.
StaleByAge(b) == staged[b] = "active" /\ ~Uploading(b)
StaleUnbuilt(b) == staged[b] = "active" /\ ~Uploading(b) /\ builds[b] = "absent"

\* ListStaleActive.
Stale(b) == staged[b] = "active" /\ ~Uploading(b) /\ ~Active(b)

\* cleanupStaleStagedObjects: the object, then the reservation.
EndStaleStaging(b) ==
    /\ tasks[Gc].pc = "idle"
    /\ Stale(b)
    /\ Begin(Gc, b, "staleObject", "none")
    /\ UNCHANGED <<rows, archives, carriers, registry, erasures, budgets>>

DeleteStale ==
    LET b == tasks[Gc].build IN
    /\ \/ /\ tasks[Gc].pc = "staleObject"
          /\ \/ objects' = objects \ {b} /\ Goto(Gc, "staleRelease") /\ UNCHANGED faults
             \/ Fault("object") /\ End(Gc) /\ UNCHANGED objects
          /\ UNCHANGED staged
       \/ /\ tasks[Gc].pc = "staleRelease"
          /\ \/ Unstage(b) /\ UNCHANGED faults
             \/ Fault("db") /\ UNCHANGED staged
          /\ End(Gc)
          /\ UNCHANGED objects
    /\ UNCHANGED <<rows, uploads, carriers, registry, erasures, crashes>>

-----------------------------------------------------------------------------
(* Restarts *)

InCore(t) == tasks[t].pc \notin {"idle", "download", "build", "discard"}

\* Core dies: requests and its workers end, Builder's calls fail and their
\* messages come back.  At start-up running image deletions are failed.
CoreRestarts ==
    /\ crashes < MaxCrashes
    /\ crashes' = crashes + 1
    /\ uploads' = [b \in Builds |-> IF Uploading(b) THEN "ended" ELSE uploads[b]]
    /\ publisher' = IdlePublisher
    /\ tasks' = [t \in Tasks |-> IF InCore(t) THEN IdleTask ELSE tasks[t]]
    /\ queue' = [b \in Builds |->
          queue[b] + Cardinality({w \in Workers : InCore(w) /\ tasks[w].build = b})]
    /\ erasures' = [b \in Builds |->
          IF erasures[b].pc = "load" THEN erasures[b] ELSE NoErasure]
    /\ UNCHANGED <<rows, staged, objects, outbox, registry, faults>>

\* Builder dies: unacknowledged messages come back.
BuilderCrashes ==
    /\ crashes < MaxCrashes
    /\ crashes' = crashes + 1
    /\ tasks' = [t \in Tasks |-> IF t \in Workers THEN IdleTask ELSE tasks[t]]
    /\ queue' = [b \in Builds |-> Copies(b)]
    /\ UNCHANGED <<rows, archives, outbox, publisher, registry, erasures, faults>>

\* Builder stops in order: builds under way are interrupted, one of them perhaps
\* just after its push, and reported as canceled before the process ends.
BuilderStops ==
    /\ crashes < MaxCrashes
    /\ crashes' = crashes + 1
    /\ tasks' = [t \in Tasks |->
          IF tasks[t].pc \in {"download", "build"}
          THEN [tasks[t] EXCEPT !.pc = "complete", !.verdict = "canceled"]
          ELSE tasks[t]]
    /\ \/ UNCHANGED registry
       \/ \E w \in Workers :
             /\ tasks[w].pc = "build"
             /\ registry' = [registry EXCEPT ![TagOf[tasks[w].build]] = tasks[w].build]
    /\ UNCHANGED <<rows, archives, carriers, erasures, faults>>

-----------------------------------------------------------------------------

Upload(b) ==
    \/ UploadArchive(b) \/ CreateQueuedBuild(b) \/ RejectBuild(b)
    \/ RollBackUpload(b)

Publisher ==
    \/ \E b \in Builds : LeaseOutbox(b)
    \/ DiscardOutbox \/ PublishMessage \/ PublishFails \/ MarkPublished

Complete(t) ==
    \/ ReadComplete(t) \/ Measure(t) \/ Mark(t) \/ DeleteManifest(t) \/ Record(t)
    \/ Release(t) \/ DeleteArchive(t)

Owners ==
    \E b \in Builds :
        \/ ReserveArchive(b) \/ DeleteImage(b)
        \/ \E k \in Callers : CancelBuild(k, b) \/ DeleteBuild(k, b)

Work(w) == Download(w) \/ Build(w) \/ Discard(w)

Consume == \E w \in Workers, b \in Builds : Deliver(w, b)

Collect(b) == EndStaleBuild(b) \/ EndStaleStaging(b)

Restart == CoreRestarts \/ BuilderCrashes \/ BuilderStops

Next ==
    \/ Owners \/ Publisher \/ Consume \/ DeleteStale \/ Restart
    \/ \E b \in Builds : Upload(b) \/ EraseImage(b) \/ Collect(b)
    \/ \E t \in Tasks : Complete(t)
    \/ \E w \in Workers : Work(w)
    \/ \E k \in Callers : FindDigest(k)

Spec == Init /\ [][Next]_vars

\* Requests, workers and queued deletions go on; a build ends by its timeout at
\* the latest.  Every round of the collector visits every stale build and
\* staging, and there is always another round.
Fairness ==
    /\ WF_vars(Publisher) /\ WF_vars(Consume) /\ WF_vars(DeleteStale)
    /\ \A b \in Builds : WF_vars(Upload(b)) /\ WF_vars(EraseImage(b))
    /\ \A t \in Tasks : WF_vars(Complete(t))
    /\ \A w \in Workers : WF_vars(Work(w))
    /\ \A k \in Callers : WF_vars(FindDigest(k))
    /\ \A b \in Builds : SF_vars(EndStaleBuild(b)) /\ SF_vars(EndStaleStaging(b))

FairSpec == Spec /\ Fairness

-----------------------------------------------------------------------------
(* Properties *)

\* Every table, queue and goroutine holds values the code can store there.
TypeOK ==
    /\ builds \in [Builds -> BuildStatuses]
    /\ images \in [Builds -> ImageStatuses]
    /\ staged \in [Builds -> {"none", "active", "released"}]
    /\ objects \in SUBSET Builds
    /\ uploads \in [Builds -> {"none", "reserved", "uploaded", "rollback",
                               "unreserve", "created", "ended"}]
    /\ outbox \in [Builds -> {"none", "pending", "publishing", "published",
                              "discarded"}]
    /\ queue \in [Builds -> Nat]
    /\ publisher \in [pc : {"idle", "publish", "mark"}, build : Builds \cup {None}]
    /\ tasks \in [Tasks -> TaskType]
    /\ registry \in [Tags -> Builds \cup {None}]
    /\ erasures \in [Builds -> [pc : {"none", "load", "digest", "manifest", "row"},
                                digest : Builds \cup {None}]]
    /\ crashes \in Nat
    /\ faults \in Nat

\* No two goroutines of Builder run the same build, however often the broker
\* delivers its message.
ExclusiveBuild ==
    \A w, x \in Workers :
        /\ tasks[w].pc \in {"download", "build"}
        /\ tasks[x].pc \in {"download", "build"}
        /\ tasks[w].build = tasks[x].build
        => w = x

\* Completion, cancellation and the collector may all report on one build: the
\* first report stands, and no build runs twice.
StatusOnlyAdvances ==
    [][\A b \in Builds :
          /\ builds[b] = "running" => builds'[b] # "pending"
          /\ Terminal(b) => builds'[b] \in {builds[b], "absent"}]_vars

\* A pending build always has an outbox row to publish or a message in the broker.
PendingIsCarried ==
    \A b \in Builds :
        builds[b] = "pending" =>
            outbox[b] \in {"pending", "publishing"} \/ queue[b] > 0

\* As long as a build may still be started its archive is there: neither a late
\* report, a redelivery nor the collector removes it.
ArchiveKept == \A b \in Builds : Active(b) => b \in objects

\* An image row says building exactly as long as its build is active, and a
\* successful build leaves no such row behind.
ImageFollowsBuild ==
    \A b \in Builds :
        builds[b] # "absent" => (Active(b) <=> images[b] = "building")

\* A tag has at most one image besides the one being built, so that the unique
\* index on finished images never rejects a completed build.
OneImagePerTag ==
    \A b, c \in Builds :
        /\ TagOf[b] = TagOf[c]
        /\ images[b] \notin {"absent", "building"}
        /\ images[c] \notin {"absent", "building"}
        => b = c

\* A lost message, an interrupted Builder or a failed report leaves no build
\* active for ever.
BuildsEnd == \A b \in Builds : Active(b) ~> ~Active(b)

\* A staged archive does not count against its owner's quota for ever.
StagingsEnd == \A b \in Builds : staged[b] = "active" ~> staged[b] # "active"

\* After a successful build its image is listed, and containers can use it: what
\* is listed as available can be pulled.
AvailableCanBePulled ==
    \A b \in Builds : images[b] = "available" => registry[TagOf[b]] # None

=============================================================================
