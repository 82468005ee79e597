------------------------ MODULE BuildLifecycleProofs ------------------------
(***************************************************************************)
(* Proofs about BuildLifecycle, for every value of its constants: type     *)
(* correctness, and that a build runs once, is carried, keeps its archive  *)
(* and its first result, with one image to a tag.                          *)
(***************************************************************************)
EXTENDS BuildLifecycle, FiniteSetTheorems, TLAPS

-----------------------------------------------------------------------------
(* The inductive invariant *)

\* What exists of a build was created by its upload, which kept the archive.
RowsFollowUpload ==
    \A b \in Builds :
        /\ \/ builds[b] # "absent" \/ images[b] # "absent" \/ outbox[b] # "none"
           \/ erasures[b].pc # "none"
           => uploads[b] = "created"
        /\ uploads[b] = "uploaded" => b \in objects
        /\ staged[b] = "active" => uploads[b] # "none"

\* Only a finished image is deleted.
ErasureIsLate ==
    \A b \in Builds : erasures[b].pc # "none" => images[b] # "building"

\* The index idx_images_owner_tag_building_unique.
OneBuildingPerTag ==
    \A b, c \in Builds :
        /\ TagOf[b] = TagOf[c]
        /\ images[b] = "building" /\ images[c] = "building"
        => b = c

\* A task that works on a build works on one whose upload is over; one that
\* executes it has started it; one that removes its archive does so after its end.
TaskShape(t) ==
    LET b == tasks[t].build IN
    /\ tasks[t].pc # "idle" => b \in Builds /\ uploads[b] \in {"created", "ended"}
    /\ tasks[t].pc \in {"download", "build"} =>
          builds[b] # "pending" /\ uploads[b] = "created"
    /\ \/ tasks[t].pc \in {"discard", "release", "object", "staleObject",
                           "staleRelease"}
       \/ tasks[t].pc = "manifest" /\ t \notin Callers
       => ~Active(b)
TasksShape == \A t \in Tasks : TaskShape(t)

\* A message that was published is in the broker or was delivered.
PublisherShape ==
    LET b == publisher.build IN
    /\ publisher.pc # "idle" => b \in Builds /\ uploads[b] = "created"
    /\ publisher.pc = "mark" => queue[b] > 0 \/ builds[b] # "pending"

IInv ==
    /\ TypeOK
    /\ RowsFollowUpload
    /\ ErasureIsLate
    /\ OneBuildingPerTag
    /\ TasksShape
    /\ PublisherShape
    /\ ImageFollowsBuild
    /\ OneImagePerTag
    /\ PendingIsCarried
    /\ ArchiveKept
    /\ ExclusiveBuild

-----------------------------------------------------------------------------
(* Type correctness *)

LEMMA FaultType ==
    ASSUME TypeOK, NEW point, Fault(point)
    PROVE  faults' \in Nat
BY DEF TypeOK, Fault

LEMMA GotoType ==
    ASSUME TypeOK, NEW t \in Tasks, NEW pc \in TaskPcs, Goto(t, pc)
    PROVE  tasks' \in [Tasks -> TaskType]
BY DEF TypeOK, Goto, TaskType

LEMMA GotoWithType ==
    ASSUME TypeOK, NEW t \in Tasks, NEW pc \in TaskPcs, NEW verdict \in Verdicts,
           NEW digest \in Builds \cup {None}, GotoWith(t, pc, verdict, digest)
    PROVE  tasks' \in [Tasks -> TaskType]
<1> DEFINE task == [tasks[t] EXCEPT !.pc = pc, !.verdict = verdict, !.digest = digest]
<1>1. tasks[t] \in TaskType BY DEF TypeOK
<1>2. task \in TaskType BY <1>1 DEF TaskType
<1>3. tasks' = [tasks EXCEPT ![t] = task] BY DEF GotoWith, TypeOK
<1> QED BY <1>2, <1>3 DEF TypeOK

LEMMA IdleTaskType == IdleTask \in TaskType
BY DEF IdleTask, TaskType, TaskPcs, Verdicts

LEMMA BeginType ==
    ASSUME TypeOK, NEW t \in Tasks, NEW b \in Builds, NEW pc \in TaskPcs,
           NEW verdict \in Verdicts, Begin(t, b, pc, verdict)
    PROVE  tasks' \in [Tasks -> TaskType]
<1>1. [IdleTask EXCEPT !.pc = pc, !.build = b, !.verdict = verdict] \in TaskType
  BY IdleTaskType DEF TaskType
<1> QED BY <1>1 DEF TypeOK, Begin

LEMMA EndType ==
    ASSUME TypeOK, NEW t, End(t)
    PROVE  tasks' \in [Tasks -> TaskType]
BY IdleTaskType DEF TypeOK, End

LEMMA FailType ==
    ASSUME TypeOK, NEW t \in Tasks, tasks[t].build \in Builds, NEW permanent,
           Fail(t, permanent)
    PROVE  tasks' \in [Tasks -> TaskType] /\ queue' \in [Builds -> Nat]
<1>1. queue' \in [Builds -> Nat] BY DEF TypeOK, Fail
<1> QED BY <1>1, EndType DEF Fail

\* Every step leaves every variable with values of its type.
LEMMA TypeStep ==
    ASSUME IInv, Next
    PROVE  TypeOK'
<1> USE DEF TypeOK, rows, archives, carriers, budgets
<1> TypeOK /\ TasksShape /\ PublisherShape BY DEF IInv
<1>1. ASSUME NEW b \in Builds, Upload(b) PROVE TypeOK'
  <2>1. CASE UploadArchive(b)
    BY <2>1, FaultType DEF UploadArchive, SetUpload
  <2>2. CASE CreateQueuedBuild(b)
    BY <2>2 DEF CreateQueuedBuild, SetUpload, BuildStatuses, ImageStatuses
  <2>3. CASE RejectBuild(b)
    BY <2>3 DEF RejectBuild, SetUpload
  <2>4. CASE RollBackUpload(b)
    BY <2>4, FaultType DEF RollBackUpload, SetUpload
  <2> QED BY <1>1, <2>1, <2>2, <2>3, <2>4 DEF Upload
<1>2. ASSUME NEW b \in Builds, ReserveArchive(b) \/ DeleteImage(b) PROVE TypeOK'
  <2>1. CASE ReserveArchive(b)
    BY <2>1 DEF ReserveArchive, SetUpload
  <2>2. CASE DeleteImage(b)
    BY <2>2 DEF DeleteImage, SetErasure, ImageStatuses
  <2> QED BY <1>2, <2>1, <2>2
<1>3. CASE Publisher
  <2>1. ASSUME NEW b \in Builds, LeaseOutbox(b) PROVE TypeOK'
    BY <2>1 DEF LeaseOutbox, SetOutbox
  <2>2. CASE DiscardOutbox \/ MarkPublished
    BY <2>2, FaultType DEF DiscardOutbox, MarkPublished, SetOutbox, IdlePublisher
  <2>3. CASE PublishMessage
    BY <2>3 DEF PublishMessage, Enqueue, PublisherShape
  <2>4. CASE PublishFails
    <3>1. queue' \in [Builds -> Nat]
      BY <2>4 DEF PublishFails, Enqueue, PublisherShape
    <3> QED BY <2>4, <3>1, FaultType DEF PublishFails, SetOutbox, IdlePublisher
  <2> QED BY <1>3, <2>1, <2>2, <2>3, <2>4 DEF Publisher
<1>4. ASSUME NEW w \in Workers, NEW b \in Builds, Deliver(w, b) PROVE TypeOK'
  <2>1. queue' \in [Builds -> Nat] BY <1>4 DEF Deliver
  <2>2. builds' \in [Builds -> BuildStatuses] BY <1>4 DEF Deliver, BuildStatuses
  <2>3. tasks' \in [Tasks -> TaskType]
    BY <1>4, BeginType DEF Deliver, Tasks, TaskPcs, Verdicts
  <2> QED BY <1>4, <2>1, <2>2, <2>3 DEF Deliver
<1>5. ASSUME NEW w \in Workers, Work(w) PROVE TypeOK'
  <2> w \in Tasks /\ TaskShape(w) BY DEF Tasks, TasksShape
  <2>1. CASE Download(w)
    BY <2>1, FaultType, GotoType, GotoWithType, FailType
       DEF Download, TaskShape, TaskPcs, Verdicts, TerminalStatuses
  <2>2. CASE Build(w)
    BY <2>2, BuildConstants, GotoWithType
       DEF Build, TaskShape, TaskPcs, Verdicts
  <2>3. CASE Discard(w)
    BY <2>3, FaultType, FailType DEF Discard, TaskShape
  <2> QED BY <1>5, <2>1, <2>2, <2>3 DEF Work
<1>6. ASSUME NEW t \in Tasks, Complete(t) PROVE TypeOK'
  <2> TaskShape(t) BY DEF TasksShape
  <2>1. CASE ReadComplete(t)
    BY <2>1, FaultType, GotoType, FailType DEF ReadComplete, TaskShape, TaskPcs
  <2>2. CASE Measure(t)
    BY <2>2, BuildConstants, FaultType, GotoWithType, FailType
       DEF Measure, TaskShape, TaskPcs, Verdicts, TerminalStatuses
  <2>3. CASE Mark(t)
    <3>1. builds' \in [Builds -> BuildStatuses] /\ images' \in [Builds -> ImageStatuses]
      <4>1. CASE UNCHANGED rows BY <4>1
      <4>2. CASE /\ builds' = [builds EXCEPT ![tasks[t].build] =
                                  StatusFor(tasks[t].verdict)]
                 /\ images' = [images EXCEPT ![tasks[t].build] = "absent"]
        BY <4>2 DEF StatusFor, BuildStatuses, TerminalStatuses, ImageStatuses
      <4> QED BY <2>3, <4>1, <4>2 DEF Mark
    <3>2. /\ tasks' \in [Tasks -> TaskType] /\ queue' \in [Builds -> Nat]
          /\ faults' \in Nat
      BY <2>3, FaultType, GotoType, EndType, FailType
         DEF Mark, Return, TaskShape, TaskPcs
    <3> QED BY <2>3, <3>1, <3>2 DEF Mark
  <2>4. CASE DeleteManifest(t)
    BY <2>4, FaultType, GotoType DEF DeleteManifest, Forget, TaskPcs
  <2>5. CASE Record(t)
    <3>1. builds' \in [Builds -> BuildStatuses] /\ images' \in [Builds -> ImageStatuses]
      <4> DEFINE b == tasks[t].build
      <4>1. CASE UNCHANGED rows BY <4>1
      <4>2. CASE /\ builds' = [builds EXCEPT ![b] = "success"]
                 /\ images' = [c \in Builds |->
                       IF c = b THEN "available"
                       ELSE IF TagOf[c] = TagOf[b] THEN "absent" ELSE images[c]]
        BY <4>2 DEF BuildStatuses, TerminalStatuses, ImageStatuses
      <4> QED BY <2>5, <4>1, <4>2 DEF Record
    <3>2. /\ tasks' \in [Tasks -> TaskType] /\ queue' \in [Builds -> Nat]
          /\ faults' \in Nat
      BY <2>5, FaultType, GotoType, FailType DEF Record, TaskShape, TaskPcs
    <3> QED BY <2>5, <3>1, <3>2 DEF Record
  <2>6. CASE Release(t) \/ DeleteArchive(t)
    BY <2>6, FaultType, GotoType, EndType DEF Release, DeleteArchive, Unstage, Return,
       TaskPcs
  <2> QED BY <1>6, <2>1, <2>2, <2>3, <2>4, <2>5, <2>6 DEF Complete
<1>7. ASSUME NEW k \in Callers, NEW b \in Builds, CancelBuild(k, b) \/ DeleteBuild(k, b)
      PROVE  TypeOK'
  BY <1>7, BeginType DEF CancelBuild, DeleteBuild, Tasks, BuildStatuses, TaskPcs, Verdicts,
     TerminalStatuses
<1>8. ASSUME NEW k \in Callers, FindDigest(k) PROVE TypeOK'
  BY <1>8, BuildConstants, FaultType, GotoType, GotoWithType
     DEF FindDigest, TasksShape, TaskShape, Tasks, TaskPcs, Verdicts, TerminalStatuses
<1>9. ASSUME NEW b \in Builds, EraseImage(b) PROVE TypeOK'
  <2>1. images' \in [Builds -> ImageStatuses] BY <1>9 DEF EraseImage, ImageStatuses
  <2>2. registry' \in [Tags -> Builds \cup {None}] BY <1>9 DEF EraseImage, Forget
  <2>3. registry[TagOf[b]] \in Builds \cup {None} BY BuildConstants
  <2>4. /\ erasures' \in [Builds -> [pc : {"none", "load", "digest", "manifest", "row"},
                                     digest : Builds \cup {None}]]
        /\ faults' \in Nat
    BY <1>9, <2>3, FaultType DEF EraseImage, SetErasure
  <2> QED BY <1>9, <2>1, <2>2, <2>4 DEF EraseImage
<1>10. ASSUME NEW b \in Builds, Collect(b) PROVE TypeOK'
  BY <1>10, BeginType DEF Collect, EndStaleBuild, EndStaleStaging, Tasks, TaskPcs,
     Verdicts, TerminalStatuses
<1>11. CASE DeleteStale
  BY <1>11, FaultType, GotoType, EndType DEF DeleteStale, Unstage, Tasks, TaskPcs
<1>12. CASE Restart
  <2> DEFINE inCore(b) == Cardinality({w \in Workers : InCore(w) /\ tasks[w].build = b})
             held(b) == Cardinality({w \in Workers : tasks[w].build = b})
  <2>1. ASSUME NEW b \in Builds PROVE inCore(b) \in Nat /\ held(b) \in Nat
    BY BuildConstants, FS_Subset, FS_CardinalityType
  <2>2. CASE CoreRestarts
    <3>1. queue' \in [Builds -> Nat]
      <4>1. queue' = [b \in Builds |-> queue[b] + inCore(b)]
        BY <2>2 DEF CoreRestarts
      <4> SUFFICES ASSUME NEW b \in Builds PROVE queue[b] + inCore(b) \in Nat
        BY <4>1
      <4>2. queue[b] \in Nat /\ inCore(b) \in Nat BY <2>1
      <4> HIDE DEF inCore
      <4> QED BY <4>2
    <3>2. tasks' \in [Tasks -> TaskType] BY <2>2, IdleTaskType DEF CoreRestarts
    <3> QED BY <2>2, <3>1, <3>2, BuildConstants DEF CoreRestarts, IdlePublisher, NoErasure
  <2>3. CASE BuilderCrashes
    <3>1. queue' \in [Builds -> Nat]
      <4>1. queue' = [b \in Builds |-> queue[b] + held(b)]
        BY <2>3 DEF BuilderCrashes, Copies
      <4> SUFFICES ASSUME NEW b \in Builds PROVE queue[b] + held(b) \in Nat
        BY <4>1
      <4>2. queue[b] \in Nat /\ held(b) \in Nat BY <2>1
      <4> HIDE DEF held
      <4> QED BY <4>2
    <3>2. tasks' \in [Tasks -> TaskType] BY <2>3, IdleTaskType DEF BuilderCrashes
    <3> QED BY <2>3, <3>1, <3>2 DEF BuilderCrashes
  <2>4. CASE BuilderStops
    <3>1. \A task \in TaskType :
             [task EXCEPT !.pc = "complete", !.verdict = "canceled"] \in TaskType
      BY DEF TaskType, TaskPcs, Verdicts, TerminalStatuses
    <3>2. tasks' \in [Tasks -> TaskType] BY <2>4, <3>1 DEF BuilderStops
    <3>3. \A w \in Workers : tasks[w].build \in Builds \cup {None}
      BY DEF Tasks, TaskType
    <3>4. registry' \in [Tags -> Builds \cup {None}] BY <2>4, <3>3 DEF BuilderStops
    <3>5. UNCHANGED <<rows, archives, carriers, erasures, faults>> /\ crashes' \in Nat
      <4>1. crashes' = crashes + 1 BY <2>4 DEF BuilderStops
      <4>2. UNCHANGED <<rows, archives, carriers, erasures, faults>>
        BY <2>4 DEF BuilderStops
      <4> QED BY <4>1, <4>2
    <3> QED BY <3>2, <3>4, <3>5
  <2> QED BY <1>12, <2>2, <2>3, <2>4 DEF Restart
<1> QED BY <1>1, <1>2, <1>3, <1>4, <1>5, <1>6, <1>7, <1>8, <1>9, <1>10, <1>11, <1>12
        DEF Next, Owners, Consume

-----------------------------------------------------------------------------
(* Which steps write which variable. *)

RowWriters ==
    \/ UNCHANGED <<builds, images>>
    \/ \E b \in Builds : CreateQueuedBuild(b) \/ DeleteImage(b) \/ EraseImage(b)
    \/ \E w \in Workers, b \in Builds : Deliver(w, b)
    \/ \E k \in Callers, b \in Builds : DeleteBuild(k, b)
    \/ \E t \in Tasks : Mark(t) \/ Record(t)

UploadWriters ==
    \/ UNCHANGED uploads
    \/ CoreRestarts
    \/ \E b \in Builds : ReserveArchive(b) \/ Upload(b)

ObjectWriters ==
    \/ UNCHANGED objects
    \/ DeleteStale
    \/ \E b \in Builds : UploadArchive(b) \/ RollBackUpload(b)
    \/ \E w \in Workers : Discard(w)
    \/ \E t \in Tasks : DeleteArchive(t)

StagingWriters ==
    \/ UNCHANGED staged
    \/ DeleteStale
    \/ \E b \in Builds : ReserveArchive(b) \/ RollBackUpload(b)
    \/ \E t \in Tasks : Release(t)

PublisherWriters ==
    UNCHANGED publisher \/ Publisher \/ CoreRestarts

OutboxWriters ==
    \/ UNCHANGED outbox
    \/ Publisher
    \/ \E b \in Builds : CreateQueuedBuild(b)
    \/ \E k \in Callers, b \in Builds : DeleteBuild(k, b)

ErasureWriters ==
    \/ UNCHANGED erasures
    \/ CoreRestarts
    \/ \E b \in Builds : DeleteImage(b) \/ EraseImage(b)

LEMMA Writers ==
    ASSUME Next
    PROVE  /\ RowWriters /\ UploadWriters /\ ObjectWriters
           /\ StagingWriters /\ PublisherWriters /\ OutboxWriters /\ ErasureWriters
<1> USE DEF RowWriters, UploadWriters, ObjectWriters, StagingWriters,
            PublisherWriters, OutboxWriters, ErasureWriters, rows, archives, carriers
<1>1. CASE Owners
  BY <1>1 DEF Owners, ReserveArchive, DeleteImage, CancelBuild, DeleteBuild
<1>2. CASE Publisher
  BY <1>2 DEF Publisher, LeaseOutbox, DiscardOutbox, PublishMessage, PublishFails,
     MarkPublished
<1>3. CASE Consume \/ \E w \in Workers : Work(w)
  BY <1>3 DEF Consume, Deliver, Work, Download, Build, Discard
<1>4. CASE DeleteStale \/ \E b \in Builds : Collect(b)
  BY <1>4 DEF DeleteStale, Collect, EndStaleBuild, EndStaleStaging
<1>5. CASE Restart
  BY <1>5 DEF Restart, CoreRestarts, BuilderCrashes, BuilderStops
<1>6. CASE \E b \in Builds : Upload(b) \/ EraseImage(b)
  BY <1>6 DEF Upload, UploadArchive, CreateQueuedBuild, RejectBuild, RollBackUpload,
     EraseImage
<1>7. CASE \E t \in Tasks : Complete(t)
  BY <1>7 DEF Complete, ReadComplete, Measure, Mark, DeleteManifest, Record, Release,
     DeleteArchive
<1>8. CASE \E k \in Callers : FindDigest(k) BY <1>8 DEF FindDigest
<1> QED BY <1>1, <1>2, <1>3, <1>4, <1>5, <1>6, <1>7, <1>8 DEF Next

-----------------------------------------------------------------------------
(* What a step does to one build. *)

Kept(b) ==
    /\ images'[b] = "building" => images[b] = "building"
    /\ images'[b] # "absent" => images[b] # "absent"
    /\ builds'[b] # "absent" => builds[b] # "absent"
    /\ Active(b)' => Active(b)
    /\ builds'[b] = "pending" => builds[b] = "pending"
    /\ Terminal(b) => builds'[b] \in {builds[b], "absent"}

LEMMA RowEffect ==
    ASSUME IInv, Next, NEW b \in Builds
    PROVE  CreateQueuedBuild(b) \/ Kept(b)
<1> USE DEF Kept, Active, Terminal, TerminalStatuses
<1> TypeOK BY DEF IInv
<1>1. CASE UNCHANGED <<builds, images>> BY <1>1
<1>2. ASSUME NEW c \in Builds, CreateQueuedBuild(c) \/ DeleteImage(c)
      PROVE  CreateQueuedBuild(b) \/ Kept(b)
  BY <1>2 DEF CreateQueuedBuild, DeleteImage, TypeOK
<1>3. ASSUME NEW c \in Builds, EraseImage(c) PROVE Kept(b)
  <2>1. UNCHANGED builds /\ \/ UNCHANGED images
                            \/ images' = [images EXCEPT ![c] = "absent"]
                            \/ /\ images[c] # "absent"
                               /\ images' = [images EXCEPT ![c] = "error"]
    BY <1>3 DEF EraseImage
  <2> QED BY <2>1 DEF TypeOK
<1>4. ASSUME NEW w \in Workers, NEW c \in Builds, Deliver(w, c) PROVE Kept(b)
  BY <1>4 DEF Deliver, TypeOK
<1>5. ASSUME NEW k \in Callers, NEW c \in Builds, DeleteBuild(k, c) PROVE Kept(b)
  BY <1>5 DEF DeleteBuild, TypeOK
<1>6. ASSUME NEW t \in Tasks, Mark(t) \/ Record(t) PROVE Kept(b)
  <2> PICK c \in Builds : tasks[t].build = c
    BY <1>6 DEF Mark, Record, IInv, TasksShape, TaskShape
  <2>1. CASE UNCHANGED rows BY <2>1 DEF rows
  <2>2. CASE ~UNCHANGED rows
    <3>1. /\ Active(c)
          /\ \/ /\ builds' = [builds EXCEPT ![c] = StatusFor(tasks[t].verdict)]
                /\ images' = [images EXCEPT ![c] = "absent"]
             \/ /\ builds' = [builds EXCEPT ![c] = "success"]
                /\ images' = [d \in Builds |->
                      IF d = c THEN "available"
                      ELSE IF TagOf[d] = TagOf[c] THEN "absent" ELSE images[d]]
      BY <1>6, <2>2 DEF Mark, Record
    <3>2. images[c] = "building"
      BY <3>1 DEF IInv, ImageFollowsBuild
    <3> QED BY <3>1, <3>2 DEF StatusFor, TypeOK
  <2> QED BY <2>1, <2>2
<1> QED BY <1>1, <1>2, <1>3, <1>4, <1>5, <1>6, Writers DEF RowWriters

\* A build whose upload is over never waits again, and one that ended stays so.
LEMMA BuildsGoOn ==
    ASSUME IInv, Next, NEW b \in Builds, uploads[b] \in {"created", "ended"}
    PROVE  /\ uploads'[b] = uploads[b]
           /\ Kept(b)
<1>1. uploads'[b] = uploads[b]
  BY Writers DEF UploadWriters, CoreRestarts, ReserveArchive, Upload, UploadArchive,
     Uploading, CreateQueuedBuild, RejectBuild, RollBackUpload, SetUpload, IInv, TypeOK
<1>2. ~CreateQueuedBuild(b) BY DEF CreateQueuedBuild
<1> QED BY <1>1, <1>2, RowEffect

-----------------------------------------------------------------------------
(* What a step does to the tasks: one of them moves, or a service restarts. *)

Removing == {"discard", "release", "object", "staleObject", "staleRelease"}
Executing == {"download", "build"}

Moves(t, pc, b) ==
    /\ tasks'[t].pc = pc
    /\ tasks'[t].build = b
    /\ \A s \in Tasks \ {t} : tasks'[s] = tasks[s]

Leaves(t) ==
    /\ tasks'[t].pc = "idle"
    /\ \A s \in Tasks \ {t} : tasks'[s] = tasks[s]

\* A goroutine of Builder starts a build.
Starts(t, b) ==
    /\ Moves(t, "download", b)
    /\ builds[b] = "pending" /\ builds'[b] = "running"

\* Core or the collector takes up a build that exists.
Takes(t, b, pc) ==
    /\ Moves(t, pc, b)
    /\ uploads[b] \in {"created", "ended"}
    /\ pc \notin Executing \cup {"manifest"}
    /\ pc \in Removing => ~Active(b)'

\* A task goes on with its build.
GoesOn(t, b, pc) ==
    /\ Moves(t, pc, b)
    /\ tasks[t].pc # "idle" /\ tasks[t].build = b
    /\ pc \in Executing => tasks[t].pc \in Executing
    /\ pc \in Removing \/ (pc = "manifest" /\ t \notin Callers) => ~Active(b)'

TaskEffect(t) ==
    \/ Leaves(t)
    \/ \E b \in Builds :
          Starts(t, b) \/ \E pc \in TaskPcs : Takes(t, b, pc) \/ GoesOn(t, b, pc)

LEMMA GotoMoves ==
    ASSUME TypeOK, NEW t \in Tasks, NEW pc, Goto(t, pc)
    PROVE  Moves(t, pc, tasks[t].build)
BY DEF TypeOK, TaskType, Goto, Moves

LEMMA GotoWithMoves ==
    ASSUME TypeOK, NEW t \in Tasks, NEW pc, NEW verdict, NEW digest,
           GotoWith(t, pc, verdict, digest)
    PROVE  Moves(t, pc, tasks[t].build)
<1>1. tasks[t] \in TaskType BY DEF TypeOK
<1>2. tasks'[t] = [tasks[t] EXCEPT !.pc = pc, !.verdict = verdict, !.digest = digest]
  BY DEF TypeOK, GotoWith
<1>3. \A s \in Tasks \ {t} : tasks'[s] = tasks[s] BY DEF TypeOK, GotoWith
<1> QED BY <1>1, <1>2, <1>3 DEF Moves, TaskType

LEMMA BeginMoves ==
    ASSUME TypeOK, NEW t \in Tasks, NEW b, NEW pc, NEW verdict,
           Begin(t, b, pc, verdict)
    PROVE  Moves(t, pc, b)
BY DEF TypeOK, Begin, Moves, IdleTask

LEMMA EndLeaves ==
    ASSUME TypeOK, NEW t \in Tasks, End(t)
    PROVE  Leaves(t)
BY DEF TypeOK, End, Leaves, IdleTask

LEMMA FailLeaves ==
    ASSUME TypeOK, NEW t \in Tasks, NEW permanent, Fail(t, permanent)
    PROVE  Leaves(t)
BY EndLeaves DEF Fail

LEMMA BuilderEffect ==
    ASSUME IInv, NEW w \in Workers
    PROVE  /\ \A b \in Builds : Deliver(w, b) => UNCHANGED tasks \/ TaskEffect(w)
           /\ Work(w) => TaskEffect(w)
<1> w \in Tasks /\ TypeOK /\ TaskShape(w) BY DEF Tasks, IInv, TasksShape
<1>1. ASSUME NEW b \in Builds, Deliver(w, b) PROVE UNCHANGED tasks \/ TaskEffect(w)
  <2>1. CASE builds[b] = "pending"
    <3>1. Begin(w, b, "download", "none") /\ builds' = [builds EXCEPT ![b] = "running"]
      BY <1>1, <2>1 DEF Deliver, Terminal, TerminalStatuses
    <3>2. Starts(w, b) BY <2>1, <3>1, BeginMoves DEF Starts, TypeOK
    <3> QED BY <3>2 DEF TaskEffect
  <2>2. CASE Terminal(b) 
    <3>1. Begin(w, b, "discard", "none") /\ builds' = builds
      BY <1>1, <2>2 DEF Deliver, Terminal, TerminalStatuses
    <3>2. Takes(w, b, "discard")
      BY <2>2, <3>1, BeginMoves DEF Takes, Terminal, TerminalStatuses, Active, Executing,
         IInv, RowsFollowUpload
    <3> QED BY <3>2 DEF TaskEffect, TaskPcs
  <2>3. CASE builds[b] \in {"running", "absent"}
    BY <1>1, <2>3 DEF Deliver, Terminal, TerminalStatuses
  <2> QED BY <2>1, <2>2, <2>3, <1>1 DEF Deliver
<1>2. ASSUME Download(w) PROVE TaskEffect(w)
  <2>1. tasks[w].pc = "download" /\ tasks[w].build \in Builds
    BY <1>2 DEF Download, TaskShape
  <2>2. Leaves(w) \/ Moves(w, "build", tasks[w].build) \/ Moves(w, "complete", tasks[w].build)
    BY <1>2, GotoMoves, GotoWithMoves, FailLeaves DEF Download
  <2> QED BY <2>1, <2>2 DEF TaskEffect, GoesOn, TaskPcs, Executing, Removing
<1>3. ASSUME Build(w) PROVE TaskEffect(w)
  <2>1. /\ tasks[w].pc = "build" /\ tasks[w].build \in Builds
        /\ Moves(w, "complete", tasks[w].build)
    BY <1>3, GotoWithMoves DEF Build, TaskShape
  <2> QED BY <2>1 DEF TaskEffect, GoesOn, TaskPcs, Executing, Removing
<1>4. ASSUME Discard(w) PROVE TaskEffect(w)
  BY <1>4, FailLeaves DEF Discard, TaskEffect
<1> QED BY <1>1, <1>2, <1>3, <1>4 DEF Work

\* A task in Core moves on in Core, hands back to Builder once the build ended,
\* or leaves.
LEMMA CompleteEffect ==
    ASSUME IInv, NEW t \in Tasks, Complete(t)
    PROVE  TaskEffect(t)
<1> TypeOK /\ TaskShape(t) BY DEF IInv, TasksShape
<1>0. tasks[t].build \in Builds
  BY DEF Complete, ReadComplete, Measure, Mark, DeleteManifest, Record, Release,
     DeleteArchive, TaskShape
<1> PICK b \in Builds : tasks[t].build = b BY <1>0
<1>1. CASE ReadComplete(t)
  <2>1. tasks[t].pc = "complete" /\ UNCHANGED builds BY <1>1 DEF ReadComplete, rows
  <2>2. \/ Leaves(t)
        \/ Terminal(b) /\ Moves(t, "release", b)
        \/ Moves(t, "measure", b) \/ Moves(t, "mark", b)
    BY <1>1, GotoMoves, FailLeaves DEF ReadComplete
  <2> QED BY <2>1, <2>2 DEF TaskEffect, GoesOn, TaskPcs, Executing, Removing, Active,
          Terminal, TerminalStatuses
<1>2. CASE Measure(t)
  <2>1. tasks[t].pc = "measure" BY <1>2 DEF Measure
  <2>2. Leaves(t) \/ Moves(t, "mark", b) \/ Moves(t, "record", b)
    BY <1>2, GotoWithMoves, FailLeaves DEF Measure
  <2> QED BY <2>1, <2>2 DEF TaskEffect, GoesOn, TaskPcs, Executing, Removing
<1>3. CASE Mark(t)
  <2>1. tasks[t].pc = "mark" BY <1>3 DEF Mark
  <2>2. \/ Leaves(t)
        \/ ~Active(b)' /\ \E pc \in {"manifest", "discard", "release"} : Moves(t, pc, b)
    <3>1. CASE Fault("db") /\ Fail(t, FALSE) BY <3>1, FailLeaves
    <3>2. CASE ~(Fault("db") /\ Fail(t, FALSE))
      <4>1. ~Active(b)'
        <5>1. CASE Active(b)
          <6>1. builds' = [builds EXCEPT ![b] = StatusFor(tasks[t].verdict)]
            BY <1>3, <3>2, <5>1 DEF Mark
          <6> QED BY <6>1 DEF Active, StatusFor, TypeOK
        <5>2. CASE ~Active(b) BY <1>3, <3>2, <5>2 DEF Mark, Active, rows
        <5> QED BY <5>1, <5>2
      <4>2. Leaves(t) \/ \E pc \in {"manifest", "discard", "release"} : Goto(t, pc)
        BY <1>3, <3>2, EndLeaves DEF Mark, Return
      <4> QED BY <4>1, <4>2, GotoMoves
    <3> QED BY <1>3, <3>1, <3>2 DEF Mark
  <2> QED BY <2>1, <2>2 DEF TaskEffect, GoesOn, TaskPcs, Executing, Removing
<1>4. CASE DeleteManifest(t)
  <2>1. tasks[t].pc = "manifest" /\ UNCHANGED builds BY <1>4 DEF DeleteManifest, rows
  <2>2. \/ Moves(t, "mark", b)
        \/ t \notin Callers /\ Moves(t, "release", b)
    BY <1>4, GotoMoves DEF DeleteManifest
  <2> QED BY <2>1, <2>2
          DEF TaskEffect, GoesOn, TaskPcs, Executing, Removing, TaskShape, Active
<1>5. CASE Record(t)
  <2>1. tasks[t].pc = "record" BY <1>5 DEF Record
  <2>2. Leaves(t) \/ (~Active(b)' /\ Moves(t, "release", b))
    BY <1>5, <2>1, GotoMoves, FailLeaves DEF Record, Active, rows, TypeOK
  <2> QED BY <2>1, <2>2 DEF TaskEffect, GoesOn, TaskPcs, Executing, Removing
<1>6. CASE Release(t) \/ DeleteArchive(t)
  <2>1. tasks[t].pc \in {"release", "object"} /\ UNCHANGED builds
    BY <1>6 DEF Release, DeleteArchive, rows
  <2>2. Leaves(t) \/ Moves(t, "object", b) \/ Moves(t, "discard", b)
    BY <1>6, GotoMoves, EndLeaves DEF Release, DeleteArchive, Return
  <2> QED BY <2>1, <2>2
          DEF TaskEffect, GoesOn, TaskPcs, Executing, Removing, TaskShape, Active
<1> QED BY <1>1, <1>2, <1>3, <1>4, <1>5, <1>6 DEF Complete

LEMMA CallerEffect ==
    ASSUME IInv, NEW k \in Callers
    PROVE  /\ \A b \in Builds : CancelBuild(k, b) \/ DeleteBuild(k, b) => TaskEffect(k)
           /\ FindDigest(k) => TaskEffect(k)
<1> k \in Tasks /\ TypeOK /\ TaskShape(k) BY DEF Tasks, IInv, TasksShape
<1>1. ASSUME NEW b \in Builds, CancelBuild(k, b) PROVE TaskEffect(k)
  <2>1. Active(b) /\ (Moves(k, "digest", b) \/ Moves(k, "mark", b))
    BY <1>1, BeginMoves DEF CancelBuild
  <2>2. uploads[b] = "created" BY <2>1 DEF Active, IInv, RowsFollowUpload
  <2> QED BY <2>1, <2>2 DEF TaskEffect, Takes, TaskPcs, Executing, Removing
<1>2. ASSUME NEW b \in Builds, DeleteBuild(k, b) PROVE TaskEffect(k)
  <2>1. Moves(k, "release", b) BY <1>2, BeginMoves DEF DeleteBuild
  <2>2. uploads[b] = "created" /\ ~Active(b)'
    BY <1>2 DEF DeleteBuild, Active, IInv, RowsFollowUpload, TypeOK
  <2> QED BY <2>1, <2>2 DEF TaskEffect, Takes, TaskPcs, Executing, Removing
<1>3. ASSUME FindDigest(k) PROVE TaskEffect(k)
  <2>1. tasks[k].pc = "digest" /\ tasks[k].build \in Builds
    BY <1>3 DEF FindDigest, TaskShape
  <2>2. Moves(k, "manifest", tasks[k].build) \/ Moves(k, "mark", tasks[k].build)
    BY <1>3, GotoMoves, GotoWithMoves DEF FindDigest
  <2> QED BY <2>1, <2>2 DEF TaskEffect, GoesOn, TaskPcs, Executing, Removing
<1> QED BY <1>1, <1>2, <1>3

LEMMA CollectorEffect ==
    ASSUME IInv, DeleteStale \/ \E b \in Builds : Collect(b)
    PROVE  TaskEffect(Gc)
<1> Gc \in Tasks /\ TypeOK /\ TaskShape(Gc) BY DEF Tasks, IInv, TasksShape
<1>1. ASSUME NEW b \in Builds, EndStaleBuild(b) PROVE TaskEffect(Gc)
  <2>1. Active(b) /\ Moves(Gc, "complete", b) BY <1>1, BeginMoves DEF EndStaleBuild
  <2>2. uploads[b] = "created" BY <2>1 DEF Active, IInv, RowsFollowUpload
  <2> QED BY <2>1, <2>2 DEF TaskEffect, Takes, TaskPcs, Executing, Removing
<1>2. ASSUME NEW b \in Builds, EndStaleStaging(b) PROVE TaskEffect(Gc)
  <2>1. Moves(Gc, "staleObject", b) BY <1>2, BeginMoves DEF EndStaleStaging
  <2>2. uploads[b] \in {"created", "ended"}
    BY <1>2 DEF EndStaleStaging, Stale, Uploading, IInv, RowsFollowUpload, TypeOK
  <2>3. ~Active(b)' BY <1>2 DEF EndStaleStaging, Stale, Active, rows
  <2> QED BY <2>1, <2>2, <2>3 DEF TaskEffect, Takes, TaskPcs, Executing, Removing
<1>3. ASSUME DeleteStale PROVE TaskEffect(Gc)
  <2> PICK b \in Builds : tasks[Gc].build = b
    BY <1>3 DEF DeleteStale, TaskShape
  <2>1. tasks[Gc].pc \in {"staleObject", "staleRelease"} /\ UNCHANGED builds
    BY <1>3 DEF DeleteStale, rows
  <2>2. Leaves(Gc) \/ Moves(Gc, "staleRelease", b)
    BY <1>3, GotoMoves, EndLeaves DEF DeleteStale
  <2> QED BY <2>1, <2>2
          DEF TaskEffect, GoesOn, TaskPcs, Executing, Removing, TaskShape, Active
<1> QED BY <1>1, <1>2, <1>3 DEF Collect

LEMMA NextEffect ==
    ASSUME IInv, Next
    PROVE  UNCHANGED tasks \/ Restart \/ \E t \in Tasks : TaskEffect(t)
<1>1. CASE Publisher \/ \E b \in Builds : Upload(b) \/ EraseImage(b)
  BY <1>1 DEF Publisher, LeaseOutbox, DiscardOutbox, PublishMessage, PublishFails,
     MarkPublished, Upload, UploadArchive, CreateQueuedBuild, RejectBuild,
     RollBackUpload, EraseImage
<1>2. CASE Owners
  BY <1>2, CallerEffect DEF Owners, ReserveArchive, DeleteImage, Tasks
<1> QED BY <1>1, <1>2, BuilderEffect, CompleteEffect, CallerEffect, CollectorEffect
        DEF Next, Consume, Tasks

LEMMA TasksStep ==
    ASSUME IInv, Next
    PROVE  TasksShape'
<1>1. ASSUME NEW s \in Tasks, tasks'[s] = tasks[s] \/ tasks'[s].pc = "idle"
      PROVE  TaskShape(s)'
  <2>1. CASE tasks'[s].pc = "idle" BY <2>1 DEF TaskShape
  <2>2. CASE tasks'[s] = tasks[s] /\ tasks[s].pc # "idle"
    <3>1. TaskShape(s) BY DEF IInv, TasksShape
    <3> QED BY <2>2, <3>1, BuildsGoOn DEF Kept, TaskShape
  <2> QED BY <1>1, <2>1, <2>2
<1>2. ASSUME NEW t \in Tasks, TaskEffect(t) PROVE TaskShape(t)'
  <2>1. TaskShape(t) BY DEF IInv, TasksShape
  <2>2. CASE Leaves(t) BY <1>1, <2>2 DEF Leaves
  <2>3. ASSUME NEW b \in Builds, Starts(t, b) PROVE TaskShape(t)'
    <3>1. uploads[b] = "created" BY <2>3 DEF Starts, IInv, RowsFollowUpload
    <3> QED BY <2>3, <3>1, BuildsGoOn DEF Kept, Starts, Moves, TaskShape
  <2>4. ASSUME NEW b \in Builds, NEW pc \in TaskPcs, Takes(t, b, pc)
        PROVE  TaskShape(t)'
    BY <2>4, BuildsGoOn DEF Kept, Takes, Moves, TaskShape, Executing, Removing
  <2>5. ASSUME NEW b \in Builds, NEW pc \in TaskPcs, GoesOn(t, b, pc)
        PROVE  TaskShape(t)'
    BY <2>1, <2>5, BuildsGoOn DEF Kept, GoesOn, Moves, TaskShape, Executing, Removing
  <2> QED BY <1>2, <2>2, <2>3, <2>4, <2>5 DEF TaskEffect
<1>3. ASSUME NEW t \in Tasks, TaskEffect(t)
      PROVE  \A s \in Tasks \ {t} : tasks'[s] = tasks[s]
  BY <1>3 DEF TaskEffect, Leaves, Starts, Takes, GoesOn, Moves
<1>4. CASE Restart
  <2> SUFFICES ASSUME NEW s \in Tasks PROVE TaskShape(s)'
    BY DEF TasksShape
  <2>1. CASE CoreRestarts \/ BuilderCrashes
    BY <1>1, <2>1 DEF CoreRestarts, BuilderCrashes, IdleTask
  <2>2. CASE BuilderStops
    <3>1. CASE tasks[s].pc \in {"download", "build"}
      <4>1. tasks[s] \in TaskType /\ TaskShape(s) BY DEF IInv, TypeOK, TasksShape
      <4>2. tasks'[s].pc = "complete" /\ tasks'[s].build = tasks[s].build
        BY <2>2, <3>1, <4>1 DEF BuilderStops, TaskType
      <4> QED BY <2>2, <3>1, <4>1, <4>2, BuildsGoOn DEF Kept, TaskShape
    <3>2. CASE tasks[s].pc \notin {"download", "build"}
      BY <1>1, <2>2, <3>2 DEF BuilderStops
    <3> QED BY <3>1, <3>2
  <2> QED BY <1>4, <2>1, <2>2 DEF Restart
<1> QED BY <1>1, <1>2, <1>3, <1>4, NextEffect DEF TasksShape

LEMMA ExclusiveStep ==
    ASSUME IInv, Next
    PROVE  ExclusiveBuild'
<1> DEFINE Runs(w, b) == tasks[w].pc \in Executing /\ tasks[w].build = b
<1>1. CASE UNCHANGED tasks BY <1>1 DEF IInv, ExclusiveBuild
<1>2. CASE Restart
  <2>1. ASSUME NEW w \in Workers, tasks'[w].pc \in Executing
        PROVE  tasks'[w] = tasks[w]
    <3>1. w \in Tasks /\ tasks[w] \in TaskType BY DEF Tasks, IInv, TypeOK
    <3>2. CASE CoreRestarts \/ BuilderCrashes
      BY <2>1, <3>1, <3>2 DEF CoreRestarts, BuilderCrashes, IdleTask, Executing
    <3>3. CASE BuilderStops
      BY <2>1, <3>1, <3>3 DEF BuilderStops, Executing, TaskType
    <3> QED BY <1>2, <3>2, <3>3 DEF Restart
  <2> QED BY <2>1 DEF IInv, ExclusiveBuild, Executing
<1>3. ASSUME NEW t \in Tasks, TaskEffect(t) PROVE ExclusiveBuild'
  <2>1. CASE \/ Leaves(t)
             \/ \E b \in Builds, pc \in TaskPcs : Takes(t, b, pc) \/ GoesOn(t, b, pc)
    <3>1. \A w \in Workers : \A b : Runs(w, b)' => Runs(w, b)
      BY <2>1 DEF Leaves, Takes, GoesOn, Moves, Executing, Tasks
    <3> QED BY <3>1 DEF IInv, ExclusiveBuild, Executing
  <2>2. ASSUME NEW b \in Builds, Starts(t, b) PROVE ExclusiveBuild'
    <3>1. \A w \in Workers : ~Runs(w, b)
      BY <2>2 DEF Starts, IInv, TasksShape, TaskShape, Tasks, Executing
    <3> QED BY <2>2, <3>1 DEF Starts, Moves, IInv, ExclusiveBuild, Executing, Tasks
  <2> QED BY <1>3, <2>1, <2>2 DEF TaskEffect
<1> QED BY <1>1, <1>2, <1>3, NextEffect
-----------------------------------------------------------------------------
(* Rows, archives and carriers *)

LEMMA ImagesStep ==
    ASSUME IInv, Next
    PROVE  OneBuildingPerTag' /\ ImageFollowsBuild' /\ OneImagePerTag'
<1> DEFINE Images == OneBuildingPerTag /\ ImageFollowsBuild /\ OneImagePerTag
<1> USE DEF OneBuildingPerTag, ImageFollowsBuild, OneImagePerTag, Active
<1> TypeOK /\ Images BY DEF IInv
<1>1. CASE UNCHANGED <<builds, images>> BY <1>1
<1>2. ASSUME NEW b \in Builds, CreateQueuedBuild(b) PROVE Images'
  BY <1>2 DEF CreateQueuedBuild, TagBusy, TypeOK
<1>3. ASSUME NEW b \in Builds, DeleteImage(b) PROVE Images'
  BY <1>3 DEF DeleteImage, TypeOK
<1>4. ASSUME NEW b \in Builds, EraseImage(b) PROVE Images'
  <2>1. images[b] # "building" BY <1>4 DEF EraseImage, IInv, ErasureIsLate
  <2>2. UNCHANGED builds /\ \/ UNCHANGED images
                            \/ images' = [images EXCEPT ![b] = "absent"]
                            \/ images[b] # "absent" /\ images' = [images EXCEPT ![b] = "error"]
    BY <1>4 DEF EraseImage
  <2> QED BY <2>1, <2>2 DEF TypeOK
<1>5. ASSUME NEW w \in Workers, NEW b \in Builds, Deliver(w, b) PROVE Images'
  BY <1>5 DEF Deliver, TypeOK
<1>6. ASSUME NEW k \in Callers, NEW b \in Builds, DeleteBuild(k, b) PROVE Images'
  BY <1>6 DEF DeleteBuild, TypeOK
<1>7. ASSUME NEW t \in Tasks, Mark(t) PROVE Images'
  <2> PICK b \in Builds : tasks[t].build = b
    BY <1>7 DEF Mark, IInv, TasksShape, TaskShape
  <2>1. CASE UNCHANGED rows BY <1>1, <2>1 DEF rows
  <2>2. CASE /\ Active(b)
             /\ builds' = [builds EXCEPT ![b] = StatusFor(tasks[t].verdict)]
             /\ images' = [images EXCEPT ![b] = "absent"]
    BY <2>2 DEF StatusFor, TypeOK
  <2> QED BY <1>7, <2>1, <2>2 DEF Mark
<1>8. ASSUME NEW t \in Tasks, Record(t) PROVE Images'
  <2> PICK b \in Builds : tasks[t].build = b
    BY <1>8 DEF Record, IInv, TasksShape, TaskShape
  <2>1. CASE UNCHANGED rows BY <1>1, <2>1 DEF rows
  <2>2. CASE /\ Active(b)
             /\ builds' = [builds EXCEPT ![b] = "success"]
             /\ images' = [c \in Builds |->
                   IF c = b THEN "available"
                   ELSE IF TagOf[c] = TagOf[b] THEN "absent" ELSE images[c]]
    <3>1. images[b] = "building" BY <2>2
    <3>2. \A c \in Builds \ {b} : TagOf[c] = TagOf[b] => images[c] # "building"
      BY <3>1
    <3>3. \A c \in Builds \ {b} :
             /\ builds'[c] = builds[c]
             /\ images'[c] = IF TagOf[c] = TagOf[b] THEN "absent" ELSE images[c]
      BY <2>2 DEF TypeOK
    <3>4. builds'[b] = "success" /\ images'[b] = "available" BY <2>2 DEF TypeOK
    <3>5. OneBuildingPerTag' /\ OneImagePerTag' BY <3>3, <3>4
    <3>6. ImageFollowsBuild' BY <3>2, <3>3, <3>4
    <3> QED BY <3>5, <3>6
  <2> QED BY <1>8, <2>1, <2>2 DEF Record
<1> QED BY <1>1, <1>2, <1>3, <1>4, <1>5, <1>6, <1>7, <1>8, Writers
        DEF RowWriters

\* An image whose deletion is queued is never building: it was available, and a
\* build is created once.
LEMMA ErasureStep ==
    ASSUME IInv, Next
    PROVE  ErasureIsLate'
<1> SUFFICES ASSUME NEW b \in Builds, erasures'[b].pc # "none"
             PROVE  images'[b] # "building"
  BY DEF ErasureIsLate
<1>1. CASE erasures[b].pc # "none"
  BY <1>1, BuildsGoOn DEF IInv, RowsFollowUpload, ErasureIsLate, Kept
<1>2. CASE erasures[b].pc = "none"
  <2>1. DeleteImage(b)
    BY <1>2, Writers DEF ErasureWriters, CoreRestarts, NoErasure, DeleteImage,
       EraseImage, SetErasure, IInv, TypeOK
  <2> QED BY <2>1 DEF DeleteImage, IInv, TypeOK
<1> QED BY <1>1, <1>2

\* Nothing of a build exists before its transaction, whose upload kept the archive.
LEMMA FollowUploadStep ==
    ASSUME IInv, Next
    PROVE  RowsFollowUpload'
<1> SUFFICES ASSUME NEW b \in Builds
             PROVE  /\ \/ builds'[b] # "absent" \/ images'[b] # "absent"
                       \/ outbox'[b] # "none" \/ erasures'[b].pc # "none"
                       => uploads'[b] = "created"
                    /\ uploads'[b] = "uploaded" => b \in objects'
                    /\ staged'[b] = "active" => uploads'[b] # "none"
  BY DEF RowsFollowUpload
<1> TypeOK BY DEF IInv
<1>1. ASSUME CreateQueuedBuild(b) PROVE uploads'[b] = "created"
  BY <1>1 DEF CreateQueuedBuild, SetUpload, TypeOK
<1>2. ASSUME ~CreateQueuedBuild(b),
             \/ builds'[b] # "absent" \/ images'[b] # "absent"
             \/ outbox'[b] # "none" \/ erasures'[b].pc # "none"
      PROVE  uploads'[b] = "created"
  <2>1. Kept(b) BY <1>2, RowEffect
  <2>2. outbox'[b] # "none" => outbox[b] # "none"
    BY <1>2, Writers DEF OutboxWriters, Publisher, LeaseOutbox, DiscardOutbox,
       PublishMessage, PublishFails, MarkPublished, SetOutbox, CreateQueuedBuild,
       DeleteBuild, TypeOK
  <2>3. erasures'[b].pc # "none" => erasures[b].pc # "none" \/ images[b] # "absent"
    BY Writers DEF ErasureWriters, CoreRestarts, NoErasure, DeleteImage,
       EraseImage, SetErasure, TypeOK
  <2>4. uploads[b] = "created" BY <1>2, <2>1, <2>2, <2>3 DEF IInv, RowsFollowUpload, Kept
  <2> QED BY <2>4, BuildsGoOn
<1>3. ASSUME uploads'[b] = "uploaded" PROVE b \in objects'
  <2>1. CASE uploads[b] = "uploaded"
    <3>1. b \in objects BY <2>1 DEF IInv, RowsFollowUpload
    <3>2. \A t \in Tasks : tasks[t].pc # "idle" => tasks[t].build # b
      BY <2>1 DEF IInv, TasksShape, TaskShape
    <3> QED BY <2>1, <3>1, <3>2, Writers
            DEF ObjectWriters, DeleteStale, UploadArchive, RollBackUpload, Discard,
                DeleteArchive, Tasks
  <2>2. CASE uploads[b] # "uploaded"
    <3>1. UploadArchive(b)
      BY <1>3, <2>2, Writers DEF UploadWriters, CoreRestarts, ReserveArchive, Upload,
         UploadArchive, CreateQueuedBuild, RejectBuild, RollBackUpload, SetUpload, TypeOK
    <3> QED BY <1>3, <3>1 DEF UploadArchive, SetUpload, TypeOK
  <2> QED BY <2>1, <2>2
<1>4. ASSUME staged'[b] = "active" PROVE uploads'[b] # "none"
  <2>1. uploads[b] # "none" \/ ReserveArchive(b)
    BY <1>4, Writers DEF StagingWriters, DeleteStale, RollBackUpload, Release, Unstage,
       ReserveArchive, IInv, RowsFollowUpload, TypeOK
  <2> QED BY <2>1, Writers DEF UploadWriters, CoreRestarts, ReserveArchive, Upload,
         UploadArchive, CreateQueuedBuild, RejectBuild, RollBackUpload, SetUpload, TypeOK
<1> QED BY <1>1, <1>2, <1>3, <1>4

\* Who removes an archive works on a build that ended, or rolls back an upload
\* that made none.
LEMMA ArchiveStep ==
    ASSUME IInv, Next
    PROVE  ArchiveKept'
<1> SUFFICES ASSUME NEW b \in Builds, Active(b)' PROVE b \in objects'
  BY DEF ArchiveKept
<1>1. CASE CreateQueuedBuild(b)
  BY <1>1 DEF CreateQueuedBuild, IInv, RowsFollowUpload
<1>2. CASE Kept(b)
  <2>0. Active(b) BY <1>2 DEF Kept
  <2>1. b \in objects /\ uploads[b] = "created"
    BY <2>0 DEF IInv, ArchiveKept, RowsFollowUpload, Active
  <2>2. CASE UNCHANGED objects BY <2>1, <2>2
  <2>3. ASSUME NEW c \in Builds, UploadArchive(c) \/ RollBackUpload(c)
        PROVE  b \in objects'
    BY <2>1, <2>3 DEF UploadArchive, RollBackUpload
  <2>4. ASSUME NEW t \in Tasks, Discard(t) \/ DeleteArchive(t) \/ (t = Gc /\ DeleteStale)
        PROVE  b \in objects'
    <3>1. tasks[t].pc \in {"discard", "object", "staleObject", "staleRelease"}
      BY <2>4 DEF Discard, DeleteArchive, DeleteStale
    <3>2. tasks[t].build # b BY <2>0, <3>1 DEF IInv, TasksShape, TaskShape
    <3> QED BY <2>1, <2>4, <3>2 DEF Discard, DeleteArchive, DeleteStale
  <2> QED BY <2>2, <2>3, <2>4, Writers DEF ObjectWriters, Tasks
<1> QED BY <1>1, <1>2, RowEffect

\* The message a build waits for is not lost: it leaves the broker for a goroutine
\* that starts the build, and comes back when Builder dies.
LEMMA QueueStep ==
    ASSUME IInv, Next, NEW b \in Builds
    PROVE  queue'[b] >= queue[b] \/ builds'[b] # "pending"
<1> TypeOK BY DEF IInv
<1> queue[b] \in Nat BY DEF TypeOK
<1>1. CASE UNCHANGED queue BY <1>1
<1>2. CASE Owners
  BY <1>1, <1>2 DEF Owners, ReserveArchive, DeleteImage, CancelBuild, DeleteBuild, carriers
<1>3. CASE Publisher
  BY <1>3 DEF Publisher, LeaseOutbox, DiscardOutbox, PublishMessage, PublishFails,
     MarkPublished, Enqueue, TypeOK
<1>4. ASSUME NEW w \in Workers, NEW c \in Builds, Deliver(w, c)
      PROVE  queue'[b] >= queue[b] \/ builds'[b] # "pending"
  BY <1>4 DEF Deliver, Terminal, TerminalStatuses, TypeOK
<1>5. ASSUME NEW t \in Tasks, NEW permanent, Fail(t, permanent)
      PROVE  queue'[b] >= queue[b]
  BY <1>5 DEF Fail, TypeOK
<1>6. CASE \E w \in Workers : Work(w)
  BY <1>1, <1>5, <1>6 DEF Work, Download, Build, Discard, carriers, Tasks
<1>7. CASE \E t \in Tasks : Complete(t)
  BY <1>1, <1>5, <1>7 DEF Complete, ReadComplete, Measure, Mark, DeleteManifest, Record,
     Release, DeleteArchive, Return, carriers
<1>8. CASE Restart
  <2>1. Cardinality({w \in Workers : InCore(w) /\ tasks[w].build = b}) \in Nat
    BY BuildConstants, FS_Subset, FS_CardinalityType
  <2>2. Cardinality({w \in Workers : tasks[w].build = b}) \in Nat
    BY BuildConstants, FS_Subset, FS_CardinalityType
  <2>3. CASE CoreRestarts
    <3>1. queue'[b] = queue[b] + Cardinality({w \in Workers :
                                                InCore(w) /\ tasks[w].build = b})
      BY <2>3 DEF CoreRestarts
    <3> QED BY <2>1, <3>1
  <2>4. CASE BuilderCrashes
    <3>1. queue'[b] = queue[b] + Cardinality({w \in Workers : tasks[w].build = b})
      BY <2>4 DEF BuilderCrashes, Copies
    <3> QED BY <2>2, <3>1
  <2>5. CASE BuilderStops BY <1>1, <2>5 DEF BuilderStops, carriers
  <2> QED BY <1>8, <2>3, <2>4, <2>5 DEF Restart
<1>9. CASE \/ DeleteStale \/ \E c \in Builds : Upload(c) \/ EraseImage(c) \/ Collect(c)
           \/ \E k \in Callers : FindDigest(k)
  BY <1>1, <1>9 DEF DeleteStale, Collect, EndStaleBuild, EndStaleStaging, Upload,
     UploadArchive, CreateQueuedBuild, RejectBuild, RollBackUpload, EraseImage,
     FindDigest, carriers
<1> QED BY <1>2, <1>3, <1>4, <1>6, <1>7, <1>8, <1>9 DEF Next, Consume

LEMMA CarriedStep ==
    ASSUME IInv, Next, TypeOK'
    PROVE  PublisherShape' /\ PendingIsCarried'
<1> TypeOK /\ PublisherShape BY DEF IInv
<1>1. \A b \in Builds : queue[b] \in Nat /\ queue'[b] \in Nat BY DEF TypeOK
<1>2. ASSUME UNCHANGED publisher PROVE PublisherShape'
  <2> DEFINE b == publisher.build
  <2>1. CASE publisher.pc = "idle" BY <1>2, <2>1 DEF PublisherShape, TypeOK
  <2>2. CASE publisher.pc # "idle"
    <3>1. b \in Builds /\ uploads[b] = "created" /\ b' = b
      BY <1>2, <2>2 DEF PublisherShape
    <3>2. uploads'[b] = "created" /\ Kept(b) BY <3>1, BuildsGoOn
    <3>3. queue'[b] >= queue[b] \/ builds'[b] # "pending" BY <3>1, QueueStep
    <3> HIDE DEF b
    <3>4. publisher.pc = "mark" => queue'[b] > 0 \/ builds'[b] # "pending"
      BY <1>1, <3>1, <3>2, <3>3 DEF PublisherShape, Kept, b
    <3> QED BY <1>2, <3>1, <3>2, <3>4 DEF PublisherShape, b
  <2> QED BY <2>1, <2>2
<1>3. ASSUME Publisher PROVE PublisherShape'
  <2>1. ASSUME NEW b \in Builds, LeaseOutbox(b) PROVE PublisherShape'
    BY <2>1 DEF LeaseOutbox, PublisherShape, archives, IInv, RowsFollowUpload
  <2>2. CASE PublishMessage
    <3>1. publisher.build \in Builds /\ uploads[publisher.build] = "created"
      BY <2>2 DEF PublishMessage, PublisherShape
    <3>2. publisher'.build = publisher.build /\ UNCHANGED uploads
      BY <2>2 DEF PublishMessage, archives, TypeOK
    <3>3. queue'[publisher.build] = queue[publisher.build] + 1
      BY <2>2, <3>1 DEF PublishMessage, Enqueue, TypeOK
    <3>4. queue'[publisher.build] > 0 BY <1>1, <3>1, <3>3
    <3> QED BY <3>1, <3>2, <3>4 DEF PublisherShape
  <2>3. CASE DiscardOutbox \/ PublishFails \/ MarkPublished
    <3>1. publisher'.pc = "idle"
      BY <2>3 DEF DiscardOutbox, PublishFails, MarkPublished, IdlePublisher
    <3> QED BY <3>1 DEF PublisherShape
  <2> QED BY <1>3, <2>1, <2>2, <2>3 DEF Publisher
<1>4. PublisherShape'
  <2>1. CASE CoreRestarts BY <2>1 DEF CoreRestarts, IdlePublisher, PublisherShape
  <2> QED BY <1>2, <1>3, <2>1, Writers DEF PublisherWriters
<1>5. ASSUME NEW b \in Builds, builds'[b] = "pending"
      PROVE  outbox'[b] \in {"pending", "publishing"} \/ queue'[b] > 0
  <2>1. CASE CreateQueuedBuild(b) BY <2>1 DEF CreateQueuedBuild, TypeOK
  <2>2. CASE Kept(b)
    <3>1. outbox[b] \in {"pending", "publishing"} \/ queue[b] > 0
      BY <1>5, <2>2 DEF Kept, IInv, PendingIsCarried
    <3>2. queue'[b] >= queue[b] BY <1>5, QueueStep
    <3>3. CASE queue[b] > 0 BY <1>1, <3>2, <3>3
    <3>4. CASE outbox[b] \in {"pending", "publishing"}
      <4>1. CASE outbox'[b] = outbox[b] BY <3>4, <4>1
      <4>2. CASE LeaseOutbox(b) \/ PublishFails
        BY <3>4, <4>2 DEF LeaseOutbox, PublishFails, SetOutbox, TypeOK
      <4>3. CASE MarkPublished
        <5>1. publisher.build = b => queue'[b] > 0
          BY <1>1, <1>5, <2>2, <3>2, <4>3 DEF MarkPublished, PublisherShape, Kept
        <5>2. publisher.build # b => outbox'[b] = outbox[b]
          BY <4>3 DEF MarkPublished, SetOutbox, TypeOK
        <5> QED BY <3>4, <5>1, <5>2
      <4>4. CASE DiscardOutbox
        <5>1. publisher.build # b
          BY <1>5, <2>2, <4>4 DEF DiscardOutbox, Kept, Active
        <5> QED BY <3>4, <4>4, <5>1 DEF DiscardOutbox, SetOutbox, TypeOK
      <4>5. ASSUME NEW c \in Builds,
                   \/ LeaseOutbox(c) /\ c # b
                   \/ CreateQueuedBuild(c)
                   \/ \E k \in Callers : DeleteBuild(k, c)
            PROVE  outbox'[b] \in {outbox[b], "pending"}
        BY <1>5, <4>5 DEF LeaseOutbox, SetOutbox, CreateQueuedBuild, DeleteBuild, TypeOK
      <4>6. CASE PublishMessage BY <4>1, <4>6 DEF PublishMessage
      <4> QED BY <3>4, <4>1, <4>2, <4>3, <4>4, <4>5, <4>6, Writers
              DEF OutboxWriters, Publisher
    <3> QED BY <3>1, <3>3, <3>4
  <2> QED BY <2>1, <2>2, RowEffect
<1> QED BY <1>4, <1>5 DEF PendingIsCarried
-----------------------------------------------------------------------------
(* Theorems *)

LEMMA InitInvariant ==
    ASSUME Init
    PROVE  IInv
<1> USE DEF Init
<1>1. TypeOK
  <2>1. IdlePublisher \in [pc : {"idle", "publish", "mark"}, build : Builds \cup {None}]
    BY DEF IdlePublisher
  <2>2. NoErasure \in [pc : {"none", "load", "digest", "manifest", "row"},
                       digest : Builds \cup {None}]
    BY DEF NoErasure
  <2> QED BY <2>1, <2>2, IdleTaskType DEF TypeOK, BuildStatuses, ImageStatuses
<1>2. RowsFollowUpload /\ ErasureIsLate
  BY DEF RowsFollowUpload, ErasureIsLate, NoErasure
<1>3. TasksShape /\ ExclusiveBuild
  BY DEF TasksShape, TaskShape, ExclusiveBuild, IdleTask, Tasks
<1>4. PublisherShape BY DEF PublisherShape, IdlePublisher
<1>5. /\ OneBuildingPerTag /\ ImageFollowsBuild /\ OneImagePerTag
      /\ PendingIsCarried /\ ArchiveKept
  BY DEF OneBuildingPerTag, ImageFollowsBuild, OneImagePerTag, PendingIsCarried,
     ArchiveKept, Active
<1> QED BY <1>1, <1>2, <1>3, <1>4, <1>5 DEF IInv

\* Every reachable state satisfies the invariant on which the theorems below rest.
THEOREM Invariant == Spec => []IInv
<1>1. Init => IInv BY InitInvariant
<1>2. IInv /\ [Next]_vars => IInv'
  <2>1. ASSUME IInv, Next PROVE IInv'
    BY <2>1, TypeStep, FollowUploadStep, ErasureStep, ImagesStep, TasksStep,
       CarriedStep, ArchiveStep, ExclusiveStep DEF IInv
  <2>2. ASSUME IInv, UNCHANGED vars PROVE IInv'
    BY <2>2 DEF vars, IInv, TypeOK, RowsFollowUpload, ErasureIsLate, OneBuildingPerTag,
       TasksShape, TaskShape, PublisherShape, ImageFollowsBuild, OneImagePerTag,
       PendingIsCarried, ArchiveKept, ExclusiveBuild, Active
  <2> QED BY <2>1, <2>2
<1> QED BY <1>1, <1>2, PTL DEF Spec

\* Tables, queues and goroutines hold values of their types.
THEOREM TypeCorrect == Spec => []TypeOK
<1>1. IInv => TypeOK BY DEF IInv
<1> QED BY <1>1, Invariant, PTL

\* However often the broker delivers a message, and whichever service restarts, one
\* goroutine of Builder at most runs a build.
THEOREM Exclusion == Spec => []ExclusiveBuild
<1>1. IInv => ExclusiveBuild BY DEF IInv
<1> QED BY <1>1, Invariant, PTL

\* A pending build is never forgotten by outbox and broker together.
THEOREM Carriage == Spec => []PendingIsCarried
<1>1. IInv => PendingIsCarried BY DEF IInv
<1> QED BY <1>1, Invariant, PTL

\* Neither Builder, Core nor the collector removes the archive of an active build.
THEOREM Archives == Spec => []ArchiveKept
<1>1. IInv => ArchiveKept BY DEF IInv
<1> QED BY <1>1, Invariant, PTL

\* Image rows follow their builds, and finished builds replace each other: for any
\* number of builds of a tag, restarts and failing calls.
THEOREM Images == Spec => [](ImageFollowsBuild /\ OneImagePerTag)
<1>1. IInv => ImageFollowsBuild /\ OneImagePerTag BY DEF IInv
<1> QED BY <1>1, Invariant, PTL

\* The first of the reports of completion, cancellation and collector stands.
THEOREM Finality == Spec => StatusOnlyAdvances
<1> DEFINE Advances == \A b \in Builds :
                         /\ builds[b] = "running" => builds'[b] # "pending"
                         /\ Terminal(b) => builds'[b] \in {builds[b], "absent"}
<1>1. IInv /\ [Next]_vars => [Advances]_vars
  <2> SUFFICES ASSUME IInv, Next, NEW b \in Builds
               PROVE  /\ builds[b] = "running" => builds'[b] # "pending"
                      /\ Terminal(b) => builds'[b] \in {builds[b], "absent"}
    OBVIOUS
  <2>1. CASE Kept(b) BY <2>1 DEF Kept
  <2>2. CASE CreateQueuedBuild(b)
    BY <2>2 DEF CreateQueuedBuild, IInv, RowsFollowUpload, Terminal, TerminalStatuses
  <2> QED BY <2>1, <2>2, RowEffect
<1>2. Spec => [][Advances]_vars BY <1>1, Invariant, PTL DEF Spec
<1> QED BY <1>2 DEF StatusOnlyAdvances
=============================================================================
