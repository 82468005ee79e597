--------------------------- MODULE VolumeLifecycle ---------------------------
(***************************************************************************)
(* The life of a volume: API requests queue its creation and deletion on   *)
(* the resource queue, consumer goroutines execute them against Docker,    *)
(* the event worker reconciles rows with Docker, containers are created    *)
(* that mount it, and Core restarts.                                       *)
(*                                                                         *)
(* One step is one database transaction or one Docker call.  A row's name  *)
(* is the name of its Docker volume; it is free again once the row is      *)
(* deleted.                                                                *)
(***************************************************************************)
EXTENDS Naturals, FiniteSets

CONSTANTS
    Volumes,      \* primary keys of volume rows; a key is never reused
    Names,        \* names of Docker volumes
    Containers,   \* containers that mount one volume each
    Operations,   \* primary keys of resource_operations
    Workers,      \* consumer goroutines of the resource queue
    Callers,      \* API handlers of volume Delete
    None,         \* SQL NULL and Go's zero uuid
    MaxAttempts,  \* ContainerCreateMaxAttempts
    MaxCopies,    \* bound: copies of one message in the broker
    MaxCrashes,   \* bound: restarts of Core
    MaxFaults,    \* bound: failing calls
    FaultPoints,  \* the calls that may fail in this model
    OutsideActs   \* "remove": volumes are removed outside DCM

Faults == {"timeout", "lostReply", "docker", "publish", "confirm", "dbMark",
           "dbLoad", "dbRecord", "dbRequeue", "dbFail", "dbComplete",
           "dbRecover"}

ASSUME VolumeConstants ==
    /\ None \notin Volumes \cup Names \cup Operations
    /\ IsFiniteSet(Workers)
    /\ MaxAttempts \in Nat \ {0}
    /\ MaxCopies \in Nat /\ MaxCrashes \in Nat /\ MaxFaults \in Nat
    /\ FaultPoints \subseteq Faults
    /\ OutsideActs \subseteq {"remove"}

VARIABLES
    volumes,    \* table volumes
    mounts,     \* table volume_mounts
    containers, \* containers on their way from the request to Docker
    ops,        \* table resource_operations
    outbox,     \* table resource_lifecycle_queue_outbox: status per operation
    queue,      \* RabbitMQ: deliverable copies of the message of an operation
    publisher,  \* the outbox worker
    workers,    \* the consumer goroutines
    callers,    \* the API handlers
    sync,       \* the volume part of the event worker
    engine,     \* volumes of the Docker engine
    crashes, faults   \* budgets spent

queueVars == <<ops, outbox, queue>>
budgets == <<crashes, faults>>
vars == <<volumes, mounts, containers, ops, outbox, queue, publisher, workers,
          callers, sync, engine, crashes, faults>>

-----------------------------------------------------------------------------
(* Data *)

VolumeStatuses == {"absent", "creating", "available", "deleting", "error",
                   "missing"}
VolumeType == [status : VolumeStatuses, name : Names \cup {None}]
NoVolume == [status |-> "absent", name |-> None]

Kinds == {"create", "delete"}
OpType == [status : {"none", "pending", "running", "done", "failed"},
           kind : Kinds, volume : Volumes \cup {None}, attempts : Nat]
NoOp == [status |-> "none", kind |-> "create", volume |-> None, attempts |-> 0]

\* "vanished" was removed by somebody else.
EngineStates == {"absent", "present", "vanished"}

WorkerType == [pc : {"idle", "load", "docker", "record", "complete", "requeue",
                     "failRow", "failOp"},
               op : Operations \cup {None}, claimed : BOOLEAN,
               name : Names \cup {None}, verdict : {"ack", "dead", "retry"}]
IdleWorker == [pc |-> "idle", op |-> None, claimed |-> FALSE, name |-> None,
               verdict |-> "ack"]

\* A container's row exists from "queued" to "failed"; "live" exists in Docker
\* as well.  attach: the volume its runtime specification names.
ContainerType == [pc : {"none", "admitted", "queued", "inspecting", "creating",
                        "live", "failed", "gone"},
                  volume : Volumes \cup {None}, attach : Names \cup {None}]
NoContainer == [pc |-> "none", volume |-> None, attach |-> None]

SyncType == [pc : {"idle", "inspect", "missing", "repair"},
             volume : Volumes \cup {None}, name : Names \cup {None},
             seen : VolumeStatuses]
IdleSync == [pc |-> "idle", volume |-> None, name |-> None, seen |-> "absent"]

IdlePublisher == [pc |-> "idle", op |-> None]

Exists(v) == volumes[v].status # "absent"
Present(n) == engine[n] = "present"
Mounted(v) == \E c \in Containers : <<c, v>> \in mounts
\* Docker refuses to remove a volume that a container uses.
Attached(n) ==
    \E c \in Containers : containers[c].pc = "live" /\ containers[c].attach = n

Active(o) == ops[o].status \in {"pending", "running"}
HasActive(v) == \E o \in Operations : ops[o].volume = v /\ Active(o)
Finished(o) == ops[o].status \in {"done", "failed"}

OpOf(w) == ops[workers[w].op]
VolumeOf(w) == OpOf(w).volume

Fault(point) ==
    /\ point \in FaultPoints
    /\ faults < MaxFaults
    /\ faults' = faults + 1

Init ==
    /\ volumes = [v \in Volumes |-> NoVolume]
    /\ mounts = {}
    /\ containers = [c \in Containers |-> NoContainer]
    /\ ops = [o \in Operations |-> NoOp]
    /\ outbox = [o \in Operations |-> "none"]
    /\ queue = [o \in Operations |-> 0]
    /\ publisher = IdlePublisher
    /\ workers = [w \in Workers |-> IdleWorker]
    /\ callers = [k \in Callers |-> None]
    /\ sync = IdleSync
    /\ engine = [n \in Names |-> "absent"]
    /\ crashes = 0
    /\ faults = 0

-----------------------------------------------------------------------------
(* API handlers *)

InsertOperation(o, v, kind) ==
    /\ ops[o].status = "none"
    /\ ~HasActive(v)
    /\ ops' = [ops EXCEPT ![o] = [status |-> "pending", kind |-> kind,
                                  volume |-> v, attempts |-> 0]]
    /\ outbox' = [outbox EXCEPT ![o] = "pending"]

\* Row, operation and outbox row in one transaction; docker_name is unique.
CreateVolume(v, n, o) ==
    /\ ~Exists(v)
    /\ \A p \in Operations : ops[p].volume # v
    /\ \A u \in Volumes : volumes[u].name # n
    /\ InsertOperation(o, v, "create")
    /\ volumes' = [volumes EXCEPT ![v] = [status |-> "creating", name |-> n]]
    /\ UNCHANGED <<mounts, containers, queue, publisher, workers, callers, sync,
                   engine, budgets>>

\* Delete finds that no container mounts the volume.
BeginDelete(k, v) ==
    /\ callers[k] = None
    /\ Exists(v)
    /\ ~Mounted(v)
    /\ callers' = [callers EXCEPT ![k] = v]
    /\ UNCHANGED <<volumes, mounts, containers, queueVars, publisher, workers,
                   sync, engine, budgets>>

\* It meets an active operation, or the row is gone.
RejectDelete(k) ==
    /\ callers[k] # None
    /\ callers' = [callers EXCEPT ![k] = None]
    /\ UNCHANGED <<volumes, mounts, containers, queueVars, publisher, workers,
                   sync, engine, budgets>>

QueueDelete(k, o) ==
    LET v == callers[k] IN
    /\ v # None
    /\ Exists(v)
    /\ InsertOperation(o, v, "delete")
    /\ volumes' = [volumes EXCEPT ![v].status = "deleting"]
    /\ callers' = [callers EXCEPT ![k] = None]
    /\ UNCHANGED <<mounts, containers, queue, publisher, workers, sync, engine,
                   budgets>>

-----------------------------------------------------------------------------
(* Containers that mount a volume *)

MoveContainer(c, pc) == containers' = [containers EXCEPT ![c].pc = pc]

\* Container Create accepts a mount of any volume that is not missing.
AdmitContainer(c, v) ==
    /\ containers[c].pc = "none"
    /\ volumes[v].status \notin {"absent", "missing"}
    /\ containers' = [containers EXCEPT ![c] = [NoContainer EXCEPT
                          !.pc = "admitted", !.volume = v]]
    /\ UNCHANGED <<volumes, mounts, queueVars, publisher, workers, callers, sync,
                   engine, budgets>>

\* The row and its mount; the foreign key refuses a volume that is gone.
SaveContainer(c) ==
    LET v == containers[c].volume IN
    /\ containers[c].pc = "admitted"
    /\ IF Exists(v) THEN mounts' = mounts \cup {<<c, v>>} /\ MoveContainer(c, "queued")
                    ELSE UNCHANGED mounts /\ MoveContainer(c, "gone")
    /\ UNCHANGED <<volumes, queueVars, publisher, workers, callers, sync, engine,
                   budgets>>

\* GetMountsByContainerID joins the mounts with their volumes.
ReadMounts(c) ==
    LET v == containers[c].volume IN
    /\ containers[c].pc = "queued"
    /\ containers' = [containers EXCEPT
          ![c].pc = "inspecting",
          ![c].attach = IF <<c, v>> \in mounts THEN volumes[v].name ELSE None]
    /\ UNCHANGED <<volumes, mounts, queueVars, publisher, workers, callers, sync,
                   engine, budgets>>

\* inspectQueuedCreateVolumes; a volume that is not there is marked missing.
InspectMounts(c) ==
    LET v == containers[c].volume
        n == containers[c].attach
    IN
    /\ containers[c].pc = "inspecting"
    /\ IF n = None \/ Present(n)
       THEN MoveContainer(c, "creating") /\ UNCHANGED volumes
       ELSE /\ MoveContainer(c, "failed")
            /\ volumes' = IF Exists(v)
                          THEN [volumes EXCEPT ![v].status = "missing"] ELSE volumes
    /\ UNCHANGED <<mounts, queueVars, publisher, workers, callers, sync, engine,
                   budgets>>

\* ContainerCreate makes a named volume that does not exist.
CreateContainer(c) ==
    LET n == containers[c].attach IN
    /\ containers[c].pc = "creating"
    /\ MoveContainer(c, "live")
    /\ engine' = IF n = None THEN engine ELSE [engine EXCEPT ![n] = "present"]
    /\ UNCHANGED <<volumes, mounts, queueVars, publisher, workers, callers, sync,
                   budgets>>

\* Deletion of the container, whose own queue ContainerLifecycle models: the
\* mounts go with the row, the Docker volume stays.
DeleteContainer(c) ==
    /\ containers[c].pc \in {"live", "failed"}
    /\ MoveContainer(c, "gone")
    /\ mounts' = {m \in mounts : m[1] # c}
    /\ UNCHANGED <<volumes, queueVars, publisher, workers, callers, sync, engine,
                   budgets>>

-----------------------------------------------------------------------------
(* Outbox worker *)

SetOutbox(o, status) == outbox' = [outbox EXCEPT ![o] = status]

LeaseOutbox(o) ==
    /\ publisher.pc = "idle"
    /\ outbox[o] \in {"pending", "publishing"}
    /\ SetOutbox(o, "publishing")
    /\ publisher' = [pc |-> "publish", op |-> o]
    /\ UNCHANGED <<volumes, mounts, containers, ops, queue, workers, callers, sync,
                   engine, budgets>>

\* The operation is no longer pending; a failure to mark the row is ignored.
DiscardOutbox ==
    /\ publisher.pc = "publish"
    /\ ops[publisher.op].status # "pending"
    /\ \/ SetOutbox(publisher.op, "discarded") /\ UNCHANGED faults
       \/ Fault("dbMark") /\ UNCHANGED outbox
    /\ publisher' = IdlePublisher
    /\ UNCHANGED <<volumes, mounts, containers, ops, queue, workers, callers, sync,
                   engine, crashes>>

Copies(o) == queue[o] + Cardinality({w \in Workers : workers[w].op = o})

PublishMessage ==
    LET o == publisher.op IN
    /\ publisher.pc = "publish"
    /\ ops[o].status = "pending"
    /\ Copies(o) < MaxCopies
    /\ queue' = [queue EXCEPT ![o] = @ + 1]
    /\ publisher' = [publisher EXCEPT !.pc = "mark"]
    /\ UNCHANGED <<volumes, mounts, containers, ops, outbox, workers, callers, sync,
                   engine, budgets>>

\* The publish, or a read before it, fails; with "confirm" only the broker's
\* confirmation was lost.
PublishFails ==
    LET o == publisher.op IN
    /\ publisher.pc = "publish"
    /\ \/ Fault("publish") /\ UNCHANGED queue
       \/ /\ Fault("confirm")
          /\ ops[o].status = "pending" /\ Copies(o) < MaxCopies
          /\ queue' = [queue EXCEPT ![o] = @ + 1]
    /\ SetOutbox(o, "pending")
    /\ publisher' = IdlePublisher
    /\ UNCHANGED <<volumes, mounts, containers, ops, workers, callers, sync, engine,
                   crashes>>

MarkPublished ==
    /\ publisher.pc = "mark"
    /\ \/ SetOutbox(publisher.op, "published") /\ UNCHANGED faults
       \/ Fault("dbMark") /\ UNCHANGED outbox
    /\ publisher' = IdlePublisher
    /\ UNCHANGED <<volumes, mounts, containers, ops, queue, workers, callers, sync,
                   engine, crashes>>

-----------------------------------------------------------------------------
(* Consumer goroutines *)

Goto(w, pc) == workers' = [workers EXCEPT ![w].pc = pc]

GotoFailing(w, pc, verdict) ==
    workers' = [workers EXCEPT ![w].pc = pc, ![w].verdict = verdict]

\* The handler returns; "retry" puts the delivery back.
Settle(w, verdict) ==
    /\ workers' = [workers EXCEPT ![w] = IdleWorker]
    /\ queue' = IF verdict = "retry"
                THEN [queue EXCEPT ![workers[w].op] = @ + 1] ELSE queue

SetOp(w, status) == ops' = [ops EXCEPT ![workers[w].op].status = status]

SetStatus(v, status) ==
    volumes' = IF Exists(v) THEN [volumes EXCEPT ![v].status = status] ELSE volumes

\* Mutant: an operation that is running may be claimed once more.
ClaimRunning(w, o) ==
    /\ workers[w].pc = "idle"
    /\ queue[o] > 0
    /\ queue' = [queue EXCEPT ![o] = @ - 1]
    /\ IF Active(o)
       THEN /\ ops' = [ops EXCEPT ![o].status = "running"]
            /\ workers' = [workers EXCEPT ![w] = [IdleWorker EXCEPT
                                !.pc = "load", !.op = o, !.claimed = TRUE]]
       ELSE UNCHANGED <<ops, workers>>
    /\ UNCHANGED <<volumes, mounts, containers, outbox, publisher, callers, sync,
                   engine, budgets>>

\* ClaimPendingOperation on a delivered message, and what the handler does with
\* an operation it does not get: fail one that used up its attempts, acknowledge
\* the message of any other.
Claim(w, o) ==
    /\ workers[w].pc = "idle"
    /\ queue[o] > 0
    /\ queue' = [queue EXCEPT ![o] = @ - 1]
    /\ \/ /\ ops[o].status = "pending" /\ ops[o].attempts < MaxAttempts
          /\ ops' = [ops EXCEPT ![o].status = "running", ![o].attempts = @ + 1]
          /\ workers' = [workers EXCEPT ![w] = [IdleWorker EXCEPT
                              !.pc = "load", !.op = o, !.claimed = TRUE]]
       \/ /\ ops[o].status = "pending" /\ ops[o].attempts >= MaxAttempts
          /\ workers' = [workers EXCEPT ![w] = [IdleWorker EXCEPT
                              !.pc = "failRow", !.op = o]]
          /\ UNCHANGED ops
       \/ ops[o].status # "pending" /\ UNCHANGED <<ops, workers>>
    /\ UNCHANGED <<volumes, mounts, containers, outbox, publisher, callers, sync,
                   engine, budgets>>

\* Mutant: a delete gives up the row, and with it the name, before Docker.
LoadAndDelete(w) ==
    LET v == VolumeOf(w) IN
    /\ workers[w].pc = "load"
    /\ Exists(v)
    /\ workers' = [workers EXCEPT ![w].pc = "docker", ![w].name = volumes[v].name]
    /\ volumes' = IF OpOf(w).kind = "delete"
                  THEN [volumes EXCEPT ![v] = NoVolume] ELSE volumes
    /\ UNCHANGED <<mounts, containers, queueVars, publisher, callers, sync, engine,
                   budgets>>

\* GetByID, which yields the name.  A row that is gone ends a delete with success,
\* a create with a permanent error.
Load(w) ==
    /\ workers[w].pc = "load"
    /\ \/ /\ IF Exists(VolumeOf(w))
             THEN /\ workers' = [workers EXCEPT ![w].pc = "docker",
                                               ![w].name = volumes[VolumeOf(w)].name]
                  /\ UNCHANGED <<ops, queue>>
             ELSE IF OpOf(w).kind = "delete"
                  THEN SetOp(w, "done") /\ Settle(w, "ack")
                  ELSE SetOp(w, "failed") /\ Settle(w, "dead")
          /\ UNCHANGED faults
       \/ Fault("dbLoad") /\ SetOp(w, "failed") /\ Settle(w, "retry")
    /\ UNCHANGED <<volumes, mounts, containers, outbox, publisher, callers, sync,
                   engine, crashes>>

\* Mutant: the error of the Docker call is only logged.
DockerCallLogged(w) ==
    LET n == workers[w].name IN
    /\ workers[w].pc = "docker"
    /\ \/ /\ engine' = IF OpOf(w).kind = "create"
                       THEN [engine EXCEPT ![n] = "present"]
                       ELSE IF Present(n) /\ ~Attached(n)
                            THEN [engine EXCEPT ![n] = "absent"] ELSE engine
          /\ UNCHANGED faults
       \/ Fault("docker") /\ UNCHANGED engine
    /\ Goto(w, "record")
    /\ UNCHANGED <<volumes, mounts, containers, queueVars, publisher, callers, sync,
                   crashes>>

\* CreateVolume returns an existing volume as it is; RemoveVolume without force
\* fails while a container uses the volume, and its NotFound is a success.
DockerCall(w) ==
    LET n == workers[w].name IN
    /\ workers[w].pc = "docker"
    /\ \/ /\ OpOf(w).kind = "delete" /\ Present(n) /\ Attached(n)
          /\ GotoFailing(w, "failRow", "retry")
          /\ UNCHANGED <<engine, faults>>
       \/ /\ ~(OpOf(w).kind = "delete" /\ Present(n) /\ Attached(n))
          /\ engine' = IF OpOf(w).kind = "create"
                       THEN [engine EXCEPT ![n] = "present"]
                       ELSE IF Present(n) THEN [engine EXCEPT ![n] = "absent"]
                                          ELSE engine
          /\ \/ Goto(w, "record") /\ UNCHANGED faults
             \/ Fault("lostReply") /\ Goto(w, "requeue")
       \/ Fault("timeout") /\ Goto(w, "requeue") /\ UNCHANGED engine
       \/ Fault("docker") /\ GotoFailing(w, "failRow", "retry") /\ UNCHANGED engine
    /\ UNCHANGED <<volumes, mounts, containers, queueVars, publisher, callers, sync,
                   crashes>>

\* Create: setVolumeStatus, whose error is ignored.  Delete: the row goes, and
\* with it every mount of it (ON DELETE CASCADE).
Record(w) ==
    LET v == VolumeOf(w) IN
    /\ workers[w].pc = "record"
    /\ \/ /\ OpOf(w).kind = "create"
          /\ SetStatus(v, "available") /\ UNCHANGED <<mounts, faults>>
          /\ Goto(w, "complete")
       \/ /\ OpOf(w).kind = "delete"
          /\ volumes' = [volumes EXCEPT ![v] = NoVolume]
          /\ mounts' = {m \in mounts : m[2] # v}
          /\ Goto(w, "complete")
          /\ UNCHANGED faults
       \/ /\ Fault("dbRecord")
          /\ IF OpOf(w).kind = "create" THEN Goto(w, "complete")
                                        ELSE GotoFailing(w, "failRow", "retry")
          /\ UNCHANGED <<volumes, mounts>>
    /\ UNCHANGED <<containers, queueVars, publisher, callers, sync, engine, crashes>>

\* Its error is ignored.
Complete(w) ==
    /\ workers[w].pc = "complete"
    /\ \/ SetOp(w, "done") /\ UNCHANGED faults
       \/ Fault("dbComplete") /\ UNCHANGED ops
    /\ Settle(w, "ack")
    /\ UNCHANGED <<volumes, mounts, containers, outbox, publisher, callers, sync,
                   engine, crashes>>

Requeue(w) ==
    /\ workers[w].pc = "requeue"
    /\ \/ SetOp(w, "pending") /\ Settle(w, "retry") /\ UNCHANGED faults
       \/ /\ Fault("dbRequeue")
          /\ GotoFailing(w, "failRow", "retry")
          /\ UNCHANGED <<ops, queue>>
    /\ UNCHANGED <<volumes, mounts, containers, outbox, publisher, callers, sync,
                   engine, crashes>>

\* failQueuedVolume: the row, then the operation; errors are ignored.
FailRow(w) ==
    /\ workers[w].pc = "failRow"
    /\ \/ SetStatus(VolumeOf(w), "error") /\ UNCHANGED faults
       \/ Fault("dbFail") /\ UNCHANGED volumes
    /\ Goto(w, "failOp")
    /\ UNCHANGED <<mounts, containers, queueVars, publisher, callers, sync, engine,
                   crashes>>

FailOp(w) ==
    /\ workers[w].pc = "failOp"
    /\ \/ SetOp(w, "failed") /\ UNCHANGED faults
       \/ Fault("dbFail") /\ UNCHANGED ops
    /\ Settle(w, workers[w].verdict)
    /\ UNCHANGED <<volumes, mounts, containers, outbox, publisher, callers, sync,
                   engine, crashes>>

-----------------------------------------------------------------------------
(* Event worker *)

\* syncVolumes takes a volume from the list it read; the copy may be old when
\* its turn comes.
SyncRead(v) ==
    /\ sync.pc = "idle"
    /\ volumes[v].status \in {"creating", "available"}
    /\ sync' = [pc |-> "inspect", volume |-> v, name |-> volumes[v].name,
                seen |-> volumes[v].status]
    /\ UNCHANGED <<volumes, mounts, containers, queueVars, publisher, workers,
                   callers, engine, budgets>>

\* Mutant: a volume that is there needs nothing, whatever its status.
FoundNothing(seen) == "idle"

\* Mutant: the status is taken for the next step.
FoundStatus(seen) == seen

\* What the worker has to write for a volume that is there.
FoundIn(seen) == IF seen = "creating" THEN "repair" ELSE "idle"

SyncInspect ==
    /\ sync.pc = "inspect"
    /\ \/ /\ sync' = LET pc == IF Present(sync.name) THEN FoundIn(sync.seen)
                                                     ELSE "missing"
                     IN IF pc = "idle" THEN IdleSync ELSE [sync EXCEPT !.pc = pc]
          /\ UNCHANGED faults
       \/ Fault("docker") /\ sync' = IdleSync
    /\ UNCHANGED <<volumes, mounts, containers, queueVars, publisher, workers,
                   callers, engine, crashes>>

\* Written whatever the row's status is by now; an error is ignored.
SyncWrite ==
    /\ sync.pc \in {"missing", "repair"}
    /\ \/ /\ SetStatus(sync.volume, IF sync.pc = "missing" THEN "missing"
                                                          ELSE "available")
          /\ UNCHANGED faults
       \/ Fault("dbRecord") /\ UNCHANGED volumes
    /\ sync' = IdleSync
    /\ UNCHANGED <<mounts, containers, queueVars, publisher, workers, callers,
                   engine, crashes>>

-----------------------------------------------------------------------------
(* Docker outside DCM, and restarts of Core *)

RemovedOutside(n) ==
    /\ "remove" \in OutsideActs
    /\ Present(n) /\ ~Attached(n)
    /\ engine' = [engine EXCEPT ![n] = "vanished"]
    /\ UNCHANGED <<volumes, mounts, containers, queueVars, publisher, workers,
                   callers, sync, budgets>>

\* Requests under way end, deliveries and the creation of containers start
\* again, FailActiveNonCreateOperations fails what was running.
CrashAndRecover ==
    /\ crashes < MaxCrashes
    /\ crashes' = crashes + 1
    /\ \/ /\ ops' = [o \in Operations |->
                        IF ops[o].status = "running"
                        THEN [ops[o] EXCEPT !.status = "failed"] ELSE ops[o]]
          /\ UNCHANGED faults
       \/ Fault("dbRecover") /\ UNCHANGED ops
    /\ queue' = [o \in Operations |-> Copies(o)]
    /\ publisher' = IdlePublisher
    /\ workers' = [w \in Workers |-> IdleWorker]
    /\ callers' = [k \in Callers |-> None]
    /\ sync' = IdleSync
    /\ containers' = [c \in Containers |->
          CASE containers[c].pc = "admitted" -> NoContainer
            [] containers[c].pc \in {"inspecting", "creating"} ->
                  [containers[c] EXCEPT !.pc = "queued", !.attach = None]
            [] OTHER -> containers[c]]
    /\ UNCHANGED <<volumes, mounts, outbox, engine>>

-----------------------------------------------------------------------------

Api ==
    \/ \E v \in Volumes, n \in Names, o \in Operations : CreateVolume(v, n, o)
    \/ \E k \in Callers, v \in Volumes : BeginDelete(k, v)
    \/ \E k \in Callers : RejectDelete(k)
    \/ \E k \in Callers, o \in Operations : QueueDelete(k, o)

Mount ==
    \E c \in Containers :
        \/ \E v \in Volumes : AdmitContainer(c, v)
        \/ SaveContainer(c) \/ ReadMounts(c) \/ InspectMounts(c)
        \/ CreateContainer(c) \/ DeleteContainer(c)

Publisher ==
    \/ \E o \in Operations : LeaseOutbox(o)
    \/ DiscardOutbox \/ PublishMessage \/ PublishFails \/ MarkPublished

Proceed(w) ==
    \/ Load(w) \/ DockerCall(w) \/ Record(w) \/ Complete(w) \/ Requeue(w)
    \/ FailRow(w) \/ FailOp(w)

Sync == (\E v \in Volumes : SyncRead(v)) \/ SyncInspect \/ SyncWrite

Next ==
    \/ Api \/ Mount \/ Publisher \/ Sync
    \/ \E w \in Workers : Proceed(w) \/ \E o \in Operations : Claim(w, o)
    \/ \E n \in Names : RemovedOutside(n)
    \/ CrashAndRecover

Spec == Init /\ [][Next]_vars

\* As in ContainerLifecycle; besides, every round of the event worker visits
\* every candidate.
Fairness ==
    /\ WF_vars(Publisher)
    /\ \A w \in Workers : WF_vars(Proceed(w))
    /\ WF_vars(\E w \in Workers, o \in Operations : Claim(w, o))
    /\ \A v \in Volumes : SF_vars(SyncRead(v))
    /\ WF_vars(SyncInspect) /\ WF_vars(SyncWrite)

FairSpec == Spec /\ Fairness

-----------------------------------------------------------------------------
(* Properties *)

\* Every table, queue and goroutine holds values the code can store there.
TypeOK ==
    /\ volumes \in [Volumes -> VolumeType]
    /\ mounts \in SUBSET (Containers \X Volumes)
    /\ containers \in [Containers -> ContainerType]
    /\ ops \in [Operations -> OpType]
    /\ outbox \in [Operations -> {"none", "pending", "publishing", "published",
                                  "discarded"}]
    /\ queue \in [Operations -> Nat]
    /\ publisher \in [pc : {"idle", "publish", "mark"},
                      op : Operations \cup {None}]
    /\ workers \in [Workers -> WorkerType]
    /\ callers \in [Callers -> Volumes \cup {None}]
    /\ sync \in SyncType
    /\ engine \in [Names -> EngineStates]
    /\ crashes \in Nat
    /\ faults \in Nat

\* A name is used again after its row was deleted.  DCM removes the Docker
\* volume of a name only for the delete operation of the row that holds it: no
\* late call of an earlier row's operation destroys a newer volume's data.
RemovalOwnsName ==
    [][\A n \in Names :
          engine[n] = "present" /\ engine'[n] = "absent" =>
              \E w \in Workers : /\ workers[w].claimed /\ OpOf(w).kind = "delete"
                                 /\ volumes[VolumeOf(w)].name = n]_vars

\* A row goes only when its Docker volume is gone, unless a container that had
\* read its mounts before made the volume anew.
DeletedVolumeIsGone ==
    [][\A v \in Volumes :
          Exists(v) /\ ~Exists(v)' =>
              \/ ~Present(volumes[v].name)
              \/ \E c \in Containers : containers[c].attach = volumes[v].name]_vars

\* The state synchronisation repairs what restarts, lost updates and removals
\* behind DCM's back leave: no volume stays creating for ever, and none stays
\* available whose Docker volume is gone.
RowsSettle ==
    \A v \in Volumes :
        LET unsettled == \/ volumes[v].status = "creating"
                         \/ /\ volumes[v].status = "available"
                            /\ ~Present(volumes[v].name)
        IN unsettled ~> ~unsettled

\* A volume that a container mounts is not deleted.
MountedVolumeStays ==
    [][\A c \in Containers, v \in Volumes :
          <<c, v>> \in mounts /\ containers[c].pc # "gone"
              => Exists(v)']_vars

\* Operations of one volume execute one at a time, and never after they ended.
Serial == INSTANCE SerialExecution WITH
    Resources <- Volumes,
    owner     <- [o \in Operations |-> ops[o].volume],
    executing <- {workers[w].op : w \in {x \in Workers : workers[x].claimed}},
    finished  <- {o \in Operations : Finished(o)}

RefinesSerialExecution == Serial!Spec

=============================================================================
