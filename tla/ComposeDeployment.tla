--------------------------- MODULE ComposeDeployment ---------------------------
(***************************************************************************)
(* The deployment of one Compose project: the request that stages the      *)
(* source and queues a job, the outbox worker and the queue, the handlers  *)
(* of the message, the coordinator that advances the job through its       *)
(* stages and rolls it back, cancellation by the user and by builds, and   *)
(* restarts of Core.                                                       *)
(*                                                                         *)
(* One step is one database transaction, one call of the object store or   *)
(* one call of another service.  Containers, volumes and builds follow the *)
(* contract that their own modules check: an accepted operation ends well  *)
(* or badly, later.                                                        *)
(***************************************************************************)
EXTENDS ComposePlan, Naturals

CONSTANTS
    Files,        \* the files a user may deploy: a sequence
    Forbidden,    \* reserved and blocked domain prefixes
    Available,    \* volumes the user has before the deployment
    OneShots,     \* services whose process ends by itself
    Workers,      \* consumer goroutines of the compose queue
    MaxAttempts,  \* ComposeDeployMaxAttempts
    Canceled,     \* bound: the files whose deployment the user may cancel, once
    MaxCopies,    \* bound: copies of the message in the broker
    MaxFaults,    \* bound: restarts of Core and failing calls, for each file
    FaultPoints   \* what may fail in this model

Faults == {"create", "publish", "confirm", "handler", "prepare", "trigger",
           "ignored", "coordinator", "admission", "docker", "crash"}

ASSUME DeploymentConstants ==
    /\ Absent \notin Services \cup DomainPrefixes
    /\ "user" \notin Services
    /\ IsFiniteSet(Services) /\ IsFiniteSet(Workers)
    /\ \A i \in DOMAIN Files :
           /\ Named(Files[i]) \subseteq Services
           /\ \A s \in Named(Files[i]) : Files[i].services[s] \in ServiceType
    /\ MaxAttempts \in Nat \ {0}
    /\ MaxCopies \in Nat /\ MaxFaults \in [DOMAIN Files -> Nat]
    /\ FaultPoints \subseteq Faults

VARIABLES
    file,       \* which file the request deploys
    request,    \* the API handler
    project,    \* the row of projects: its status
    job,        \* the row of compose_deployment_jobs
    source,     \* the staged source: object and reservation
    outbox, queue, publisher,
    workers,    \* the handlers
    coord,      \* the coordinator
    callers,    \* cancellations in flight: the user's and those of builds
    rows,       \* the status of the container row of a service
    engine,     \* the container of a service in Docker
    vols,       \* the status of the volume behind an alias
    linked,     \* aliases linked to the project
    builds,     \* the build of a service
    faults

delivery == <<outbox, queue, publisher>>
containers == <<rows, engine>>
resources == <<rows, engine, vols, linked, builds>>
vars == <<file, request, project, job, source, outbox, queue, publisher,
          workers, coord, callers, rows, engine, vols, linked, builds, faults>>

-----------------------------------------------------------------------------
(* Data *)

ProjectStatuses == {"none", "building", "deploying", "running", "failed",
                    "canceling", "canceled"}
JobStatuses == {"none", "queued", "running", "canceling", "succeeded", "failed",
                "canceled"}
Stages == {"", "building", "creating", "starting", "rolling_back"}

\* created: the volumes this deployment created; cleanup: how it is to end.
ResourceType == [builds : SUBSET Services, volumes : SUBSET VolumeNames,
                 created : SUBSET VolumeNames, containers : SUBSET Services,
                 graph : BOOLEAN, started : SUBSET Services,
                 cleanup : {"", "failed", "canceled"}]
NoResources == [builds |-> {}, volumes |-> {}, created |-> {}, containers |-> {},
                graph |-> FALSE, started |-> {}, cleanup |-> ""]

\* A plan is kept as its order of services, empty before there is one.
File == Files[file]
OrderSet == {<<>>} \cup UNION {Orders(Files[i]) : i \in DOMAIN Files}
JobType == [status : JobStatuses, cancel : BOOLEAN, stage : Stages,
            attempts : Nat, order : OrderSet, res : ResourceType]
NoJob == [status |-> "none", cancel |-> FALSE, stage |-> "", attempts |-> 0,
          order |-> <<>>, res |-> NoResources]

WorkerType == [pc : {"idle", "start", "cancelJob", "cancelProject", "prepare",
                     "savePlan", "setProject", "look", "trigger",
                     "failProject", "failJob", "release"},
               order : OrderSet, res : ResourceType]
IdleWorker == [pc |-> "idle", order |-> <<>>, res |-> NoResources]

\* todo: what a loop has left; next: its position in the order of services;
\* queued: a start was queued; done: nothing was left to clean up.
CoordType == [pc : {"idle", "look", "trigger", "checkBuilds", "saveCreating",
                    "volumes", "saveVolume", "containers", "saveContainer",
                    "saveGraph", "starting", "saveStarted", "finishJob",
                    "cancelBuilds", "cascade", "cascadeMark", "failProject",
                    "cancel", "saveRollback", "cleanup", "deleteContainers",
                    "deleteVolumes", "release"},
              res : ResourceType, todo : SUBSET (Services \cup VolumeNames),
              next : Nat, queued : BOOLEAN, done : BOOLEAN]
IdleCoord == [pc |-> "idle", res |-> NoResources, todo |-> {}, next |-> 1,
              queued |-> FALSE, done |-> TRUE]

RowStatuses == {"none", "creating", "created", "starting", "running", "exited",
                "broken", "deleting", "error"}
VolumeStatuses == {"none", "creating", "available", "deleting", "error"}
BuildStatuses == {"none", "running", "success", "failed", "canceled"}
Callers == Services \cup {"user"}

\* What the parser makes of the file is the same whenever it is read.
PlanTable == [i \in DOMAIN Files |->
                 [o \in Orders(Files[i]) \cup {<<>>} |-> PlanOf(Files[i], o)]]
Plan == PlanTable[file][job.order]

Terminal == {"succeeded", "failed", "canceled"}
Active == job.status \in {"queued", "running", "canceling"}
\* UpdateProgress and the coordinator's list look at these jobs.
Underway == job.status \in {"running", "canceling"}
Cancelable == {"building", "deploying", "canceling"}

Fault(point) ==
    /\ point \in FaultPoints
    /\ faults < MaxFaults[file]
    /\ faults' = faults + 1

Init ==
    /\ file \in DOMAIN Files
    /\ request = "idle"
    /\ project = "none"
    /\ job = NoJob
    /\ source = "none"
    /\ outbox = "none" /\ queue = 0 /\ publisher = "idle"
    /\ workers = [w \in Workers |-> IdleWorker]
    /\ coord = IdleCoord
    /\ callers = [c \in Callers |-> "idle"]
    /\ rows = [s \in Services |-> "none"]
    /\ engine = [s \in Services |-> "none"]
    /\ vols = [v \in VolumeNames |-> IF v \in Available THEN "available" ELSE "none"]
    /\ linked = {}
    /\ builds = [s \in Services |-> "none"]
    /\ faults = 0

-----------------------------------------------------------------------------
(* The request *)

\* The source is reserved and uploaded; the reservation knows its real size.
StageSource ==
    /\ request = "idle"
    /\ request' = "staged"
    /\ source' = "kept"
    /\ UNCHANGED <<file, project, job, delivery, workers, coord, callers,
                   resources, faults>>

Deployable == [i \in DOMAIN Files |->
                  Accepted(Files[i], Forbidden) /\ Named(Files[i]) # {}]

\* The file is parsed; project, job and outbox row are one transaction.
QueueJob ==
    /\ request = "staged"
    /\ Deployable[file]
    /\ request' = "queued"
    /\ project' = "building"
    /\ job' = [NoJob EXCEPT !.status = "queued"]
    /\ outbox' = "pending"
    /\ UNCHANGED <<file, source, queue, publisher, workers, coord, callers,
                   resources, faults>>

\* Any refusal deletes the source.
RejectRequest ==
    /\ request = "staged"
    /\ \/ /\ ~Deployable[file]
          /\ UNCHANGED faults
       \/ Fault("create")
    /\ request' = "rejected"
    /\ source' = "released"
    /\ UNCHANGED <<file, project, job, delivery, workers, coord, callers,
                   resources>>

\* GC: a stale source of no active job; the threshold outlasts a request.
ReleaseStaleSource ==
    /\ source = "kept" /\ request # "staged" /\ ~Active
    /\ source' = "released"
    /\ UNCHANGED <<file, request, project, job, delivery, workers, coord,
                   callers, resources, faults>>

-----------------------------------------------------------------------------
(* The outbox worker *)

Lease ==
    /\ publisher = "idle" /\ outbox \in {"pending", "publishing"}
    /\ publisher' = "leased"
    /\ outbox' = "publishing"
    /\ UNCHANGED <<file, request, project, job, source, queue, workers,
                   coord, callers, resources, faults>>

Publish ==
    /\ publisher = "leased"
    /\ \/ /\ job.status \in Terminal
          /\ outbox' = "discarded" /\ publisher' = "idle"
          /\ UNCHANGED <<queue, faults>>
       \/ /\ job.status \notin Terminal /\ queue < MaxCopies
          /\ queue' = queue + 1 /\ publisher' = "mark"
          /\ UNCHANGED <<outbox, faults>>
       \/ /\ Fault("publish")
          /\ outbox' = "pending" /\ publisher' = "idle"
          /\ UNCHANGED queue
    /\ UNCHANGED <<file, request, project, job, source, workers, coord,
                   callers, resources>>

\* When the mark fails the lease runs out and the message is sent again.
MarkPublished ==
    /\ publisher = "mark"
    /\ publisher' = "idle"
    /\ \/ outbox' = "published" /\ UNCHANGED faults
       \/ UNCHANGED outbox /\ Fault("confirm")
    /\ UNCHANGED <<file, request, project, job, source, queue, workers,
                   coord, callers, resources>>

-----------------------------------------------------------------------------
(* The handlers of the message *)

Goto(w, pc) == workers' = [workers EXCEPT ![w].pc = pc]
Finish(w) == workers' = [workers EXCEPT ![w] = IdleWorker]
Canceling == job.cancel \/ job.status = "canceling"

Receive(w) ==
    /\ workers[w].pc = "idle" /\ queue > 0
    /\ queue' = queue - 1
    /\ \/ Canceling /\ Goto(w, "cancelJob")
       \/ ~Canceling /\ job.status = "queued" /\ Goto(w, "start")
       \/ ~Canceling /\ job.status # "queued" /\ UNCHANGED workers
    /\ UNCHANGED <<file, request, project, job, source, outbox, publisher,
                   coord, callers, resources, faults>>

Missing(res) == Built(Plan) \ res.builds
Existing == {s \in Services : builds[s] # "none"}

\* An error that is not permanent puts the message back.
HandlerFails(w) ==
    /\ \/ workers[w].pc \in {"start", "savePlan", "setProject"}
       \/ workers[w].pc = "trigger" /\ Missing(workers[w].res) = {}
    /\ Fault("handler")
    /\ Finish(w)
    /\ queue' = queue + 1
    /\ UNCHANGED <<file, request, project, job, source, outbox, publisher,
                   coord, callers, resources>>

StartJob(w) ==
    /\ workers[w].pc = "start"
    /\ \/ /\ job.status = "queued" /\ ~job.cancel
          /\ job' = [job EXCEPT !.status = "running", !.attempts = @ + 1]
          /\ Goto(w, "prepare")
       \/ /\ job.status # "queued" \/ job.cancel
          /\ UNCHANGED job
          /\ IF Canceling THEN Goto(w, "cancelJob") ELSE Finish(w)
    /\ UNCHANGED <<file, request, project, source, delivery, coord, callers,
                   resources, faults>>

\* The errors of four writes are ignored: the handler goes on without them.
IgnoringError(write, without) ==
    \/ write /\ UNCHANGED faults
    \/ without /\ Fault("ignored")

\* A job canceled before it was prepared, or by a late message.
CancelJob(w) ==
    /\ workers[w].pc = "cancelJob"
    /\ IgnoringError(job' = [job EXCEPT !.status = "canceled"], UNCHANGED job)
    /\ Goto(w, "cancelProject")
    /\ UNCHANGED <<file, request, project, source, delivery, coord, callers,
                   resources>>

CancelProject(w) ==
    /\ workers[w].pc = "cancelProject"
    /\ IgnoringError(project' = "canceled", UNCHANGED project)
    /\ Goto(w, "release")
    /\ UNCHANGED <<file, request, job, source, delivery, coord, callers,
                   resources>>

\* The source is read and parsed again.
Prepare(w) ==
    /\ workers[w].pc = "prepare"
    /\ \/ /\ source = "kept"
          /\ \E order \in Orders(File) :
                 workers' = [workers EXCEPT ![w] = [pc |-> "savePlan", order |-> order,
                                                    res |-> NoResources]]
          /\ UNCHANGED faults
       \/ /\ \/ source # "kept" /\ UNCHANGED faults
             \/ Fault("prepare")
          /\ Goto(w, "failProject")
    /\ UNCHANGED <<file, request, project, job, source, delivery, coord,
                   callers, resources>>

\* Not found, when the job no longer runs, drops the message.
SavePlan(w) ==
    /\ workers[w].pc = "savePlan"
    /\ \/ /\ job.status = "running"
          /\ job' = [job EXCEPT
                 !.stage = IF RequiresBuild(Plan) THEN "building"
                                                            ELSE "creating",
                 !.order = workers[w].order, !.res = NoResources]
          /\ Goto(w, "setProject")
       \/ /\ job.status # "running"
          /\ Finish(w)
          /\ UNCHANGED job
    /\ UNCHANGED <<file, request, project, source, delivery, coord, callers,
                   resources, faults>>

SetProject(w) ==
    LET build == RequiresBuild(Plan) IN
    /\ workers[w].pc = "setProject"
    /\ project' = IF build THEN "building" ELSE "deploying"
    /\ Goto(w, IF build THEN "look" ELSE "release")
    /\ UNCHANGED <<file, request, job, source, delivery, coord, callers,
                   resources, faults>>

\* Mutant: the source is given up before the builds are triggered.
GivesUpSource(w) ==
    /\ workers[w].pc = "look"
    /\ workers' = [workers EXCEPT ![w].pc = "trigger",
                                  ![w].res.builds = @ \cup Existing]
    /\ source' = "released"
    /\ UNCHANGED <<file, request, project, job, delivery, coord, callers,
                   resources, faults>>

LookForBuilds(w) ==
    /\ workers[w].pc = "look"
    /\ workers' = [workers EXCEPT ![w].pc = "trigger",
                                  ![w].res.builds = @ \cup Existing]
    /\ UNCHANGED <<file, request, project, job, source, delivery, coord,
                   callers, resources, faults>>

\* TriggerBuild copies the source; a service has one active build.
Trigger(s) ==
    /\ source = "kept" /\ builds[s] = "none"
    /\ builds' = [builds EXCEPT ![s] = "running"]

TriggerBuilds(w) ==
    /\ workers[w].pc = "trigger"
    /\ \E s \in Missing(workers[w].res) :
           \/ /\ Trigger(s)
              /\ workers' = [workers EXCEPT ![w].res.builds = @ \cup {s}]
              /\ UNCHANGED faults
           \/ /\ \/ ~(source = "kept" /\ builds[s] = "none") /\ UNCHANGED faults
                 \/ Fault("trigger")
              /\ Goto(w, "failProject")
              /\ UNCHANGED builds
    /\ UNCHANGED <<file, request, project, job, source, delivery, coord,
                   callers, containers, vols, linked>>

\* The progress of the handler is written over the coordinator's.
WriteBuilds(w) ==
    /\ workers[w].pc = "trigger" /\ Missing(workers[w].res) = {}
    /\ \/ /\ Underway
          /\ job' = [job EXCEPT !.stage = "building", !.res = workers[w].res]
          /\ project' = "building"
          /\ Goto(w, "release")
       \/ ~Underway /\ Finish(w) /\ UNCHANGED <<job, project>>
    /\ UNCHANGED <<file, request, source, delivery, coord, callers,
                   resources, faults>>

\* failDeploymentJob overwrites whatever the job has become.
FailProject(w) ==
    /\ workers[w].pc = "failProject"
    /\ IgnoringError(project' = "failed", UNCHANGED project)
    /\ Goto(w, "failJob")
    /\ UNCHANGED <<file, request, job, source, delivery, coord, callers,
                   resources>>

FailJob(w) ==
    /\ workers[w].pc = "failJob"
    /\ IgnoringError(job' = [job EXCEPT !.status = "failed"], UNCHANGED job)
    /\ Goto(w, "release")
    /\ UNCHANGED <<file, request, project, source, delivery, coord, callers,
                   resources>>

HandlerReleases(w) ==
    /\ workers[w].pc = "release"
    /\ source' = "released"
    /\ Finish(w)
    /\ UNCHANGED <<file, request, project, job, delivery, coord, callers,
                   resources, faults>>

-----------------------------------------------------------------------------
(* Cancellation: of the user, and of a build that failed or was canceled *)

\* Bound: the user asks once.
Heard(c) == IF c = "user" THEN "done" ELSE "idle"

AskCancel(c) ==
    /\ callers[c] = (IF c = "user" THEN "idle" ELSE "read")
    /\ callers' = [callers EXCEPT ![c] = IF project \in Cancelable THEN "write" ELSE "idle"]
    /\ c = "user" => project \in Cancelable /\ file \in Canceled
    /\ UNCHANGED <<file, request, project, job, source, delivery, workers,
                   coord, resources, faults>>

WriteCanceling(c) ==
    /\ callers[c] = "write"
    /\ project' = "canceling"
    /\ callers' = [callers EXCEPT ![c] = "mark"]
    /\ UNCHANGED <<file, request, job, source, delivery, workers, coord,
                   resources, faults>>

\* Mutant: a job that ended is canceled all the same.
CancelsEnded == job' = [job EXCEPT !.cancel = TRUE, !.status = "canceling"]

\* RequestComposeDeploymentCancel: a job that ended is left alone.
MarkCanceled == job' = IF Active THEN [job EXCEPT !.cancel = TRUE, !.status = "canceling"]
                       ELSE job

RequestCancel(c) ==
    /\ callers[c] = "mark"
    /\ MarkCanceled
    /\ callers' = [callers EXCEPT ![c] = Heard(c)]
    /\ UNCHANGED <<file, request, project, source, delivery, workers, coord,
                   resources, faults>>

-----------------------------------------------------------------------------
(* The coordinator: what a tick finds *)

At(pc) == coord.pc = pc
Become(pc) == coord' = [coord EXCEPT !.pc = pc]
Rest == coord' = IdleCoord
NoWork == <<file, request, source, delivery, workers, callers>>

\* Jobs that are running or canceling and have a stage are looked at.
Tick ==
    LET branch == IF Canceling THEN "cancel" ELSE
                  CASE job.stage = "building" -> "look"
                    [] job.stage = "creating" -> "volumes"
                    [] job.stage = "starting" -> "starting"
                    [] OTHER -> "cleanup" IN
    /\ At("idle") /\ Underway /\ job.stage # ""
    /\ coord' = [IdleCoord EXCEPT !.pc = branch, !.res = job.res]
    /\ UNCHANGED <<NoWork, project, job, resources, faults>>

\* UpdateComposeDeploymentProgress: job and project in one transaction.
Save(stage, status, res) ==
    /\ job' = [job EXCEPT !.stage = stage, !.res = res]
    /\ project' = status

\* saveProgress from one point to the next; a job that ended is not found.
Saving(stage, status, next) ==
    /\ \/ /\ Underway
          /\ Save(stage, status, coord.res)
          /\ IF next = "idle" THEN Rest ELSE Become(next)
       \/ ~Underway /\ Rest /\ UNCHANGED <<job, project>>
    /\ UNCHANGED <<NoWork, resources, faults>>

\* A write of the coordinator fails: it comes back in a later tick.
CoordinatorFails ==
    /\ coord.pc \in {"trigger", "saveCreating", "saveVolume", "saveContainer",
                     "saveStarted", "failProject", "saveRollback", "cleanup",
                     "deleteVolumes"}
    /\ Fault("coordinator")
    /\ Rest
    /\ UNCHANGED <<NoWork, project, job, resources>>

-----------------------------------------------------------------------------
(* Stage building *)

CoordLooks ==
    /\ At("look")
    /\ coord' = [coord EXCEPT !.pc = "trigger", !.res.builds = @ \cup Existing]
    /\ UNCHANGED <<NoWork, project, job, resources, faults>>

CoordTriggers ==
    /\ At("trigger")
    /\ \E s \in Missing(coord.res) :
           \/ /\ Trigger(s)
              /\ coord' = [coord EXCEPT !.res.builds = @ \cup {s}]
              /\ UNCHANGED faults
           \/ /\ \/ ~(source = "kept" /\ builds[s] = "none") /\ UNCHANGED faults
                 \/ Fault("trigger")
              /\ Become("cancelBuilds")
              /\ UNCHANGED builds
    /\ UNCHANGED <<NoWork, project, job, containers, vols, linked>>

SaveBuilding ==
    /\ At("trigger") /\ Missing(coord.res) = {}
    /\ Saving("building", "building", "checkBuilds")

\* Builds are looked at in no particular order until one decides.
CheckBuilds ==
    LET Some(status) == \E s \in coord.res.builds : builds[s] = status IN
    /\ At("checkBuilds")
    /\ \/ Some("canceled") /\ Become("cancel") /\ UNCHANGED source
       \/ Some("failed") /\ Become("cancelBuilds") /\ UNCHANGED source
       \/ /\ \A s \in coord.res.builds : builds[s] = "running" \/ builds[s] = "success"
          /\ Some("running")
          /\ Rest /\ UNCHANGED source
       \/ /\ \A s \in coord.res.builds : builds[s] = "success"
          /\ source' = "released"
          /\ Become("saveCreating")
    /\ UNCHANGED <<file, request, delivery, workers, callers, project, job,
                   resources, faults>>

SaveCreating == At("saveCreating") /\ Saving("creating", "deploying", "idle")

-----------------------------------------------------------------------------
(* Stage creating *)

\* An external volume must be available.  A managed one is created, found
\* while its creation is under way, or reused: only then it is not its own.
ResolveVolume(v) ==
    LET own == v \notin Plan.external IN
    /\ At("volumes") /\ v \in Plan.volumes \ coord.res.volumes
    /\ \/ /\ vols[v] = "none" /\ own
          /\ vols' = [vols EXCEPT ![v] = "creating"]
          /\ linked' = linked \cup {v}
          /\ coord' = [coord EXCEPT !.pc = "saveVolume", !.res.volumes = @ \cup {v},
                                    !.res.created = @ \cup {v}]
          /\ UNCHANGED faults
       \/ /\ vols[v] = "creating" /\ own /\ v \in linked
          /\ coord' = [coord EXCEPT !.pc = "saveVolume", !.res.volumes = @ \cup {v},
                                    !.res.created = @ \cup {v}]
          /\ UNCHANGED <<vols, linked, faults>>
       \/ /\ vols[v] = "available"
          /\ linked' = IF own THEN linked \cup {v} ELSE linked
          /\ coord' = [coord EXCEPT !.pc = "saveVolume", !.res.volumes = @ \cup {v}]
          /\ UNCHANGED <<vols, faults>>
       \/ /\ \/ vols[v] \in {"deleting", "error"} /\ UNCHANGED faults
             \/ vols[v] = "none" /\ ~own /\ UNCHANGED faults
             \/ vols[v] = "creating" /\ ~(own /\ v \in linked) /\ UNCHANGED faults
             \/ Fault("admission")
          /\ Become("cancelBuilds")
          /\ UNCHANGED <<vols, linked>>
    /\ UNCHANGED <<NoWork, project, job, containers, builds>>

SaveVolume == At("saveVolume") /\ Saving("creating", "deploying", "volumes")

\* The volumes it created become available before any container is created.
WaitForVolumes ==
    LET created == coord.res.created IN
    /\ At("volumes") /\ Plan.volumes \subseteq coord.res.volumes
    /\ \/ /\ \A v \in created : vols[v] = "available"
          /\ coord' = [coord EXCEPT !.pc = "containers",
                           !.res.containers = @ \cup {s \in Named(File) : rows[s] # "none"}]
       \/ (\E v \in created : vols[v] \in {"none", "error"}) /\ Become("cancelBuilds")
       \/ (\E v \in created : vols[v] \in {"creating", "deleting"}) /\ Rest
    /\ UNCHANGED <<NoWork, project, job, resources, faults>>

\* The positions of the services that are not in a set; the first of some.
Left(S) == {i \in DOMAIN Plan.order : Plan.order[i] \notin S}
First(I) == {i \in I : \A j \in I : i <= j}

\* In the order of the services; a name that is taken is refused.
CreateContainer ==
    /\ At("containers")
    /\ \E i \in First(Left(coord.res.containers)) : LET s == Plan.order[i] IN
       \/ /\ rows[s] = "none"
          /\ rows' = [rows EXCEPT ![s] = "creating"]
          /\ coord' = [coord EXCEPT !.pc = "saveContainer",
                                    !.res.containers = @ \cup {s}]
          /\ UNCHANGED faults
       \/ /\ \/ rows[s] # "none" /\ UNCHANGED faults
             \/ Fault("admission")
          /\ Become("cancelBuilds")
          /\ UNCHANGED rows
    /\ UNCHANGED <<NoWork, project, job, engine, vols, linked, builds>>

SaveContainer == At("saveContainer") /\ Saving("creating", "deploying", "containers")

\* The graph replaces the rows of the project; it is saved once.
WaitForContainers ==
    LET Some(S) == \E s \in coord.res.containers : rows[s] \in S IN
    /\ At("containers") /\ Left(coord.res.containers) = {}
    /\ \/ Some({"none", "error"}) /\ Become("cancelBuilds")
       \/ Some({"creating", "starting", "deleting"}) /\ Rest
       \/ /\ ~Some({"none", "error", "creating", "starting", "deleting"})
          /\ coord' = IF GraphErrors(Plan, coord.res.containers)
                      THEN [coord EXCEPT !.pc = "cancelBuilds"]
                      ELSE [coord EXCEPT !.pc = "saveGraph", !.res.graph = TRUE]
    /\ UNCHANGED <<NoWork, project, job, resources, faults>>

\* Reaching the stage starting ends the tick of the stage creating.  Unlike
\* other writes, one that fails here fails the deployment.
WriteGraph ==
    /\ At("saveGraph")
    /\ \/ /\ Underway
          /\ Save("starting", "deploying", coord.res)
          /\ Rest
          /\ UNCHANGED faults
       \/ /\ \/ ~Underway /\ UNCHANGED faults
             \/ Fault("coordinator")
          /\ Become("cancelBuilds")
          /\ UNCHANGED <<job, project>>
    /\ UNCHANGED <<NoWork, resources>>

-----------------------------------------------------------------------------
(* Stage starting *)

\* How the dependencies of a service stand, as their containers are in Docker.
Verdicts(s, required) ==
    {Evaluate(engine[d.on], d.condition, Plan.services[d.on].check) :
     d \in {e \in Plan.services[s].needs :
            e.on \in coord.res.containers /\ (required => e.required)}}
DependencyFails(s) == "error" \in Verdicts(s, TRUE)

\* Mutant: a dependency that is not ready yet is not waited for.
NeverWaits(s) == FALSE

DependencyWaits(s) == "wait" \in Verdicts(s, FALSE)

\* The services this tick has not seen and that are not recorded as started.
Unseen == {i \in Left(coord.res.started) : i >= coord.next}

\* A service that runs or ended well is recorded, one that is on its way or
\* waits for a dependency ends the tick, the others are started in order.
StartService ==
    /\ At("starting")
    /\ \E i \in First(Unseen) : LET s == Plan.order[i] IN
       \/ /\ rows[s] \in {"running", "exited"}
          /\ coord' = [coord EXCEPT !.pc = "saveStarted", !.res.started = @ \cup {s}]
          /\ UNCHANGED <<rows, faults>>
       \/ /\ \/ rows[s] \in {"none", "broken", "error"} /\ UNCHANGED faults
             \/ rows[s] = "created" /\ DependencyFails(s) /\ UNCHANGED faults
             \/ rows[s] = "created" /\ Fault("admission")
          /\ Become("cancelBuilds")
          /\ UNCHANGED rows
       \/ /\ \/ rows[s] \in {"creating", "starting", "deleting"}
             \/ rows[s] = "created" /\ DependencyWaits(s)
          /\ Rest /\ UNCHANGED <<rows, faults>>
       \/ /\ rows[s] = "created" /\ ~DependencyFails(s) /\ ~DependencyWaits(s)
          /\ rows' = [rows EXCEPT ![s] = "starting"]
          /\ coord' = [coord EXCEPT !.next = i + 1, !.queued = TRUE]
          /\ UNCHANGED faults
    /\ UNCHANGED <<NoWork, project, job, engine, vols, linked, builds>>

SaveStarted == At("saveStarted") /\ Saving("starting", "deploying", "starting")

\* Mutant: a tick that queued a start ends the deployment.
EndsAfterStart ==
    /\ At("starting") /\ Unseen = {}
    /\ project' = "running" /\ Become("finishJob")
    /\ UNCHANGED <<NoWork, job, resources, faults>>

\* All services are recorded, unless a start was queued in this tick.
FinishProject ==
    /\ At("starting") /\ Unseen = {}
    /\ \/ coord.queued /\ Rest /\ UNCHANGED <<project, faults>>
       \/ ~coord.queued /\ project' = "running" /\ Become("finishJob") /\ UNCHANGED faults
       \/ /\ ~coord.queued /\ Fault("coordinator")
          /\ Become("cancelBuilds")
          /\ UNCHANGED project
    /\ UNCHANGED <<NoWork, job, resources>>

FinishJob ==
    /\ At("finishJob")
    /\ \/ job' = [job EXCEPT !.status = "succeeded"] /\ Become("release") /\ UNCHANGED faults
       \/ UNCHANGED job /\ Become("cancelBuilds") /\ Fault("coordinator")
    /\ UNCHANGED <<NoWork, project, resources>>

CoordReleases ==
    /\ At("release")
    /\ source' = "released"
    /\ Rest
    /\ UNCHANGED <<file, request, delivery, workers, callers, project, job,
                   resources, faults>>

-----------------------------------------------------------------------------
(* Failure, cancellation and rollback *)

\* failJob cancels the builds that are not over; each cancels the deployment
\* they belong to, which makes a failure a cancellation.
CancelBuilds ==
    LET open == {s \in coord.res.builds : builds[s] = "running"} IN
    /\ At("cancelBuilds")
    /\ \/ open = {} /\ Become("failProject") /\ UNCHANGED builds
       \/ \E s \in open :
              /\ builds' = [builds EXCEPT ![s] = "canceled"]
              /\ Become("cascade")
    /\ UNCHANGED <<NoWork, project, job, containers, vols, linked, faults>>

Cascade ==
    /\ At("cascade")
    /\ IF project \in Cancelable
       THEN project' = "canceling" /\ Become("cascadeMark")
       ELSE UNCHANGED project /\ Become("cancelBuilds")
    /\ UNCHANGED <<NoWork, job, resources, faults>>

CascadeMark ==
    /\ At("cascadeMark")
    /\ MarkCanceled
    /\ Become("cancelBuilds")
    /\ UNCHANGED <<NoWork, project, resources, faults>>

CoordFailsProject ==
    /\ At("failProject")
    /\ project' = "failed"
    /\ coord' = [coord EXCEPT !.pc = "saveRollback", !.res.cleanup = "failed"]
    /\ UNCHANGED <<NoWork, job, resources, faults>>

\* cancelJob
CoordCancels ==
    /\ At("cancel")
    /\ source' = "released"
    /\ coord' = [coord EXCEPT !.pc = "saveRollback", !.res.cleanup = "canceled"]
    /\ UNCHANGED <<file, request, delivery, workers, callers, project, job,
                   resources, faults>>

Outcome == IF coord.res.cleanup = "canceled" THEN "canceled" ELSE "failed"

SaveRollback == At("saveRollback") /\ Saving("rolling_back", Outcome, "cleanup")

BeginCleanup ==
    /\ At("cleanup")
    /\ project' = Outcome
    /\ coord' = [coord EXCEPT !.pc = "deleteContainers", !.done = TRUE,
                              !.res.cleanup = Outcome, !.todo = coord.res.containers]
    /\ UNCHANGED <<NoWork, job, resources, faults>>

\* Mutant: a container that is busy counts as cleaned up.
SkipsBusy ==
    /\ At("deleteContainers")
    /\ \E s \in coord.todo :
           /\ coord' = [coord EXCEPT !.todo = @ \ {s},
                            !.done = @ /\ rows[s] \in {"none", "starting", "deleting"}]
           /\ rows' = [rows EXCEPT ![s] = CASE @ = "creating" -> "none"
                                            [] @ \in {"none", "starting", "deleting"} -> @
                                            [] OTHER -> "deleting"]
    /\ UNCHANGED <<NoWork, project, job, engine, vols, linked, builds, faults>>

\* Mutant: a container in state error cannot be deleted.
SkipsFailed ==
    /\ At("deleteContainers")
    /\ \E s \in coord.todo :
           /\ coord' = [coord EXCEPT !.todo = @ \ {s}, !.done = @ /\ rows[s] = "none"]
           /\ rows' = [rows EXCEPT ![s] = CASE @ = "creating" -> "none"
                                            [] @ \in {"none", "starting", "deleting", "error"} -> @
                                            [] OTHER -> "deleting"]
    /\ UNCHANGED <<NoWork, project, job, engine, vols, linked, builds, faults>>

\* A creation that did not reach Docker is canceled with its row; an active
\* operation is a conflict and waits for the next tick.
DeleteContainers ==
    /\ At("deleteContainers")
    /\ \E s \in coord.todo :
           /\ coord' = [coord EXCEPT !.todo = @ \ {s}, !.done = @ /\ rows[s] = "none"]
           /\ rows' = [rows EXCEPT ![s] = CASE @ = "creating" -> "none"
                                            [] @ \in {"none", "starting", "deleting"} -> @
                                            [] OTHER -> "deleting"]
    /\ UNCHANGED <<NoWork, project, job, engine, vols, linked, builds, faults>>

BeginVolumes ==
    /\ At("deleteContainers") /\ coord.todo = {}
    /\ coord' = [coord EXCEPT !.pc = "deleteVolumes",
                              !.todo = coord.res.volumes \ Plan.external]
    /\ UNCHANGED <<NoWork, project, job, resources, faults>>

InUse(v) == \E s \in DOMAIN Plan.services : rows[s] # "none" /\ v \in Plan.services[s].mounts

\* A volume it did not create is only unlinked; a used one ends the tick.
DeleteVolumes ==
    /\ At("deleteVolumes")
    /\ \E v \in coord.todo :
           \/ /\ v \in coord.res.created /\ ~(vols[v] # "none" /\ InUse(v))
              /\ vols' = [vols EXCEPT ![v] = IF @ \in {"none", "creating", "deleting"}
                                             THEN @ ELSE "deleting"]
              /\ coord' = [coord EXCEPT !.todo = @ \ {v}, !.done = @ /\ vols[v] = "none"]
              /\ UNCHANGED linked
           \/ /\ v \in coord.res.created /\ vols[v] # "none" /\ InUse(v)
              /\ Rest /\ UNCHANGED <<vols, linked>>
           \/ /\ v \notin coord.res.created
              /\ linked' = linked \ {v}
              /\ coord' = [coord EXCEPT !.todo = @ \ {v}]
              /\ UNCHANGED vols
    /\ UNCHANGED <<NoWork, project, job, containers, builds, faults>>

Cleaned(done) == At("deleteVolumes") /\ coord.todo = {} /\ coord.done = done

SaveCleanup == Cleaned(FALSE) /\ Saving("rolling_back", Outcome, "idle")

CompleteJob ==
    /\ Cleaned(TRUE)
    /\ job' = [job EXCEPT !.status = coord.res.cleanup]
    /\ Become("release")
    /\ UNCHANGED <<NoWork, project, resources, faults>>

-----------------------------------------------------------------------------
(* What the resources do, as their modules specify *)

Elsewhere == <<file, request, project, job, source, delivery, workers,
               coord>>

CreationEnds(s) ==
    /\ rows[s] = "creating"
    /\ \/ /\ rows' = [rows EXCEPT ![s] = "created"]
          /\ engine' = [engine EXCEPT ![s] = "created"]
          /\ UNCHANGED faults
       \/ rows' = [rows EXCEPT ![s] = "error"] /\ UNCHANGED engine /\ Fault("docker")
    /\ UNCHANGED <<Elsewhere, callers, vols, linked, builds>>

StartEnds(s) ==
    /\ rows[s] = "starting"
    /\ \/ /\ rows' = [rows EXCEPT ![s] = "running"]
          /\ engine' = [engine EXCEPT ![s] = "running"]
          /\ UNCHANGED faults
       \/ rows' = [rows EXCEPT ![s] = "error"] /\ UNCHANGED engine /\ Fault("docker")
    /\ UNCHANGED <<Elsewhere, callers, vols, linked, builds>>

DeletionEnds(s) ==
    /\ rows[s] = "deleting"
    /\ \/ /\ rows' = [rows EXCEPT ![s] = "none"]
          /\ engine' = [engine EXCEPT ![s] = "none"]
          /\ UNCHANGED faults
       \/ rows' = [rows EXCEPT ![s] = "error"] /\ UNCHANGED engine /\ Fault("docker")
    /\ UNCHANGED <<Elsewhere, callers, vols, linked, builds>>

Up == {"running", "healthy", "unhealthy"}

Completes(s) ==
    /\ s \in OneShots /\ engine[s] \in Up
    /\ engine' = [engine EXCEPT ![s] = "exited"]
    /\ UNCHANGED <<Elsewhere, callers, rows, vols, linked, builds, faults>>

Breaks(s) ==
    /\ engine[s] \in Up
    /\ Fault("docker")
    /\ engine' = [engine EXCEPT ![s] = "broken"]
    /\ UNCHANGED <<Elsewhere, callers, rows, vols, linked, builds>>

GetsHealthy(s) ==
    /\ engine[s] \in {"running", "unhealthy"} /\ File.services[s].check
    /\ engine' = [engine EXCEPT ![s] = "healthy"]
    /\ UNCHANGED <<Elsewhere, callers, rows, vols, linked, builds, faults>>

TurnsUnhealthy(s) ==
    /\ engine[s] \in {"running", "healthy"} /\ File.services[s].check
    /\ Fault("docker")
    /\ engine' = [engine EXCEPT ![s] = "unhealthy"]
    /\ UNCHANGED <<Elsewhere, callers, rows, vols, linked, builds>>

\* Mutant: what Docker says of the health is recorded as the status.
FollowsHealth(s) ==
    /\ rows[s] = "running" /\ engine[s] \in {"healthy", "exited", "broken"}
    /\ rows' = [rows EXCEPT ![s] = engine[s]]
    /\ UNCHANGED <<Elsewhere, callers, engine, vols, linked, builds, faults>>

\* The event worker records how a container ended.
Follow(s) ==
    /\ rows[s] = "running" /\ engine[s] \in {"exited", "broken"}
    /\ rows' = [rows EXCEPT ![s] = engine[s]]
    /\ UNCHANGED <<Elsewhere, callers, engine, vols, linked, builds, faults>>

VolumeEnds(v) ==
    /\ vols[v] \in {"creating", "deleting"}
    /\ \/ vols' = [vols EXCEPT ![v] = IF @ = "creating" THEN "available" ELSE "none"]
          /\ UNCHANGED faults
       \/ vols' = [vols EXCEPT ![v] = "error"] /\ Fault("docker")
    /\ linked' = IF vols'[v] = "none" THEN linked \ {v} ELSE linked
    /\ UNCHANGED <<Elsewhere, callers, containers, builds>>

\* A build that does not succeed cancels its deployment.
BuildEnds(s) ==
    /\ builds[s] = "running"
    /\ \/ /\ builds' = [builds EXCEPT ![s] = "success"]
          /\ UNCHANGED callers
       \/ /\ \E end \in {"failed", "canceled"} : builds' = [builds EXCEPT ![s] = end]
          /\ callers' = [callers EXCEPT ![s] = "read"]
    /\ UNCHANGED <<Elsewhere, containers, vols, linked, faults>>

-----------------------------------------------------------------------------
(* Restart of Core *)

\* Mutant: a job is queued again without its message.
QueuedWithoutMessage ==
    IF ~(Underway /\ job.stage = "")
    THEN UNCHANGED <<job, project, outbox>>
    ELSE /\ job' = [job EXCEPT !.status = IF job.attempts >= MaxAttempts
                                          THEN "failed" ELSE "queued"]
         /\ project' = IF job.attempts >= MaxAttempts THEN "failed" ELSE "building"
         /\ UNCHANGED outbox

\* RecoverInterruptedComposeDeployments: a job that has no plan yet is queued
\* again, also one that is being canceled, unless its attempts are used up.
Recovered ==
    IF ~(Underway /\ job.stage = "")
    THEN UNCHANGED <<job, project, outbox>>
    ELSE IF job.attempts >= MaxAttempts \/ Existing # {} \/ linked # {}
            \/ \E s \in Services : rows[s] # "none"
    THEN /\ job' = [job EXCEPT !.status = "failed"]
         /\ project' = "failed"
         /\ UNCHANGED outbox
    ELSE /\ job' = [job EXCEPT !.status = "queued"]
         /\ project' = "building"
         /\ outbox' = "pending"

\* Memory is lost, messages that were not acknowledged come back.  The cleanup of
\* interrupted deployments finds nothing: a job without a plan has no resources.
Crash ==
    LET held == Cardinality({w \in Workers : workers[w].pc # "idle"}) IN
    /\ Fault("crash")
    /\ publisher' = "idle"
    /\ workers' = [w \in Workers |-> IdleWorker]
    /\ coord' = IdleCoord
    /\ callers' = [c \in Callers |-> IF callers[c] = "idle" THEN "idle" ELSE Heard(c)]
    /\ queue' = queue + held
    /\ request' = IF request = "staged" THEN "rejected" ELSE request
    /\ Recovered
    /\ UNCHANGED <<file, source, resources>>

-----------------------------------------------------------------------------
(* The system *)

PublisherStep == Lease \/ Publish \/ MarkPublished

HandlerStep(w) ==
    \/ Receive(w) \/ StartJob(w) \/ CancelJob(w) \/ CancelProject(w)
    \/ Prepare(w) \/ SavePlan(w) \/ SetProject(w) \/ LookForBuilds(w)
    \/ TriggerBuilds(w) \/ WriteBuilds(w) \/ FailProject(w) \/ FailJob(w)
    \/ HandlerReleases(w)

BuildingStep == CoordLooks \/ CoordTriggers \/ SaveBuilding \/ CheckBuilds \/ SaveCreating
CreatingStep ==
    \/ \E v \in VolumeNames : ResolveVolume(v)
    \/ SaveVolume \/ WaitForVolumes \/ CreateContainer \/ SaveContainer
    \/ WaitForContainers \/ WriteGraph
StartingStep == StartService \/ SaveStarted \/ FinishProject \/ FinishJob
FailureStep == CancelBuilds \/ Cascade \/ CascadeMark \/ CoordFailsProject \/ CoordCancels
RollbackStep ==
    \/ SaveRollback \/ BeginCleanup \/ DeleteContainers \/ BeginVolumes
    \/ DeleteVolumes \/ SaveCleanup \/ CompleteJob
CoordinatorStep ==
    \/ Tick \/ BuildingStep \/ CreatingStep \/ StartingStep \/ FailureStep
    \/ RollbackStep \/ CoordReleases

CallerStep(c) == WriteCanceling(c) \/ RequestCancel(c)

ContainerStep(s) ==
    CreationEnds(s) \/ StartEnds(s) \/ DeletionEnds(s) \/ Completes(s) \/ Follow(s)

Next ==
    \/ StageSource \/ QueueJob \/ RejectRequest \/ ReleaseStaleSource
    \/ PublisherStep
    \/ \E w \in Workers : HandlerStep(w) \/ HandlerFails(w)
    \/ CoordinatorStep \/ CoordinatorFails
    \/ \E c \in Callers : AskCancel(c) \/ CallerStep(c)
    \/ \E s \in Services : ContainerStep(s) \/ Breaks(s) \/ GetsHealthy(s) \/ TurnsUnhealthy(s) \/ BuildEnds(s)
    \/ \E v \in VolumeNames : VolumeEnds(v)
    \/ Crash

Spec == Init /\ [][Next]_vars

\* The processes of Core run; accepted operations, builds and one-shot
\* processes end.  A user need not act and a service need not become healthy.
FairSpec ==
    /\ Spec
    /\ WF_vars(QueueJob \/ RejectRequest)
    /\ WF_vars(PublisherStep)
    /\ \A w \in Workers : WF_vars(HandlerStep(w))
    /\ WF_vars(CoordinatorStep)
    /\ \A c \in Callers : WF_vars(CallerStep(c)) /\ WF_vars(c # "user" /\ AskCancel(c))
    /\ \A s \in Services : WF_vars(ContainerStep(s)) /\ WF_vars(BuildEnds(s))
    /\ \A v \in VolumeNames : WF_vars(VolumeEnds(v))

-----------------------------------------------------------------------------
(* Properties *)

TypeOK ==
    /\ file \in DOMAIN Files
    /\ request \in {"idle", "staged", "queued", "rejected"}
    /\ project \in ProjectStatuses
    /\ job \in JobType
    /\ source \in {"none", "kept", "released"}
    /\ outbox \in {"none", "pending", "publishing", "published", "discarded"}
    /\ queue \in Nat /\ publisher \in {"idle", "leased", "mark"}
    /\ workers \in [Workers -> WorkerType]
    /\ coord \in CoordType
    /\ callers \in [Callers -> {"idle", "read", "write", "mark", "done"}]
    /\ rows \in [Services -> RowStatuses]
    /\ engine \in [Services -> EngineStates]
    /\ vols \in [VolumeNames -> VolumeStatuses]
    /\ linked \subseteq VolumeNames
    /\ builds \in [Services -> BuildStatuses]
    /\ faults \in 0..MaxFaults[file]

\* A handler could not write that a job is canceled, and went on without: the
\* job's source is given up and its message acknowledged.
Abandoned ==
    /\ job.cancel
    /\ source = "released" \/ \E w \in Workers : workers[w].pc \in {"cancelProject", "release"}

\* A queued job is on its way to a handler: its message is to be published, is
\* in the queue or is being handled.  LeasePendingComposeOutbox, the consumer
\* and RecoverInterruptedComposeDeployments.  The only job that is left behind
\* is one to be canceled of which the handler ignored that it could not be.
QueuedJobIsCarried ==
    job.status = "queued" =>
        \/ outbox \in {"pending", "publishing"}
        \/ queue > 0
        \/ \E w \in Workers : workers[w].pc \in {"start", "cancelJob"}
        \/ Abandoned

\* A job that runs in the stage building can get every build it lacks: its
\* source is kept until all its builds exist, whoever triggers them and however
\* handler and coordinator overwrite each other.
BuildsHaveSource ==
    job.status = "running" /\ job.stage = "building" =>
        source = "kept" \/ Built(Plan) \subseteq Existing

\* The coordinator ends a rollback only when everything the job had recorded is
\* gone: its containers and the volumes it created.  cleanupJob, tick by tick.
RollbackEndsClean ==
    [][CompleteJob =>
        /\ \A s \in coord.res.containers : rows[s] = "none"
        /\ \A v \in coord.res.created : vols[v] = "none"]_vars

\* A job that ended stays ended, whatever late messages, late handlers and
\* late cancellations do to it.
EndedStaysEnded ==
    [][job.status \in Terminal => job'.status \in Terminal]_vars

\* A container is created only after the images of all services were built and
\* the volumes it mounts were there; during a deployment it is started only
\* after its required dependencies had reached their condition.
Reached(state, condition) ==
    CASE condition = "service_started" -> state \notin {"none", "created"}
      [] condition = "service_healthy" -> state \in {"healthy", "unhealthy", "exited", "broken"}
      [] OTHER -> state = "exited"
StepsInOrder ==
    [][\A s \in Services :
        /\ rows[s] = "none" /\ rows'[s] = "creating" =>
               /\ \A b \in Built(Plan) : builds[b] = "success"
               /\ \A v \in Plan.services[s].mounts : vols[v] # "none"
        /\ engine[s] = "created" /\ engine'[s] = "running" /\ job.stage = "starting" =>
               \A d \in Plan.services[s].needs :
                   d.required => Reached(engine[d.on], d.condition)]_vars

\* A deployment succeeds only when every service was started.
SucceedsWhenStarted ==
    [][job.status # "succeeded" /\ job'.status = "succeeded" =>
        \A s \in DOMAIN Plan.services : rows[s] \in {"running", "exited", "broken"}]_vars

\* A job whose handler is gone before it saved the plan is listed by nobody
\* until the next restart.
Stranded ==
    /\ Underway /\ job.stage = ""
    /\ \A w \in Workers : workers[w].pc = "idle"
    /\ queue = 0 /\ outbox \notin {"pending", "publishing"}
\* A service waits for a dependency.
Waiting ==
    /\ job.status = "running" /\ job.stage = "starting"
    /\ \E s \in DOMAIN Plan.services : \E d \in Plan.services[s].needs :
           /\ rows[s] = "created" /\ d.on \in Services
           /\ Evaluate(engine[d.on], d.condition, Plan.services[d.on].check) = "wait"

\* A container that was created but not recorded keeps its volume in use.
Blocked ==
    /\ Underway /\ job.stage = "rolling_back"
    /\ \E s \in Services : rows[s] # "none" /\ s \notin job.res.containers

\* A deployment ends unless it is stranded, waits for a dependency for ever or
\* its rollback is blocked; no other order of the steps of handler, coordinator
\* and cancellations, of failures and restarts leaves a job unfinished.
DeploymentEnds == <>[](~Active) \/ <>[]Stranded \/ <>[]Waiting \/ <>[]Blocked

\* "Maximum time a Compose project deployment may run before it is timed out."
EveryDeploymentEnds == <>[](~Active)

\* The wait for a dependency is bounded: "Maximum time to wait for dependent
\* services in a Compose project before the deployment fails."
DependencyWaitEnds == Waiting ~> ~Waiting

=============================================================================
