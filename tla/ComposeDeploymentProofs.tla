---------------------- MODULE ComposeDeploymentProofs ----------------------
(***************************************************************************)
(* Proofs about ComposeDeployment, for every file, every number of workers *)
(* and every bound: a queued job is carried, a job that ended stays ended, *)
(* a rollback ends only when what the job recorded is gone, and services   *)
(* are created and started in the order that the plan asks for.            *)
(*                                                                         *)
(* One inductive invariant carries most of it, Inv, by parts: Typed, Quiet, *)
(* Outcomes, Clean and Ordered.  Every action has a lemma, which shows how  *)
(* it leaves the parts that it can disturb.  Carried is shown on top of it. *)
(***************************************************************************)
EXTENDS ComposeDeployment, FiniteSetTheorems, TLAPS

-----------------------------------------------------------------------------
(* The invariant *)

\* A handler records builds only.  An order is one of the file's own, so that
\* the plan is the plan of the file whatever handler wrote it.
Bare(res) == res.volumes = {} /\ res.created = {} /\ res.containers = {}
OrdersOfFile == Orders(File) \cup {<<>>}
Typed ==
    /\ TypeOK
    /\ job.order \in OrdersOfFile
    /\ \A w \in Workers : workers[w].order \in OrdersOfFile /\ Bare(workers[w].res)

\* All that the file says of its plan, in no particular order.
Planned == PlanOf(File, <<>>)

\* Until the request is queued, and when it is rejected, nothing happens.
Quiet ==
    request # "queued" =>
        /\ job.status = "none" /\ job.stage = ""
        /\ outbox = "none" /\ queue = 0 /\ publisher = "idle"
        /\ \A w \in Workers : workers[w].pc = "idle"
        /\ coord.pc = "idle"

\* A rollback knows how it is to end.
Cleaning == {"deleteContainers", "deleteVolumes"}
Outcomes == coord.pc \in Cleaning => coord.res.cleanup \in {"failed", "canceled"}

\* What a rollback has done with, as long as nothing was left over, is gone.
Recorded(res) == res.created \subseteq res.volumes \ Planned.external
Clean ==
    /\ Recorded(job.res) /\ Recorded(coord.res)
    /\ coord.done /\ coord.pc \in Cleaning =>
         \A s \in coord.res.containers :
             \/ s \in coord.todo /\ coord.pc = "deleteContainers"
             \/ rows[s] = "none"
    /\ coord.done /\ coord.pc = "deleteVolumes" =>
         \A v \in coord.res.created : v \in coord.todo \/ vols[v] = "none"

\* The points of the coordinator while it builds, creates, starts, rolls back.
BuildingPcs == {"look", "trigger", "checkBuilds", "saveCreating"}
CreatingPcs == {"volumes", "saveVolume", "containers", "saveContainer", "saveGraph"}
StartingPcs == {"saveGraph", "starting", "saveStarted"}
CleanupPcs == {"cleanup", "deleteContainers", "deleteVolumes"}
Began == job.stage \in {"creating", "starting"}

AllBuilt == \A b \in Built(Planned) : builds[b] = "success"
Settled(v) == vols[v] \notin {"none", "deleting"}
Builds ==
    /\ coord.pc = "checkBuilds" => Built(Planned) \subseteq coord.res.builds
    /\ Began \/ coord.pc \in {"saveCreating"} \cup CreatingPcs \cup StartingPcs => AllBuilt
\* Volumes are recorded in the stage creating and later, and are there.
Volumes ==
    /\ job.stage = "building" => job.res.volumes = {}
    /\ coord.pc \in BuildingPcs => coord.res.volumes = {}
    /\ coord.pc \in CreatingPcs \cup StartingPcs =>
          \A v \in coord.res.volumes : Settled(v)
    /\ Began => \A v \in job.res.volumes : Settled(v)
    /\ coord.pc \in {"containers", "saveContainer"} =>
          Planned.volumes \subseteq coord.res.volumes
    /\ coord.pc \in CleanupPcs /\ Began => job.stage = "creating" /\ job.res.volumes = {}
\* A row tells what there can be in Docker; only services have one.
Containers ==
    /\ \A s \in Services \ Named(File) : rows[s] = "none"
    /\ \A s \in Services : /\ rows[s] \in {"none", "creating"} => engine[s] = "none"
                           /\ rows[s] \in {"created", "starting"} => engine[s] = "created"
\* Whoever is started has dependencies that reached their condition, and
\* nothing is deleted.
Starting(s) ==
    /\ rows[s] # "deleting"
    /\ rows[s] = "starting" => \A d \in Planned.services[s].needs :
          d.required => Reached(engine[d.on], d.condition)
Starts ==
    /\ coord.pc \in StartingPcs => Named(File) \subseteq coord.res.containers
    /\ job.stage = "starting" => Named(File) \subseteq job.res.containers
    /\ job.stage = "starting" \/ coord.pc \in StartingPcs =>
          \A s \in Named(File) : Starting(s)
Ordered ==
    /\ request = "queued" => Deployable[file]
    /\ Builds /\ Volumes /\ Containers /\ Starts

Inv == Typed /\ Quiet /\ Outcomes /\ Clean /\ Ordered

-----------------------------------------------------------------------------
(* Records: the type and the fields of one that is written *)

LEMMA NoResTyped == NoResources \in ResourceType
BY DEF NoResources, ResourceType
LEMMA ResBuilds ==
    ASSUME NEW r \in ResourceType, NEW x \in SUBSET Services
    PROVE  /\ [r EXCEPT !.builds = x] \in ResourceType
           /\ [r EXCEPT !.builds = x].builds = x
           /\ [r EXCEPT !.builds = x].volumes = r.volumes
           /\ [r EXCEPT !.builds = x].created = r.created
           /\ [r EXCEPT !.builds = x].containers = r.containers
           /\ [r EXCEPT !.builds = x].graph = r.graph
           /\ [r EXCEPT !.builds = x].started = r.started
           /\ [r EXCEPT !.builds = x].cleanup = r.cleanup
<1>1. [r EXCEPT !.builds = x] \in ResourceType
  BY DEF ResourceType
<1> QED BY <1>1 DEF ResourceType
LEMMA ResVolumes ==
    ASSUME NEW r \in ResourceType, NEW x \in SUBSET VolumeNames
    PROVE  /\ [r EXCEPT !.volumes = x] \in ResourceType
           /\ [r EXCEPT !.volumes = x].builds = r.builds
           /\ [r EXCEPT !.volumes = x].volumes = x
           /\ [r EXCEPT !.volumes = x].created = r.created
           /\ [r EXCEPT !.volumes = x].containers = r.containers
           /\ [r EXCEPT !.volumes = x].graph = r.graph
           /\ [r EXCEPT !.volumes = x].started = r.started
           /\ [r EXCEPT !.volumes = x].cleanup = r.cleanup
<1>1. [r EXCEPT !.volumes = x] \in ResourceType
  BY DEF ResourceType
<1> QED BY <1>1 DEF ResourceType
LEMMA ResCreated ==
    ASSUME NEW r \in ResourceType, NEW x \in SUBSET VolumeNames, NEW y \in SUBSET VolumeNames
    PROVE  /\ [r EXCEPT !.volumes = x, !.created = y] \in ResourceType
           /\ [r EXCEPT !.volumes = x, !.created = y].builds = r.builds
           /\ [r EXCEPT !.volumes = x, !.created = y].volumes = x
           /\ [r EXCEPT !.volumes = x, !.created = y].created = y
           /\ [r EXCEPT !.volumes = x, !.created = y].containers = r.containers
           /\ [r EXCEPT !.volumes = x, !.created = y].graph = r.graph
           /\ [r EXCEPT !.volumes = x, !.created = y].started = r.started
           /\ [r EXCEPT !.volumes = x, !.created = y].cleanup = r.cleanup
<1>1. [r EXCEPT !.volumes = x, !.created = y] \in ResourceType
  BY DEF ResourceType
<1> QED BY <1>1 DEF ResourceType
LEMMA ResContainers ==
    ASSUME NEW r \in ResourceType, NEW x \in SUBSET Services
    PROVE  /\ [r EXCEPT !.containers = x] \in ResourceType
           /\ [r EXCEPT !.containers = x].builds = r.builds
           /\ [r EXCEPT !.containers = x].volumes = r.volumes
           /\ [r EXCEPT !.containers = x].created = r.created
           /\ [r EXCEPT !.containers = x].containers = x
           /\ [r EXCEPT !.containers = x].graph = r.graph
           /\ [r EXCEPT !.containers = x].started = r.started
           /\ [r EXCEPT !.containers = x].cleanup = r.cleanup
<1>1. [r EXCEPT !.containers = x] \in ResourceType
  BY DEF ResourceType
<1> QED BY <1>1 DEF ResourceType
LEMMA ResGraph ==
    ASSUME NEW r \in ResourceType, NEW x \in BOOLEAN
    PROVE  /\ [r EXCEPT !.graph = x] \in ResourceType
           /\ [r EXCEPT !.graph = x].builds = r.builds
           /\ [r EXCEPT !.graph = x].volumes = r.volumes
           /\ [r EXCEPT !.graph = x].created = r.created
           /\ [r EXCEPT !.graph = x].containers = r.containers
           /\ [r EXCEPT !.graph = x].graph = x
           /\ [r EXCEPT !.graph = x].started = r.started
           /\ [r EXCEPT !.graph = x].cleanup = r.cleanup
<1>1. [r EXCEPT !.graph = x] \in ResourceType
  BY DEF ResourceType
<1> QED BY <1>1 DEF ResourceType
LEMMA ResStarted ==
    ASSUME NEW r \in ResourceType, NEW x \in SUBSET Services
    PROVE  /\ [r EXCEPT !.started = x] \in ResourceType
           /\ [r EXCEPT !.started = x].builds = r.builds
           /\ [r EXCEPT !.started = x].volumes = r.volumes
           /\ [r EXCEPT !.started = x].created = r.created
           /\ [r EXCEPT !.started = x].containers = r.containers
           /\ [r EXCEPT !.started = x].graph = r.graph
           /\ [r EXCEPT !.started = x].started = x
           /\ [r EXCEPT !.started = x].cleanup = r.cleanup
<1>1. [r EXCEPT !.started = x] \in ResourceType
  BY DEF ResourceType
<1> QED BY <1>1 DEF ResourceType
LEMMA ResCleanup ==
    ASSUME NEW r \in ResourceType, NEW x \in {"", "failed", "canceled"}
    PROVE  /\ [r EXCEPT !.cleanup = x] \in ResourceType
           /\ [r EXCEPT !.cleanup = x].builds = r.builds
           /\ [r EXCEPT !.cleanup = x].volumes = r.volumes
           /\ [r EXCEPT !.cleanup = x].created = r.created
           /\ [r EXCEPT !.cleanup = x].containers = r.containers
           /\ [r EXCEPT !.cleanup = x].graph = r.graph
           /\ [r EXCEPT !.cleanup = x].started = r.started
           /\ [r EXCEPT !.cleanup = x].cleanup = x
<1>1. [r EXCEPT !.cleanup = x] \in ResourceType
  BY DEF ResourceType
<1> QED BY <1>1 DEF ResourceType

\* The writes of the job.
LEMMA JobFields ==
    ASSUME job \in JobType
    PROVE  /\ job.status \in JobStatuses /\ job.cancel \in BOOLEAN /\ job.stage \in Stages
           /\ job.attempts \in Nat /\ job.order \in OrderSet /\ job.res \in ResourceType
BY DEF JobType
LEMMA JobStatus ==
    ASSUME job \in JobType, NEW st \in JobStatuses,
           job' = [job EXCEPT !.status = st]
    PROVE  /\ job' \in JobType
           /\ job'.status = st
           /\ job'.cancel = job.cancel
           /\ job'.stage = job.stage
           /\ job'.attempts = job.attempts
           /\ job'.order = job.order
           /\ job'.res = job.res
<1>1. job' \in JobType
  BY DEF JobType, JobStatuses
<1> QED BY <1>1 DEF JobType
LEMMA JobStarts ==
    ASSUME job \in JobType,
           job' = [job EXCEPT !.status = "running", !.attempts = @ + 1]
    PROVE  /\ job' \in JobType
           /\ job'.status = "running"
           /\ job'.cancel = job.cancel
           /\ job'.stage = job.stage
           /\ job'.attempts = job.attempts + 1
           /\ job'.order = job.order
           /\ job'.res = job.res
<1>1. "running" \in JobStatuses /\ job.attempts + 1 \in Nat
  BY DEF JobType, JobStatuses
<1>2. \A st \in JobStatuses, n \in Nat : [job EXCEPT !.status = st, !.attempts = n] \in JobType
  BY DEF JobType
<1>3. job' \in JobType
  BY <1>1, <1>2
<1> QED BY <1>3 DEF JobType
LEMMA JobPlanned ==
    ASSUME job \in JobType, NEW sg \in Stages, NEW od \in OrderSet, NEW rs \in ResourceType,
           job' = [job EXCEPT !.stage = sg, !.order = od, !.res = rs]
    PROVE  /\ job' \in JobType
           /\ job'.status = job.status
           /\ job'.cancel = job.cancel
           /\ job'.stage = sg
           /\ job'.attempts = job.attempts
           /\ job'.order = od
           /\ job'.res = rs
<1>1. job' \in JobType
  BY DEF JobType, JobStatuses
<1> QED BY <1>1 DEF JobType
LEMMA JobSaved ==
    ASSUME job \in JobType, NEW sg \in Stages, NEW rs \in ResourceType,
           job' = [job EXCEPT !.stage = sg, !.res = rs]
    PROVE  /\ job' \in JobType
           /\ job'.status = job.status
           /\ job'.cancel = job.cancel
           /\ job'.stage = sg
           /\ job'.attempts = job.attempts
           /\ job'.order = job.order
           /\ job'.res = rs
<1>1. job' \in JobType
  BY DEF JobType, JobStatuses
<1> QED BY <1>1 DEF JobType
LEMMA JobCancels ==
    ASSUME job \in JobType,
           job' = [job EXCEPT !.cancel = TRUE, !.status = "canceling"]
    PROVE  /\ job' \in JobType
           /\ job'.status = "canceling"
           /\ job'.cancel = TRUE
           /\ job'.stage = job.stage
           /\ job'.attempts = job.attempts
           /\ job'.order = job.order
           /\ job'.res = job.res
<1>1. \A st \in JobStatuses, c \in BOOLEAN : [job EXCEPT !.cancel = c, !.status = st] \in JobType
  BY DEF JobType
<1>2. job' \in JobType
  BY <1>1 DEF JobStatuses
<1> QED BY <1>2 DEF JobType

\* The steps of the coordinator from one point to another.
CoordPcs == {"idle", "look", "trigger", "checkBuilds", "saveCreating",
            "volumes", "saveVolume", "containers", "saveContainer",
            "saveGraph", "starting", "saveStarted", "finishJob",
            "cancelBuilds", "cascade", "cascadeMark", "failProject",
            "cancel", "saveRollback", "cleanup", "deleteContainers",
            "deleteVolumes", "release"}
Todos == SUBSET (Services \cup VolumeNames)
LEMMA CoordFields ==
    ASSUME coord \in CoordType
    PROVE  /\ coord.pc \in CoordPcs /\ coord.res \in ResourceType /\ coord.todo \in Todos
           /\ coord.next \in Nat /\ coord.queued \in BOOLEAN /\ coord.done \in BOOLEAN
BY DEF CoordType, CoordPcs, Todos
LEMMA CoordBecomes ==
    ASSUME coord \in CoordType, NEW pc \in CoordPcs,
           coord' = [coord EXCEPT !.pc = pc]
    PROVE  /\ coord' \in CoordType
           /\ coord'.pc = pc
           /\ coord'.res = coord.res
           /\ coord'.todo = coord.todo
           /\ coord'.next = coord.next
           /\ coord'.queued = coord.queued
           /\ coord'.done = coord.done
<1>1. coord' \in CoordType
  BY DEF CoordType, CoordPcs, Todos
<1> QED BY <1>1 DEF CoordType
LEMMA CoordRecords ==
    ASSUME coord \in CoordType, NEW pc \in CoordPcs, NEW res \in ResourceType,
           coord' = [coord EXCEPT !.pc = pc, !.res = res]
    PROVE  /\ coord' \in CoordType
           /\ coord'.pc = pc
           /\ coord'.res = res
           /\ coord'.todo = coord.todo
           /\ coord'.next = coord.next
           /\ coord'.queued = coord.queued
           /\ coord'.done = coord.done
<1>1. coord' \in CoordType
  BY DEF CoordType, CoordPcs, Todos
<1> QED BY <1>1 DEF CoordType
LEMMA CoordVisits ==
    ASSUME coord \in CoordType, NEW nx \in Nat, NEW qd \in BOOLEAN,
           coord' = [coord EXCEPT !.next = nx, !.queued = qd]
    PROVE  /\ coord' \in CoordType
           /\ coord'.pc = coord.pc
           /\ coord'.res = coord.res
           /\ coord'.todo = coord.todo
           /\ coord'.next = nx
           /\ coord'.queued = qd
           /\ coord'.done = coord.done
<1>1. coord' \in CoordType
  BY DEF CoordType, CoordPcs, Todos
<1> QED BY <1>1 DEF CoordType
LEMMA CoordTodo ==
    ASSUME coord \in CoordType, NEW pc \in CoordPcs, NEW td \in Todos,
           coord' = [coord EXCEPT !.pc = pc, !.todo = td]
    PROVE  /\ coord' \in CoordType
           /\ coord'.pc = pc
           /\ coord'.res = coord.res
           /\ coord'.todo = td
           /\ coord'.next = coord.next
           /\ coord'.queued = coord.queued
           /\ coord'.done = coord.done
<1>1. coord' \in CoordType
  BY DEF CoordType, CoordPcs, Todos
<1> QED BY <1>1 DEF CoordType
LEMMA CoordDoes ==
    ASSUME coord \in CoordType, NEW td \in Todos, NEW dn \in BOOLEAN,
           coord' = [coord EXCEPT !.todo = td, !.done = dn]
    PROVE  /\ coord' \in CoordType
           /\ coord'.pc = coord.pc
           /\ coord'.res = coord.res
           /\ coord'.todo = td
           /\ coord'.next = coord.next
           /\ coord'.queued = coord.queued
           /\ coord'.done = dn
<1>1. coord' \in CoordType
  BY DEF CoordType, CoordPcs, Todos
<1> QED BY <1>1 DEF CoordType
LEMMA CoordCleans ==
    ASSUME coord \in CoordType, NEW pc \in CoordPcs, NEW dn \in BOOLEAN,
           NEW res \in ResourceType, NEW td \in Todos,
           coord' = [coord EXCEPT !.pc = pc, !.done = dn, !.res = res, !.todo = td]
    PROVE  /\ coord' \in CoordType
           /\ coord'.pc = pc
           /\ coord'.res = res
           /\ coord'.todo = td
           /\ coord'.next = coord.next
           /\ coord'.queued = coord.queued
           /\ coord'.done = dn
<1>1. coord' \in CoordType
  BY DEF CoordType, CoordPcs, Todos
<1> QED BY <1>1 DEF CoordType
LEMMA CoordRests ==
    ASSUME coord' = IdleCoord
    PROVE  /\ coord' \in CoordType
           /\ coord'.pc = "idle" /\ coord'.res = NoResources
<1>1. IdleCoord \in CoordType
  BY NoResTyped DEF IdleCoord, CoordType
<1> QED BY <1>1 DEF IdleCoord
LEMMA CoordWakes ==
    ASSUME NEW pc \in CoordPcs, NEW res \in ResourceType,
           coord' = [IdleCoord EXCEPT !.pc = pc, !.res = res]
    PROVE  /\ coord' \in CoordType
           /\ coord'.pc = pc /\ coord'.res = res
<1>1. IdleCoord \in CoordType
  BY NoResTyped DEF IdleCoord, CoordType
<1>2. coord' \in CoordType
  BY <1>1 DEF CoordType, CoordPcs
<1> QED BY <1>1, <1>2 DEF CoordType

\* The steps of a handler.
WorkerPcs == {"idle", "start", "cancelJob", "cancelProject", "prepare", "savePlan",
              "setProject", "look", "trigger", "failProject", "failJob", "release"}
LEMMA WorkerFields ==
    ASSUME workers \in [Workers -> WorkerType], NEW w \in Workers
    PROVE  /\ workers[w].pc \in WorkerPcs /\ workers[w].order \in OrderSet
           /\ workers[w].res \in ResourceType
BY DEF WorkerType, WorkerPcs
LEMMA WorkerMade ==
    ASSUME workers \in [Workers -> WorkerType], NEW w \in Workers, NEW r \in WorkerType,
           workers' = [workers EXCEPT ![w] = r]
    PROVE  /\ workers' \in [Workers -> WorkerType]
           /\ workers'[w] = r
           /\ \A v \in Workers \ {w} : workers'[v] = workers[v]
OBVIOUS
LEMMA WorkerGoes ==
    ASSUME workers \in [Workers -> WorkerType], NEW w \in Workers, NEW pc \in WorkerPcs,
           Goto(w, pc)
    PROVE  /\ workers' \in [Workers -> WorkerType]
           /\ workers'[w].pc = pc /\ workers'[w].order = workers[w].order
           /\ workers'[w].res = workers[w].res
           /\ \A v \in Workers \ {w} : workers'[v] = workers[v]
<1> DEFINE x == workers[w]
           r == [x EXCEPT !.pc = pc]
<1>1. x \in WorkerType
  OBVIOUS
<1>2. workers' = [workers EXCEPT ![w] = r]
  BY DEF Goto
<1> HIDE DEF x
<1>3. r \in WorkerType
  BY <1>1 DEF WorkerType, WorkerPcs
<1>4. r.pc = pc /\ r.order = x.order /\ r.res = x.res
  BY <1>1 DEF WorkerType
<1> HIDE DEF r
<1> QED BY <1>2, <1>3, <1>4, WorkerMade DEF x
LEMMA WorkerEnds ==
    ASSUME workers \in [Workers -> WorkerType], NEW w \in Workers,
           Finish(w)
    PROVE  /\ workers' \in [Workers -> WorkerType]
           /\ workers'[w] = IdleWorker
           /\ \A v \in Workers \ {w} : workers'[v] = workers[v]
<1>1. IdleWorker \in WorkerType
  BY NoResTyped DEF IdleWorker, WorkerType, OrderSet
<1> QED BY <1>1 DEF Finish
LEMMA WorkerBuilds ==
    ASSUME workers \in [Workers -> WorkerType], NEW w \in Workers,
           NEW B \in SUBSET Services,
           workers' = [workers EXCEPT ![w].pc = "trigger", ![w].res.builds = @ \cup B]
    PROVE  /\ workers' \in [Workers -> WorkerType]
           /\ workers'[w].pc = "trigger" /\ workers'[w].order = workers[w].order
           /\ workers'[w].res = [workers[w].res EXCEPT !.builds = workers[w].res.builds \cup B]
           /\ \A v \in Workers \ {w} : workers'[v] = workers[v]
<1> DEFINE b == workers[w].res.builds \cup B
           e == [workers[w].res EXCEPT !.builds = b]
           x == workers[w]
           r == [x EXCEPT !.pc = "trigger", !.res = e]
<1>1. x \in WorkerType /\ workers[w].res \in ResourceType
  BY WorkerFields
<1>2. b \in SUBSET Services
  BY <1>1 DEF ResourceType
<1>3. e \in ResourceType
  BY <1>1, <1>2, ResBuilds
<1>4. workers' = [workers EXCEPT ![w] = r]
  OBVIOUS
<1> HIDE DEF e, x
<1>5. r \in WorkerType
  BY <1>1, <1>3 DEF WorkerType, WorkerPcs
<1>6. r.pc = "trigger" /\ r.order = x.order /\ r.res = e
  BY <1>1 DEF WorkerType
<1> HIDE DEF r
<1> QED BY <1>4, <1>5, <1>6, WorkerMade DEF x, e

-----------------------------------------------------------------------------
(* The plan *)

LEMMA FileTyped ==
    ASSUME TypeOK
    PROVE  /\ file \in DOMAIN Files
           /\ Named(File) \subseteq Services
           /\ \A s \in Named(File) : File.services[s] \in ServiceType
BY DeploymentConstants DEF TypeOK, File

LEMMA PlanServiceFields ==
    ASSUME NEW f, NEW s
    PROVE  /\ PlanService(f, s).needs = {Sanitized(d) : d \in f.services[s].needs}
           /\ PlanService(f, s).mounts = f.services[s].mounts
           /\ PlanService(f, s).check = f.services[s].check
BY DEF PlanService

LEMMA PlannedFields ==
    /\ DOMAIN Planned.services = Named(File)
    /\ \A s \in Named(File) : Planned.services[s] = PlanService(File, s)
    /\ Planned.volumes = Declared(File)
    /\ Built(Planned) \subseteq Named(File)
BY DEF Planned, PlanOf, Built

\* The plan of a job says what the file says, in the order of the job.
LEMMA PlanOfJob ==
    ASSUME Typed
    PROVE  /\ Plan.order = job.order
           /\ Plan.services = Planned.services
           /\ Plan.volumes = Planned.volumes
           /\ Plan.external = Planned.external
           /\ Built(Plan) = Built(Planned)
           /\ RequiresBuild(Plan) = (Built(Planned) # {})
<1>1. Plan = PlanOf(File, job.order)
  BY FileTyped DEF Typed, Plan, PlanTable, OrdersOfFile, File
<1> QED BY <1>1 DEF PlanOf, Planned, Built, RequiresBuild

\* Positions in the order of a job are numbers and hold services of the file.
LEMMA OrderTyped ==
    ASSUME Typed, NEW i \in DOMAIN job.order
    PROVE  i \in Nat /\ job.order[i] \in Named(File) /\ job.order[i] \in Services
<1>1. Named(File) \subseteq Services
  BY FileTyped DEF Typed
<1>2. IsFiniteSet(Named(File))
  BY <1>1, DeploymentConstants, FS_Subset
<1>3. Cardinality(Named(File)) \in Nat
  BY <1>2, FS_CardinalityType
<1>4. CASE job.order \in Orders(File)
  <2>1. job.order \in [1..Cardinality(Named(File)) -> Named(File)]
    BY <1>4 DEF Orders, SetToSeqs
  <2> QED BY <2>1, <1>1, <1>3
<1>5. CASE job.order = <<>>
  BY <1>5
<1> QED BY <1>4, <1>5 DEF Typed, OrdersOfFile

\* An accepted file names the services it requires and declares its mounts.
LEMMA RequiredNamed ==
    ASSUME TypeOK, Deployable[file], NEW s \in Named(File),
           NEW d \in Planned.services[s].needs
    PROVE  d.on \in Services /\ (d.required => d.on \in Named(File))
<1>1. Accepted(File, Forbidden) /\ Named(File) # {}
  BY FileTyped DEF Deployable, File
<1>a. Planned.services[s].needs = {Sanitized(e) : e \in File.services[s].needs}
  BY PlannedFields, PlanServiceFields
<1>2. PICK e \in File.services[s].needs : d = Sanitized(e)
  BY <1>a
<1>3. e \in DependencyType
  BY <1>2, FileTyped DEF ServiceType
<1>4. d.on = e.on /\ d.required = e.required
  BY <1>2, <1>3 DEF Sanitized, DependencyType
<1>5. e.required => e.on \in Named(File)
  BY <1>1, <1>2 DEF Accepted, Loads
<1> QED BY <1>3, <1>4, <1>5 DEF DependencyType

LEMMA MountsDeclared ==
    ASSUME TypeOK, Deployable[file], NEW s \in Named(File)
    PROVE  Planned.services[s].mounts \subseteq Planned.volumes
<1>1. Accepted(File, Forbidden)
  BY FileTyped DEF Deployable, File
<1>2. File.services[s].mounts \subseteq Declared(File)
  BY <1>1 DEF Accepted, ServiceAllowed
<1> QED BY <1>2, PlannedFields, PlanServiceFields

LEMMA SamePlan ==
    ASSUME file' = file
    PROVE  /\ Planned' = Planned /\ File' = File
           /\ OrdersOfFile' = OrdersOfFile
           /\ Deployable' = Deployable
BY DEF Planned, File, OrdersOfFile, Deployable

-----------------------------------------------------------------------------
(* What keeps the parts of the invariant *)

Projects == ProjectStatuses
Sources == {"none", "kept", "released"}
ResourcesTyped ==
    /\ rows \in [Services -> RowStatuses]
    /\ engine \in [Services -> EngineStates]
    /\ vols \in [VolumeNames -> VolumeStatuses]
    /\ linked \subseteq VolumeNames
    /\ builds \in [Services -> BuildStatuses]

\* A step of whoever does not handle the message: it may not queue the job.
OthersRest == UNCHANGED <<file, request, outbox, queue, publisher, workers>>

LEMMA FaultsTyped ==
    ASSUME TypeOK, file' = file, faults' = faults \/ \E p \in Faults : Fault(p)
    PROVE  faults' \in 0..MaxFaults'[file']
<1>1. MaxFaults[file] \in Nat
  BY DeploymentConstants DEF TypeOK
<1> QED BY <1>1 DEF TypeOK, Fault

\* Whatever is on its way shows that the request was queued.
LEMMA Queued ==
    ASSUME Quiet,
           \/ job.status # "none" \/ job.stage # "" \/ coord.pc # "idle" \/ queue # 0
           \/ publisher # "idle" \/ outbox # "none"
           \/ \E w \in Workers : workers[w].pc # "idle"
    PROVE  request = "queued"
BY DEF Quiet

LEMMA OthersKeep ==
    ASSUME Inv, OthersRest,
           \/ request = "queued"
           \/ /\ coord' = coord /\ job'.stage = job.stage
              /\ job.status = "none" => job'.status = "none",
           job' \in JobType, job'.order = job.order,
           project' \in Projects, source' \in Sources,
           coord' \in CoordType,
           coord'.pc \in Cleaning => coord'.res.cleanup \in {"failed", "canceled"},
           callers' \in [Callers -> {"idle", "read", "write", "mark", "done"}],
           ResourcesTyped', faults' = faults \/ \E p \in Faults : Fault(p)
    PROVE  Typed' /\ Quiet' /\ Outcomes'
<1>1. file' = file /\ request' = request /\ outbox' = outbox /\ queue' = queue
      /\ publisher' = publisher /\ workers' = workers
  BY DEF OthersRest
<1>2. faults' \in 0..MaxFaults'[file']
  BY <1>1, FaultsTyped DEF Inv, Typed
<1>3. TypeOK'
  BY <1>1, <1>2 DEF Inv, Typed, TypeOK, ResourcesTyped, Projects, Sources
<1>4. OrdersOfFile' = OrdersOfFile
  BY <1>1, SamePlan
<1>5. Typed'
  BY <1>1, <1>3, <1>4 DEF Inv, Typed, Bare
<1>6. Quiet' /\ Outcomes'
  BY <1>1 DEF Inv, Quiet, Outcomes, Cleaning
<1> QED BY <1>5, <1>6

\* The resources, from one state to the next.
BuildsKept == \A s \in Services : builds[s] = "success" => builds'[s] = "success"
VolumesKept == \A v \in VolumeNames : Settled(v) => Settled(v)'
\* A container never falls behind a condition that it reached, unless deleted.
Forward(s) ==
    \/ engine'[s] = engine[s]
    \/ engine[s] \in {"none", "created"}
    \/ engine[s] \in Up /\ engine'[s] \in {"healthy", "unhealthy", "exited", "broken"}

LEMMA AllBuiltKept ==
    ASSUME TypeOK, file' = file, BuildsKept, AllBuilt
    PROVE  AllBuilt'
<1>1. Built(Planned) \subseteq Services
  BY PlannedFields, FileTyped
<1>2. Planned' = Planned
  BY SamePlan
<1>3. Built(Planned)' = Built(Planned)
  BY <1>2 DEF Built
<1> QED BY <1>1, <1>3 DEF AllBuilt, BuildsKept

LEMMA ReachedKept ==
    ASSUME NEW s \in Services, Forward(s), NEW c, Reached(engine[s], c)
    PROVE  Reached(engine'[s], c)
BY DEF Forward, Reached, Up

LEMMA StartingKept ==
    ASSUME TypeOK, Deployable[file], file' = file, \A s \in Services : Forward(s),
           NEW s \in Named(File), Starting(s), rows'[s] # "deleting",
           rows'[s] = "starting" => rows[s] = "starting"
    PROVE  Starting(s)'
<1>1. Planned' = Planned
  BY SamePlan
<1>2. ASSUME rows'[s] = "starting", NEW d \in Planned.services[s].needs, d.required
      PROVE  Reached(engine'[d.on], d.condition)
  <2>1. Reached(engine[d.on], d.condition)
    BY <1>2 DEF Starting
  <2>2. d.on \in Services
    BY RequiredNamed
  <2> QED BY <2>1, <2>2, ReachedKept
<1>3. ~(rows[s] = "deleting")'
  OBVIOUS
<1> QED BY <1>1, <1>2, <1>3 DEF Starting

-----------------------------------------------------------------------------
(* Steps of the coordinator that end the tick or turn to failing *)

AsidePcs == {"idle", "finishJob", "cancelBuilds", "cascade", "cascadeMark", "failProject",
             "cancel", "saveRollback", "release"}
RecordKept == job'.stage = job.stage /\ job'.res = job.res

LEMMA Aside ==
    ASSUME Inv, OthersRest, request = "queued",
           job' \in JobType, job'.order = job.order, RecordKept,
           project' \in Projects, source' \in Sources,
           coord' \in CoordType, coord'.pc \in AsidePcs, Recorded(coord'.res),
           callers' = callers,
           UNCHANGED <<rows, engine, vols, linked>>,
           builds' \in [Services -> BuildStatuses], BuildsKept,
           faults' = faults \/ \E p \in Faults : Fault(p)
    PROVE  Inv'
<1>1. file' = file /\ request' = request /\ rows' = rows /\ engine' = engine /\ vols' = vols
      /\ linked' = linked /\ Planned' = Planned /\ File' = File /\ Deployable' = Deployable
  BY SamePlan DEF OthersRest
<1>2. /\ coord'.pc \notin Cleaning /\ coord'.pc \notin BuildingPcs
      /\ coord'.pc \notin CreatingPcs /\ coord'.pc \notin StartingPcs
      /\ coord'.pc \notin CleanupPcs /\ coord'.pc # "saveCreating"
  BY DEF AsidePcs, Cleaning, BuildingPcs, CreatingPcs, StartingPcs, CleanupPcs
<1>3. ResourcesTyped'
  BY <1>1 DEF Inv, Typed, TypeOK, ResourcesTyped
<1>4. callers' \in [Callers -> {"idle", "read", "write", "mark", "done"}]
  BY DEF Inv, Typed, TypeOK
<1>5. Typed' /\ Quiet' /\ Outcomes'
  BY <1>2, <1>3, <1>4, OthersKeep
<1>6. Clean'
  BY <1>1, <1>2 DEF Clean, Inv, Recorded, RecordKept, Cleaning
<1>7. TypeOK /\ Deployable[file]
  BY DEF Inv, Typed, Ordered
<1>8. Began' <=> Began
  BY DEF Began, RecordKept
<1>9. Builds'
  <2>1. AllBuilt => AllBuilt'
    BY <1>1, <1>7, AllBuiltKept
  <2>2. coord'.pc \notin {"saveCreating"} \cup CreatingPcs \cup StartingPcs
        /\ coord'.pc # "checkBuilds"
    BY <1>2 DEF BuildingPcs
  <2>3. Began => AllBuilt
    BY DEF Inv, Ordered, Builds
  <2> QED BY <1>8, <2>1, <2>2, <2>3 DEF Builds
<1>10. Volumes'
  <2>1. \A v \in VolumeNames : Settled(v)' <=> Settled(v)
    BY <1>1 DEF Settled
  <2>2. job.res.volumes \subseteq VolumeNames
    BY <1>7 DEF TypeOK, JobType, ResourceType
  <2>3. coord'.pc \notin {"containers", "saveContainer"}
    BY <1>2 DEF CreatingPcs
  <2>4. Volumes
    BY DEF Inv, Ordered
  <2> QED BY <1>2, <1>8, <2>1, <2>2, <2>3, <2>4 DEF Volumes, RecordKept
<1>11. Containers'
  BY <1>1 DEF Inv, Ordered, Containers
<1>12. Starts'
  <2>1. \A s \in Named(File) : Starting(s)' <=> Starting(s)
    BY <1>1 DEF Starting
  <2>2. Starts
    BY DEF Inv, Ordered
  <2> QED BY <1>1, <1>2, <2>1, <2>2 DEF Starts, RecordKept
<1>13. Ordered'
  BY <1>1, <1>7, <1>9, <1>10, <1>11, <1>12 DEF Ordered
<1> QED BY <1>5, <1>6, <1>13 DEF Inv

-----------------------------------------------------------------------------
(* Steps that leave the coordinator and the containers alone *)

\* A request records nothing, a handler nothing but builds, and no later stage.
RecordReset ==
    /\ Bare(job'.res)
    /\ \/ job'.stage \in {"", "building"}
       \/ job'.stage = "creating" /\ Built(Planned) = {}

LEMMA ElsewhereKeeps ==
    ASSUME Inv, Typed', file' = file, request' = "queued" => Deployable[file],
           UNCHANGED <<coord, rows, engine, vols>>, BuildsKept,
           RecordKept \/ RecordReset
    PROVE  Outcomes' /\ Clean' /\ Ordered'
<1>1. Planned' = Planned /\ File' = File /\ Deployable' = Deployable
  BY SamePlan
<1>2. TypeOK /\ Outcomes /\ Clean /\ Ordered
  BY DEF Inv, Typed
<1>3. Outcomes'
  BY <1>2 DEF Outcomes
<1>4. Clean'
  <2>1. Recorded(job.res)'
    BY <1>1, <1>2 DEF Clean, Recorded, RecordKept, RecordReset, Bare
  <2> QED BY <1>1, <1>2, <2>1 DEF Clean, Recorded
<1>5. Builds'
  <2>1. AllBuilt => AllBuilt'
    BY <1>2, AllBuiltKept
  <2>2. RecordReset => AllBuilt \/ ~Began'
    BY DEF RecordReset, AllBuilt, Began
  <2>3. Builds /\ (RecordKept => (Began' <=> Began))
    BY <1>2 DEF Ordered, Began, RecordKept
  <2> QED BY <1>1, <2>1, <2>2, <2>3 DEF Builds
<1>6. Volumes'
  <2>1. \A v \in VolumeNames : Settled(v)' <=> Settled(v)
    BY DEF Settled
  <2>2. job.res.volumes \subseteq VolumeNames /\ coord.res.volumes \subseteq VolumeNames
    BY <1>2 DEF TypeOK, JobType, CoordType, ResourceType
  <2>3. Volumes
    BY <1>2 DEF Ordered
  <2>4. CASE RecordKept
    BY <1>1, <2>1, <2>2, <2>3, <2>4 DEF Volumes, RecordKept, Began
  <2>5. CASE RecordReset
    BY <1>1, <2>1, <2>2, <2>3, <2>5 DEF Volumes, RecordReset, Bare, Began
  <2> QED BY <2>4, <2>5
<1>7. Containers'
  BY <1>1, <1>2 DEF Ordered, Containers
<1>8. Starts'
  <2>1. \A s \in Named(File) : Starting(s)' <=> Starting(s)
    BY <1>1 DEF Starting
  <2>2. Starts /\ (job'.stage = "starting" => RecordKept)
    BY <1>2 DEF Ordered, RecordReset
  <2> QED BY <1>1, <2>1, <2>2 DEF Starts, RecordKept
<1>9. Ordered'
  BY <1>1, <1>2, <1>5, <1>6, <1>7, <1>8 DEF Ordered
<1> QED BY <1>3, <1>4, <1>9

-----------------------------------------------------------------------------
(* The handlers of the message *)

LEMMA HandlerKeeps ==
    ASSUME Inv, NEW w \in Workers, request = "queued",
           UNCHANGED <<file, request, outbox, publisher, coord, callers, rows, engine, vols,
                       linked>>,
           builds' \in [Services -> BuildStatuses], BuildsKept,
           job' \in JobType, job'.order \in OrdersOfFile, RecordKept \/ RecordReset,
           project' \in Projects, source' \in Sources, queue' \in Nat,
           workers' \in [Workers -> WorkerType],
           \A v \in Workers \ {w} : workers'[v] = workers[v],
           workers'[w].order \in OrdersOfFile, Bare(workers'[w].res),
           faults' = faults \/ \E p \in Faults : Fault(p)
    PROVE  Inv'
<1>1. OrdersOfFile' = OrdersOfFile
  BY SamePlan
<1>2. faults' \in 0..MaxFaults'[file']
  BY FaultsTyped DEF Inv, Typed
<1>3. TypeOK'
  BY <1>2 DEF Inv, Typed, TypeOK, Projects, Sources
<1>4. Typed'
  BY <1>1, <1>3 DEF Inv, Typed, Bare
<1>5. Quiet'
  BY DEF Quiet
<1>6. Deployable[file]
  BY DEF Inv, Ordered
<1>7. Outcomes' /\ Clean' /\ Ordered'
  BY <1>4, <1>6, ElsewhereKeeps
<1> QED BY <1>4, <1>5, <1>7 DEF Inv

\* What a handler knows of the state it starts from.
LEMMA HandlerKnows ==
    ASSUME Inv, NEW w \in Workers, workers[w].pc # "idle" \/ queue > 0
    PROVE  /\ request = "queued"
           /\ job \in JobType /\ job.order \in OrdersOfFile /\ queue \in Nat
           /\ project \in Projects /\ source \in Sources
           /\ builds \in [Services -> BuildStatuses]
           /\ workers \in [Workers -> WorkerType] /\ workers[w] \in WorkerType
           /\ workers[w].order \in OrdersOfFile /\ Bare(workers[w].res)
<1>1. queue > 0 => queue # 0
  BY DEF Inv, Typed, TypeOK
<1>2. request = "queued"
  BY <1>1, Queued DEF Inv
<1> QED BY <1>2 DEF Inv, Typed, TypeOK, Projects, Sources

LEMMA IdleBare == IdleWorker.order \in OrdersOfFile /\ Bare(IdleWorker.res)
                  /\ IdleWorker.pc = "idle" /\ Bare(NoResources)
BY DEF IdleWorker, OrdersOfFile, Bare, NoResources

LEMMA ReceiveStep ==
    ASSUME Inv, NEW w \in Workers, Receive(w)
    PROVE  Inv'
<1>1. workers[w].pc = "idle" /\ queue > 0 /\ queue' = queue - 1
      /\ UNCHANGED <<file, request, project, job, source, outbox, publisher, coord, callers,
                     rows, engine, vols, linked, builds, faults>>
  BY DEF Receive, resources
<1>2. \/ Goto(w, "cancelJob")
      \/ Goto(w, "start")
      \/ workers' = workers
  BY DEF Receive
<1> USE HandlerKnows, <1>1
<1>3. /\ workers' \in [Workers -> WorkerType]
      /\ \A v \in Workers \ {w} : workers'[v] = workers[v]
      /\ workers'[w].order = workers[w].order /\ workers'[w].res = workers[w].res
  BY <1>2, WorkerGoes DEF WorkerPcs
<1>5. BuildsKept /\ RecordKept
  BY DEF BuildsKept, RecordKept
<1>6. queue' \in Nat
  OBVIOUS
<1>7. workers'[w].order \in OrdersOfFile /\ Bare(workers'[w].res)
  BY <1>3
<1> QED BY <1>3, <1>5, <1>6, <1>7, HandlerKeeps

LEMMA HandlerFailsStep ==
    ASSUME Inv, NEW w \in Workers, HandlerFails(w)
    PROVE  Inv'
<1>1. workers[w].pc # "idle" /\ queue' = queue + 1 /\ Finish(w) /\ Fault("handler")
      /\ UNCHANGED <<file, request, project, job, source, outbox, publisher, coord, callers,
                     rows, engine, vols, linked, builds>>
  BY DEF HandlerFails, resources
<1>2. \E p \in Faults : Fault(p)
  BY <1>1 DEF Faults
<1> USE HandlerKnows, <1>1
<1>3. /\ workers' \in [Workers -> WorkerType] /\ workers'[w] = IdleWorker
      /\ \A v \in Workers \ {w} : workers'[v] = workers[v]
  BY WorkerEnds
<1>4. BuildsKept /\ RecordKept /\ queue' \in Nat
  BY DEF BuildsKept, RecordKept
<1> QED BY <1>2, <1>3, <1>4, IdleBare, HandlerKeeps

\* A handler that goes on, with what it knows.
LEMMA HandlerGoes ==
    ASSUME Inv, NEW w \in Workers, workers[w].pc # "idle", NEW pc \in WorkerPcs,
           Goto(w, pc),
           UNCHANGED <<file, request, outbox, queue, publisher, coord, callers, rows, engine,
                       vols, linked, builds>>,
           job' \in JobType, job'.order \in OrdersOfFile, RecordKept \/ RecordReset,
           project' \in Projects, source' \in Sources,
           faults' = faults \/ \E p \in Faults : Fault(p)
    PROVE  Inv'
<1> USE HandlerKnows
<1>1. /\ workers' \in [Workers -> WorkerType] /\ workers'[w].pc = pc
      /\ workers'[w].order \in OrdersOfFile /\ Bare(workers'[w].res)
      /\ \A v \in Workers \ {w} : workers'[v] = workers[v]
  BY WorkerGoes
<1>2. BuildsKept
  BY DEF BuildsKept
<1>3. queue' \in Nat /\ builds' \in [Services -> BuildStatuses]
  OBVIOUS
<1> QED BY <1>1, <1>2, <1>3, HandlerKeeps

\* A handler that is done with the message.
LEMMA HandlerEnds ==
    ASSUME Inv, NEW w \in Workers, workers[w].pc # "idle", Finish(w),
           UNCHANGED <<file, request, job, project, outbox, queue, publisher, coord, callers,
                       rows, engine, vols, linked, builds, faults>>,
           source' \in Sources
    PROVE  Inv'
<1> USE HandlerKnows
<1>1. /\ workers' \in [Workers -> WorkerType] /\ workers'[w] = IdleWorker
      /\ \A v \in Workers \ {w} : workers'[v] = workers[v]
  BY WorkerEnds
<1>3. BuildsKept /\ RecordKept
  BY DEF BuildsKept, RecordKept
<1>4. queue' \in Nat /\ builds' \in [Services -> BuildStatuses] /\ project' \in Projects
      /\ job' \in JobType /\ job'.order \in OrdersOfFile
  OBVIOUS
<1>5. workers'[w].order \in OrdersOfFile /\ Bare(workers'[w].res)
  BY <1>1, IdleBare
<1> QED BY <1>1, <1>3, <1>4, <1>5, HandlerKeeps

LEMMA StartJobStep ==
    ASSUME Inv, NEW w \in Workers, StartJob(w)
    PROVE  Inv'
<1>1. /\ workers[w].pc = "start"
      /\ UNCHANGED <<file, request, project, source, outbox, queue, publisher, coord, callers,
                     rows, engine, vols, linked, builds, faults>>
  BY DEF StartJob, delivery, resources
<1> USE <1>1, HandlerKnows
<1>2. CASE /\ job' = [job EXCEPT !.status = "running", !.attempts = @ + 1]
           /\ Goto(w, "prepare")
  <2>1. /\ job' \in JobType /\ job'.order \in OrdersOfFile /\ job'.status = "running"
        /\ RecordKept
    BY <1>2, JobStarts DEF RecordKept
  <2>2. "prepare" \in WorkerPcs /\ project' \in Projects /\ source' \in Sources
    BY DEF WorkerPcs
  <2> QED BY <1>2, <2>1, <2>2, HandlerGoes
<1>3. CASE /\ job.status # "queued" \/ job.cancel
           /\ job' = job
           /\ IF Canceling THEN Goto(w, "cancelJob") ELSE Finish(w)
  <2>1. CASE Canceling
    <3>1. RecordKept /\ "cancelJob" \in WorkerPcs /\ project' \in Projects
          /\ source' \in Sources /\ job' \in JobType /\ job'.order \in OrdersOfFile
      BY <1>3 DEF RecordKept, WorkerPcs
    <3> QED BY <1>3, <2>1, <3>1, HandlerGoes
  <2>2. CASE ~Canceling
    <3>1. source' \in Sources
      OBVIOUS
    <3> QED BY <1>3, <2>2, <3>1, HandlerEnds
  <2> QED BY <2>1, <2>2
<1> QED BY <1>2, <1>3 DEF StartJob

LEMMA CancelJobStep ==
    ASSUME Inv, NEW w \in Workers, CancelJob(w)
    PROVE  Inv'
<1>1. /\ workers[w].pc = "cancelJob"
      /\ job' = [job EXCEPT !.status = "canceled"] \/ job' = job
      /\ Goto(w, "cancelProject")
      /\ faults' = faults \/ \E p \in Faults : Fault(p)
      /\ UNCHANGED <<file, request, project, source, outbox, queue, publisher, coord, callers,
                     rows, engine, vols, linked, builds>>
  BY DEF CancelJob, IgnoringError, delivery, resources, Faults
<1> USE <1>1, HandlerKnows
<1>2. "canceled" \in JobStatuses
  BY DEF JobStatuses
<1>3. job' \in JobType /\ job'.order \in OrdersOfFile /\ RecordKept
  BY <1>2, JobStatus DEF RecordKept
<1>4. "cancelProject" \in WorkerPcs /\ project' \in Projects /\ source' \in Sources
  BY DEF WorkerPcs
<1> QED BY <1>3, <1>4, HandlerGoes

LEMMA CancelProjectStep ==
    ASSUME Inv, NEW w \in Workers, CancelProject(w)
    PROVE  Inv'
<1>1. /\ workers[w].pc = "cancelProject" /\ project' \in {project, "canceled"}
      /\ Goto(w, "release")
      /\ faults' = faults \/ \E p \in Faults : Fault(p)
      /\ UNCHANGED <<file, request, job, source, outbox, queue, publisher, coord, callers,
                     rows, engine, vols, linked, builds>>
  BY DEF CancelProject, IgnoringError, delivery, resources, Faults
<1> USE <1>1, HandlerKnows
<1>2. "release" \in WorkerPcs /\ project' \in Projects /\ source' \in Sources /\ RecordKept
      /\ job' \in JobType /\ job'.order \in OrdersOfFile
  BY DEF WorkerPcs, Projects, ProjectStatuses, RecordKept
<1> QED BY <1>2, HandlerGoes

LEMMA PrepareStep ==
    ASSUME Inv, NEW w \in Workers, Prepare(w)
    PROVE  Inv'
<1>1. /\ workers[w].pc = "prepare"
      /\ UNCHANGED <<file, request, project, job, source, outbox, queue, publisher, coord,
                     callers, rows, engine, vols, linked, builds>>
  BY DEF Prepare, delivery, resources
<1> USE <1>1, HandlerKnows
<1>2. /\ project' \in Projects /\ source' \in Sources /\ RecordKept
      /\ job' \in JobType /\ job'.order \in OrdersOfFile /\ queue' \in Nat
      /\ builds' \in [Services -> BuildStatuses] /\ BuildsKept
  BY DEF RecordKept, BuildsKept
<1>3. ASSUME NEW order \in Orders(File), faults' = faults,
             workers' = [workers EXCEPT ![w] = [pc |-> "savePlan", order |-> order,
                                                res |-> NoResources]]
      PROVE  Inv'
  <2> DEFINE r == [pc |-> "savePlan", order |-> order, res |-> NoResources]
  <2>1. order \in OrderSet /\ order \in OrdersOfFile
    BY FileTyped DEF OrderSet, OrdersOfFile, File, Inv, Typed
  <2>2. r \in WorkerType
    BY <2>1, NoResTyped DEF WorkerType
  <2>3. r.order \in OrdersOfFile /\ Bare(r.res)
    BY <2>1, IdleBare
  <2> HIDE DEF r
  <2>4. /\ workers' \in [Workers -> WorkerType] /\ workers'[w] = r
        /\ \A v \in Workers \ {w} : workers'[v] = workers[v]
    BY <1>3, <2>2, WorkerMade DEF r
  <2> QED BY <1>2, <1>3, <2>3, <2>4, HandlerKeeps
<1>4. ASSUME Goto(w, "failProject"), faults' = faults \/ Fault("prepare")
      PROVE  Inv'
  <2>1. faults' = faults \/ \E p \in Faults : Fault(p)
    BY <1>4 DEF Faults
  <2>2. "failProject" \in WorkerPcs
    BY DEF WorkerPcs
  <2> QED BY <1>2, <1>4, <2>1, <2>2, HandlerGoes
<1> QED BY <1>3, <1>4 DEF Prepare

LEMMA SavePlanStep ==
    ASSUME Inv, NEW w \in Workers, SavePlan(w)
    PROVE  Inv'
<1>1. /\ workers[w].pc = "savePlan"
      /\ UNCHANGED <<file, request, project, source, outbox, queue, publisher, coord, callers,
                     rows, engine, vols, linked, builds, faults>>
  BY DEF SavePlan, delivery, resources
<1> USE <1>1, HandlerKnows
<1>2. project' \in Projects /\ source' \in Sources
  OBVIOUS
<1>3. CASE /\ job.status = "running" /\ Goto(w, "setProject")
           /\ job' = [job EXCEPT
                  !.stage = IF RequiresBuild(Plan) THEN "building" ELSE "creating",
                  !.order = workers[w].order, !.res = NoResources]
  <2> DEFINE sg == IF RequiresBuild(Plan) THEN "building" ELSE "creating"
  <2>1. sg \in Stages /\ workers[w].order \in OrderSet /\ NoResources \in ResourceType
    BY NoResTyped, WorkerFields DEF Stages
  <2>a. job' = [job EXCEPT !.stage = sg, !.order = workers[w].order, !.res = NoResources]
    BY <1>3
  <2>b. sg = "building" \/ (sg = "creating" /\ ~RequiresBuild(Plan))
    OBVIOUS
  <2> HIDE DEF sg
  <2>2. /\ job' \in JobType /\ job'.order = workers[w].order /\ job'.status = job.status
        /\ job'.stage = sg /\ job'.res = NoResources
    BY <2>1, <2>a, JobPlanned
  <2>3. RecordReset
    BY <2>2, <2>b, IdleBare, PlanOfJob DEF RecordReset, Inv
  <2>4. "setProject" \in WorkerPcs /\ job'.order \in OrdersOfFile
    BY <2>2 DEF WorkerPcs
  <2> QED BY <1>2, <1>3, <2>2, <2>3, <2>4, HandlerGoes
<1>4. CASE job.status # "running" /\ Finish(w) /\ job' = job
  BY <1>2, <1>4, HandlerEnds
<1> QED BY <1>3, <1>4 DEF SavePlan

LEMMA SetProjectStep ==
    ASSUME Inv, NEW w \in Workers, SetProject(w)
    PROVE  Inv'
<1>1. /\ workers[w].pc = "setProject"
      /\ project' \in {"building", "deploying"}
      /\ Goto(w, "look") \/ Goto(w, "release")
      /\ UNCHANGED <<file, request, job, source, outbox, queue, publisher, coord, callers,
                     rows, engine, vols, linked, builds, faults>>
  BY DEF SetProject, delivery, resources
<1> USE <1>1, HandlerKnows
<1>2. "release" \in WorkerPcs /\ "look" \in WorkerPcs /\ project' \in Projects
      /\ source' \in Sources /\ RecordKept /\ job' \in JobType /\ job'.order \in OrdersOfFile
  BY DEF WorkerPcs, Projects, ProjectStatuses, RecordKept
<1> QED BY <1>2, HandlerGoes

\* A handler that notes builds.
LEMMA HandlerNotes ==
    ASSUME Inv, NEW w \in Workers, workers[w].pc \in {"look", "trigger"},
           NEW B \in SUBSET Services,
           workers' = [workers EXCEPT ![w].pc = "trigger", ![w].res.builds = @ \cup B],
           UNCHANGED <<file, request, project, job, source, outbox, queue, publisher, coord,
                       callers, rows, engine, vols, linked, faults>>,
           builds' \in [Services -> BuildStatuses], BuildsKept
    PROVE  Inv'
<1>1. workers \in [Workers -> WorkerType]
  BY HandlerKnows
<1>2. /\ workers' \in [Workers -> WorkerType] /\ workers'[w].order = workers[w].order
      /\ workers'[w].res = [workers[w].res EXCEPT !.builds = workers[w].res.builds \cup B]
      /\ \A v \in Workers \ {w} : workers'[v] = workers[v]
  BY <1>1, WorkerBuilds
<1> USE HandlerKnows
<1>3. workers[w].res \in ResourceType
  BY WorkerFields
<1>4. workers[w].res.builds \cup B \in SUBSET Services
  BY <1>3 DEF ResourceType
<1>5. Bare(workers'[w].res)
  BY <1>2, <1>3, <1>4, ResBuilds DEF Bare
<1>6. /\ project' \in Projects /\ source' \in Sources /\ RecordKept /\ queue' \in Nat
      /\ job' \in JobType /\ job'.order \in OrdersOfFile
  BY DEF RecordKept
<1>7. workers'[w].order \in OrdersOfFile
  BY <1>2
<1> QED BY <1>2, <1>5, <1>6, <1>7, HandlerKeeps

LEMMA LookForBuildsStep ==
    ASSUME Inv, NEW w \in Workers, LookForBuilds(w)
    PROVE  Inv'
<1>1. /\ workers[w].pc = "look"
      /\ workers' = [workers EXCEPT ![w].pc = "trigger", ![w].res.builds = @ \cup Existing]
      /\ UNCHANGED <<file, request, project, job, source, outbox, queue, publisher, coord,
                     callers, rows, engine, vols, linked, builds, faults>>
  BY DEF LookForBuilds, delivery, resources
<1>2. Existing \in SUBSET Services
  BY DEF Existing
<1>3. BuildsKept /\ builds' \in [Services -> BuildStatuses]
  BY <1>1, HandlerKnows DEF BuildsKept
<1> QED BY <1>1, <1>2, <1>3, HandlerNotes

LEMMA TriggerKeeps ==
    ASSUME TypeOK, NEW s \in Services, Trigger(s)
    PROVE  builds' \in [Services -> BuildStatuses] /\ BuildsKept
BY DEF TypeOK, Trigger, BuildStatuses, BuildsKept

LEMMA TriggerBuildsStep ==
    ASSUME Inv, NEW w \in Workers, TriggerBuilds(w)
    PROVE  Inv'
<1>1. /\ workers[w].pc = "trigger"
      /\ UNCHANGED <<file, request, project, job, source, outbox, queue, publisher, coord,
                     callers, rows, engine, vols, linked>>
  BY DEF TriggerBuilds, delivery, containers
<1>2. PICK s \in Missing(workers[w].res) :
           \/ /\ Trigger(s)
              /\ workers' = [workers EXCEPT ![w].res.builds = @ \cup {s}]
              /\ UNCHANGED faults
           \/ /\ faults' = faults \/ Fault("trigger")
              /\ Goto(w, "failProject")
              /\ UNCHANGED builds
  BY DEF TriggerBuilds
<1>3. s \in Services
  BY <1>2, PlanOfJob, PlannedFields, FileTyped DEF Missing, Inv, Typed
<1>4. CASE /\ Trigger(s) /\ UNCHANGED faults
           /\ workers' = [workers EXCEPT ![w].res.builds = @ \cup {s}]
  <2>1. workers' = [workers EXCEPT ![w].pc = "trigger", ![w].res.builds = @ \cup {s}]
    <3>1. workers[w].pc = "trigger" /\ workers[w] \in WorkerType
      BY <1>1, HandlerKnows
    <3> DEFINE x == workers[w]
               e == [workers[w].res EXCEPT !.builds = workers[w].res.builds \cup {s}]
    <3>2. [x EXCEPT !.res = e] = [x EXCEPT !.pc = "trigger", !.res = e]
      BY <3>1 DEF WorkerType
    <3>3. workers' = [workers EXCEPT ![w] = [x EXCEPT !.res = e]]
      BY <1>4
    <3>4. workers' = [workers EXCEPT ![w] = [x EXCEPT !.pc = "trigger", !.res = e]]
      BY <3>2, <3>3
    <3> QED BY <3>4
  <2>2. builds' \in [Services -> BuildStatuses] /\ BuildsKept
    BY <1>3, <1>4, TriggerKeeps DEF Inv, Typed
  <2>3. {s} \in SUBSET Services
    BY <1>3
  <2> QED BY <1>1, <1>4, <2>1, <2>2, <2>3, HandlerNotes
<1>5. CASE /\ faults' = faults \/ Fault("trigger")
           /\ Goto(w, "failProject") /\ UNCHANGED builds
  <2>1. faults' = faults \/ \E p \in Faults : Fault(p)
    BY <1>5 DEF Faults
  <2>2. "failProject" \in WorkerPcs /\ RecordKept /\ project' \in Projects
        /\ source' \in Sources /\ job' \in JobType /\ job'.order \in OrdersOfFile
    BY <1>1, HandlerKnows DEF WorkerPcs, RecordKept
  <2> QED BY <1>1, <1>5, <2>1, <2>2, HandlerGoes
<1> QED BY <1>2, <1>4, <1>5

LEMMA WriteBuildsStep ==
    ASSUME Inv, NEW w \in Workers, WriteBuilds(w)
    PROVE  Inv'
<1>1. /\ workers[w].pc = "trigger"
      /\ UNCHANGED <<file, request, source, outbox, queue, publisher, coord, callers,
                     rows, engine, vols, linked, builds, faults>>
  BY DEF WriteBuilds, delivery, resources
<1> USE <1>1, HandlerKnows
<1>2. CASE /\ Underway /\ job' = [job EXCEPT !.stage = "building", !.res = workers[w].res]
           /\ project' = "building" /\ Goto(w, "release")
  <2>1. "building" \in Stages /\ workers[w].res \in ResourceType
    BY WorkerFields DEF Stages
  <2>2. /\ job' \in JobType /\ job'.order = job.order /\ job'.status = job.status
        /\ job'.stage = "building" /\ job'.res = workers[w].res
    BY <1>2, <2>1, JobSaved
  <2>3. RecordReset
    BY <2>2 DEF RecordReset
  <2>4. "release" \in WorkerPcs /\ project' \in Projects /\ source' \in Sources
        /\ job'.order \in OrdersOfFile
    BY <1>2, <2>2 DEF WorkerPcs, Projects, ProjectStatuses
  <2> QED BY <1>2, <2>2, <2>3, <2>4, HandlerGoes
<1>3. CASE ~Underway /\ Finish(w) /\ UNCHANGED <<job, project>>
  <2>1. source' \in Sources
    OBVIOUS
  <2> QED BY <1>3, <2>1, HandlerEnds
<1> QED BY <1>2, <1>3 DEF WriteBuilds

LEMMA FailProjectStep ==
    ASSUME Inv, NEW w \in Workers, FailProject(w)
    PROVE  Inv'
<1>1. /\ workers[w].pc = "failProject" /\ project' \in {project, "failed"}
      /\ Goto(w, "failJob")
      /\ faults' = faults \/ \E p \in Faults : Fault(p)
      /\ UNCHANGED <<file, request, job, source, outbox, queue, publisher, coord, callers,
                     rows, engine, vols, linked, builds>>
  BY DEF FailProject, IgnoringError, delivery, resources, Faults
<1> USE <1>1, HandlerKnows
<1>2. "failJob" \in WorkerPcs /\ project' \in Projects /\ source' \in Sources /\ RecordKept
      /\ job' \in JobType /\ job'.order \in OrdersOfFile
  BY DEF WorkerPcs, Projects, ProjectStatuses, RecordKept
<1> QED BY <1>2, HandlerGoes

LEMMA FailJobStep ==
    ASSUME Inv, NEW w \in Workers, FailJob(w)
    PROVE  Inv'
<1>1. /\ workers[w].pc = "failJob"
      /\ job' = [job EXCEPT !.status = "failed"] \/ job' = job
      /\ Goto(w, "release")
      /\ faults' = faults \/ \E p \in Faults : Fault(p)
      /\ UNCHANGED <<file, request, project, source, outbox, queue, publisher, coord, callers,
                     rows, engine, vols, linked, builds>>
  BY DEF FailJob, IgnoringError, delivery, resources, Faults
<1> USE <1>1, HandlerKnows
<1>2. "failed" \in JobStatuses
  BY DEF JobStatuses
<1>3. job' \in JobType /\ job'.order \in OrdersOfFile /\ RecordKept
  BY <1>2, JobStatus DEF RecordKept
<1>4. "release" \in WorkerPcs /\ project' \in Projects /\ source' \in Sources
  BY DEF WorkerPcs
<1> QED BY <1>3, <1>4, HandlerGoes

LEMMA HandlerReleasesStep ==
    ASSUME Inv, NEW w \in Workers, HandlerReleases(w)
    PROVE  Inv'
<1>1. /\ workers[w].pc = "release" /\ source' = "released" /\ Finish(w)
      /\ UNCHANGED <<file, request, project, job, outbox, queue, publisher, coord, callers,
                     rows, engine, vols, linked, builds, faults>>
  BY DEF HandlerReleases, delivery, resources
<1>2. source' \in Sources
  BY <1>1 DEF Sources
<1> QED BY <1>1, <1>2, HandlerEnds

-----------------------------------------------------------------------------
(* The request and the outbox worker *)

\* What a step finds that leaves the job and the resources alone.
LEMMA Found ==
    ASSUME Inv
    PROVE  /\ TypeOK /\ Quiet /\ Typed
           /\ request = "queued" => Deployable[file]
           /\ UNCHANGED <<job, builds>> => RecordKept /\ BuildsKept
BY DEF Inv, Typed, Ordered, RecordKept, BuildsKept

LEMMA TypedKept ==
    ASSUME Typed, TypeOK', file' = file, job'.order \in OrdersOfFile, workers' = workers
    PROVE  Typed'
BY SamePlan DEF Typed, Bare

LEMMA RequestStep ==
    ASSUME Inv, StageSource \/ RejectRequest \/ ReleaseStaleSource
    PROVE  Inv'
<1>1. /\ UNCHANGED <<file, project, job, outbox, queue, publisher, workers, coord, callers,
                     rows, engine, vols, linked, builds>>
      /\ source' \in Sources
      /\ request' = request \/ (request' \in {"staged", "rejected"} /\ request # "queued")
  BY DEF StageSource, RejectRequest, ReleaseStaleSource, delivery, resources, Sources
<1>2. faults' = faults \/ \E p \in Faults : Fault(p)
  BY DEF StageSource, RejectRequest, ReleaseStaleSource, Faults
<1>3. faults' \in 0..MaxFaults'[file']
  BY <1>1, <1>2, Found, FaultsTyped
<1>4. TypeOK'
  BY <1>1, <1>3, Found DEF TypeOK, Sources
<1>5. Typed'
  BY <1>1, <1>4, Found, TypedKept DEF Typed
<1>6. Quiet'
  BY <1>1, Found DEF Quiet
<1>7. Outcomes' /\ Clean' /\ Ordered'
  BY <1>1, <1>5, Found, ElsewhereKeeps
<1> QED BY <1>5, <1>6, <1>7 DEF Inv

LEMMA QueueJobStep ==
    ASSUME Inv, QueueJob
    PROVE  Inv' /\ job.status = "none"
<1>1. /\ request = "staged" /\ request' = "queued" /\ Deployable[file]
      /\ project' = "building" /\ outbox' = "pending"
      /\ job' = [NoJob EXCEPT !.status = "queued"]
      /\ UNCHANGED <<file, source, queue, publisher, workers, coord, callers,
                     rows, engine, vols, linked, builds, faults>>
  BY DEF QueueJob, resources
<1>2. job.status = "none" /\ publisher = "idle"
  BY <1>1, Found DEF Quiet
<1>3. /\ job' \in JobType /\ job'.order = <<>> /\ job'.stage = "" /\ job'.res = NoResources
      /\ job'.status = "queued"
  BY <1>1, NoResTyped DEF NoJob, JobType, JobStatuses, Stages, OrderSet
<1>4. TypeOK'
  BY <1>1, <1>3, Found DEF TypeOK, ProjectStatuses
<1>5. Typed'
  BY <1>1, <1>3, <1>4, Found, TypedKept DEF OrdersOfFile
<1>6. Quiet'
  BY <1>1, <1>2 DEF Quiet
<1>7. RecordReset /\ BuildsKept
  BY <1>1, <1>3, IdleBare, Found DEF RecordReset, BuildsKept
<1>8. Outcomes' /\ Clean' /\ Ordered'
  BY <1>1, <1>5, <1>7, ElsewhereKeeps
<1> QED BY <1>2, <1>5, <1>6, <1>8 DEF Inv

LEMMA PublisherKeeps ==
    ASSUME Inv, UNCHANGED <<file, request, project, job, source, workers, coord, callers,
                            rows, engine, vols, linked, builds>>,
           outbox' \in {"none", "pending", "publishing", "published", "discarded"},
           queue' \in Nat,
           publisher' \in {"idle", "leased", "mark"}, request = "queued",
           faults' = faults \/ \E p \in Faults : Fault(p)
    PROVE  Inv'
<1>1. faults' \in 0..MaxFaults'[file']
  BY Found, FaultsTyped
<1>2. TypeOK'
  BY <1>1, Found DEF TypeOK
<1>3. Typed'
  BY <1>2, Found, TypedKept DEF Typed
<1>4. Quiet'
  BY DEF Quiet
<1>5. Outcomes' /\ Clean' /\ Ordered'
  BY <1>3, Found, ElsewhereKeeps
<1> QED BY <1>3, <1>4, <1>5 DEF Inv

LEMMA PublisherSteps ==
    ASSUME Inv, PublisherStep
    PROVE  Inv'
<1>1. UNCHANGED <<file, request, project, job, source, workers, coord, callers,
                  rows, engine, vols, linked, builds>>
  BY DEF PublisherStep, Lease, Publish, MarkPublished, resources
<1>2. queue \in Nat
  BY Found DEF TypeOK
<1>3. faults' = faults \/ \E p \in Faults : Fault(p)
  BY DEF PublisherStep, Lease, Publish, MarkPublished, Faults
<1>4. request = "queued"
  BY Found, Queued DEF PublisherStep, Lease, Publish, MarkPublished
<1>5. /\ outbox' \in {"none", "pending", "publishing", "published", "discarded"}
      /\ queue' \in Nat /\ publisher' \in {"idle", "leased", "mark"}
  BY <1>2, Found DEF TypeOK, PublisherStep, Lease, Publish, MarkPublished
<1> QED BY <1>1, <1>3, <1>4, <1>5, PublisherKeeps

-----------------------------------------------------------------------------
(* Cancellation *)

LEMMA MarkTyped ==
    ASSUME job \in JobType, MarkCanceled
    PROVE  /\ job' \in JobType /\ job'.order = job.order /\ RecordKept
           /\ job'.status = job.status \/ (Active /\ job'.status = "canceling")
<1>1. CASE Active
  BY <1>1, JobCancels DEF MarkCanceled, RecordKept
<1>2. CASE ~Active
  BY <1>2 DEF MarkCanceled, RecordKept
<1> QED BY <1>1, <1>2

LEMMA CallerSteps ==
    ASSUME Inv, NEW c \in Callers, AskCancel(c) \/ CallerStep(c)
    PROVE  Inv'
<1>1. /\ UNCHANGED <<file, request, outbox, queue, publisher, workers, coord, rows, engine,
                     vols, linked, builds, faults, source>>
      /\ project' \in {project, "canceling"}
      /\ job' = job \/ MarkCanceled
      /\ \E pc \in {"idle", "write", "mark", "done"} :
             callers' = [callers EXCEPT ![c] = pc]
  BY DEF AskCancel, CallerStep, WriteCanceling, RequestCancel, Heard, delivery, resources
<1>2. TypeOK
  BY Found
<1>3. callers' \in [Callers -> {"idle", "read", "write", "mark", "done"}]
  BY <1>1, <1>2 DEF TypeOK
<1>4. /\ job' \in JobType /\ job'.order = job.order /\ RecordKept
      /\ job'.status = job.status \/ (Active /\ job'.status = "canceling")
  BY <1>1, <1>2, MarkTyped DEF TypeOK, RecordKept
<1>5. OthersRest /\ BuildsKept
  BY <1>1 DEF OthersRest, BuildsKept
<1>6. ResourcesTyped'
  BY <1>1, <1>2 DEF TypeOK, ResourcesTyped
<1>7. /\ job.status = "none" => job'.status = "none"
      /\ job'.stage = job.stage
  BY <1>4 DEF Active, RecordKept
<1>8. project' \in Projects /\ source' \in Sources /\ coord' \in CoordType
  BY <1>1, <1>2 DEF TypeOK, Projects, ProjectStatuses, Sources
<1>9. coord'.pc \in Cleaning => coord'.res.cleanup \in {"failed", "canceled"}
  BY <1>1 DEF Inv, Outcomes
<1>10. Typed' /\ Quiet' /\ Outcomes'
  BY <1>1, <1>3, <1>4, <1>5, <1>6, <1>7, <1>8, <1>9, OthersKeep
<1>11. Clean' /\ Ordered'
  BY <1>1, <1>4, <1>5, <1>10, Found, ElsewhereKeeps
<1> QED BY <1>10, <1>11 DEF Inv

-----------------------------------------------------------------------------
(* What the resources do *)

LEMMA ContainersKeep ==
    ASSUME Inv, UNCHANGED <<Elsewhere, callers, vols, linked, builds>>,
           rows' \in [Services -> RowStatuses], engine' \in [Services -> EngineStates],
           faults' = faults \/ \E p \in Faults : Fault(p),
           \A t \in Services : /\ rows[t] = "none" => rows'[t] = "none"
                               /\ rows'[t] = "deleting" => rows[t] = "deleting"
                               /\ rows'[t] = "starting" => rows[t] = "starting",
           Containers',
           \/ \A t \in Services : Forward(t)
           \/ \E t \in Services : rows[t] = "deleting"
    PROVE  Inv'
<1>1. /\ file' = file /\ request' = request /\ job' = job /\ coord' = coord
      /\ project' = project /\ source' = source /\ callers' = callers /\ builds' = builds
      /\ vols' = vols /\ linked' = linked /\ OthersRest
  BY DEF Elsewhere, delivery, OthersRest
<1>2. Planned' = Planned /\ File' = File /\ Deployable' = Deployable
  BY <1>1, SamePlan
<1>3. TypeOK
  BY Found
<1>4. ResourcesTyped'
  BY <1>1, <1>3 DEF TypeOK, ResourcesTyped
<1>5. Typed' /\ Quiet' /\ Outcomes'
  <2>1. project' \in Projects /\ source' \in Sources /\ coord' \in CoordType
        /\ job' \in JobType
        /\ callers' \in [Callers -> {"idle", "read", "write", "mark", "done"}]
    BY <1>1, <1>3 DEF TypeOK, Projects, Sources
  <2>2. coord'.pc \in Cleaning => coord'.res.cleanup \in {"failed", "canceled"}
    BY <1>1 DEF Inv, Outcomes
  <2> QED BY <1>1, <1>4, <2>1, <2>2, OthersKeep
<1>6. Clean'
  <2>1. coord.res.containers \subseteq Services
    BY <1>3 DEF TypeOK, CoordType, ResourceType
  <2> QED BY <1>1, <1>2, <2>1 DEF Inv, Clean, Recorded
<1>7. Builds' /\ Volumes'
  <2>1. \A v \in VolumeNames : Settled(v)' <=> Settled(v)
    BY <1>1 DEF Settled
  <2>2. job.res.volumes \subseteq VolumeNames /\ coord.res.volumes \subseteq VolumeNames
    BY <1>3 DEF TypeOK, JobType, CoordType, ResourceType
  <2>3. AllBuilt' <=> AllBuilt
    BY <1>1, <1>2 DEF AllBuilt
  <2>4. Builds /\ Volumes
    BY DEF Inv, Ordered
  <2>5. Builds'
    BY <1>1, <1>2, <2>3, <2>4 DEF Builds, Began
  <2>6. Volumes'
    BY <1>1, <1>2, <2>1, <2>2, <2>4 DEF Volumes, Began
  <2> QED BY <2>5, <2>6
<1>8. Starts'
  <2>1. Starts /\ Containers
    BY DEF Inv, Ordered
  <2>2. ASSUME job.stage = "starting" \/ coord.pc \in StartingPcs, NEW s \in Named(File)
        PROVE  Starting(s)'
    <3>1. \A t \in Named(File) : Starting(t)
      BY <2>1, <2>2 DEF Starts
    <3>2. \A t \in Services : rows[t] # "deleting"
      BY <2>1, <3>1 DEF Starting, Containers
    <3>3. \A t \in Services : Forward(t)
      BY <3>2
    <3>4. coord.pc \in StartingPcs => coord.pc # "idle"
      BY DEF StartingPcs
    <3>5. Deployable[file]
      BY <2>2, <3>4, Found, Queued
    <3>6. s \in Services
      BY <1>3, FileTyped
    <3> QED BY <1>1, <1>3, <3>1, <3>2, <3>3, <3>5, <3>6, StartingKept
  <2> QED BY <1>1, <1>2, <2>1, <2>2 DEF Starts
<1>9. Ordered'
  BY <1>1, <1>2, <1>7, <1>8 DEF Inv, Ordered
<1> QED BY <1>5, <1>6, <1>9 DEF Inv

\* The row and the container of one service change.
LEMMA ContainerMoves ==
    ASSUME Inv, NEW s \in Services, NEW row \in RowStatuses, NEW state \in EngineStates,
           rows' = [rows EXCEPT ![s] = row], engine' = [engine EXCEPT ![s] = state],
           UNCHANGED <<Elsewhere, callers, vols, linked, builds>>,
           faults' = faults \/ \E p \in Faults : Fault(p),
           row # rows[s] => rows[s] # "none" /\ row \notin {"deleting", "starting"},
           row \in {"none", "creating"} => state = "none",
           row \in {"created", "starting"} => state = "created",
           Forward(s) \/ rows[s] = "deleting"
    PROVE  Inv'
<1>1. rows \in [Services -> RowStatuses] /\ engine \in [Services -> EngineStates]
  BY Found DEF TypeOK
<1>2. /\ rows' \in [Services -> RowStatuses] /\ engine' \in [Services -> EngineStates]
      /\ rows'[s] = row /\ engine'[s] = state
      /\ \A t \in Services \ {s} : rows'[t] = rows[t] /\ engine'[t] = engine[t]
  BY <1>1
<1>3. \A t \in Services : /\ rows[t] = "none" => rows'[t] = "none"
                          /\ rows'[t] = "deleting" => rows[t] = "deleting"
                          /\ rows'[t] = "starting" => rows[t] = "starting"
  BY <1>2
<1>4. Containers'
  <2>1. File' = File
    BY SamePlan DEF Elsewhere
  <2>2. Containers
    BY DEF Inv, Ordered
  <2> QED BY <1>2, <1>3, <2>1, <2>2 DEF Containers
<1>5. \A t \in Services \ {s} : Forward(t)
  BY <1>2 DEF Forward
<1> QED BY <1>2, <1>3, <1>4, <1>5, ContainersKeep

LEMMA ContainerSteps ==
    ASSUME Inv, NEW s \in Services, ContainerStep(s) \/ Breaks(s) \/ GetsHealthy(s)
           \/ TurnsUnhealthy(s)
    PROVE  Inv'
<1>1. rows \in [Services -> RowStatuses] /\ engine \in [Services -> EngineStates]
  BY Found DEF TypeOK
<1>2. /\ rows[s] \in {"none", "creating"} => engine[s] = "none"
      /\ rows[s] \in {"created", "starting"} => engine[s] = "created"
      /\ rows[s] \in RowStatuses /\ engine[s] \in EngineStates
  BY <1>1 DEF Inv, Ordered, Containers
<1>3. UNCHANGED <<Elsewhere, callers, vols, linked, builds>>
  BY DEF ContainerStep, CreationEnds, StartEnds, DeletionEnds, Completes, Follow, Breaks,
     GetsHealthy, TurnsUnhealthy
<1>4. faults' = faults \/ \E p \in Faults : Fault(p)
  BY DEF ContainerStep, CreationEnds, StartEnds, DeletionEnds, Completes, Follow, Breaks,
     GetsHealthy, TurnsUnhealthy, Faults
<1>5. ASSUME NEW row \in RowStatuses, rows' = [rows EXCEPT ![s] = row], engine' = engine,
             row # rows[s] => rows[s] # "none" /\ row \in {"error", "exited", "broken"}
      PROVE  Inv'
  <2>1. engine' = [engine EXCEPT ![s] = engine[s]]
    BY <1>1, <1>5
  <2>2. Forward(s)
    BY <1>5 DEF Forward
  <2> QED BY <1>2, <1>3, <1>4, <1>5, <2>1, <2>2, ContainerMoves
<1>6. ASSUME NEW state \in EngineStates, engine' = [engine EXCEPT ![s] = state], rows' = rows,
             engine[s] \in Up, state \in {"healthy", "unhealthy", "exited", "broken"}
      PROVE  Inv'
  <2>1. rows' = [rows EXCEPT ![s] = rows[s]] /\ engine'[s] = state
    BY <1>1, <1>6
  <2>2. Forward(s)
    BY <1>6, <2>1 DEF Forward
  <2> QED BY <1>2, <1>3, <1>4, <1>6, <2>1, <2>2, ContainerMoves DEF Up
<1>7. ASSUME NEW row \in {"created", "running", "none"},
             NEW state \in {"created", "running", "none"},
             rows' = [rows EXCEPT ![s] = row], engine' = [engine EXCEPT ![s] = state],
             row = state,
             \/ rows[s] \in {"creating", "starting"}
             \/ rows[s] = "deleting"
      PROVE  Inv'
  <2>1. row \in RowStatuses /\ state \in EngineStates
    BY DEF RowStatuses, EngineStates
  <2>2. Forward(s) \/ rows[s] = "deleting"
    BY <1>2, <1>7 DEF Forward
  <2> QED BY <1>2, <1>3, <1>4, <1>7, <2>1, <2>2, ContainerMoves
<1>8. /\ "error" \in RowStatuses /\ "exited" \in RowStatuses /\ "broken" \in RowStatuses
      /\ "exited" \in EngineStates /\ "broken" \in EngineStates /\ "healthy" \in EngineStates
      /\ "unhealthy" \in EngineStates
  BY DEF RowStatuses, EngineStates
<1>9. CASE CreationEnds(s)
  BY <1>5, <1>7, <1>8, <1>9 DEF CreationEnds
<1>10. CASE StartEnds(s)
  BY <1>5, <1>7, <1>8, <1>10 DEF StartEnds
<1>11. CASE DeletionEnds(s)
  BY <1>5, <1>7, <1>8, <1>11 DEF DeletionEnds
<1>12. CASE Completes(s)
  BY <1>6, <1>8, <1>12 DEF Completes
<1>13. CASE Breaks(s)
  BY <1>6, <1>8, <1>13 DEF Breaks
<1>14. CASE GetsHealthy(s)
  BY <1>6, <1>8, <1>14 DEF GetsHealthy, Up
<1>15. CASE TurnsUnhealthy(s)
  BY <1>6, <1>8, <1>15 DEF TurnsUnhealthy, Up
<1>16. CASE Follow(s)
  BY <1>5, <1>8, <1>16 DEF Follow
<1> QED BY <1>9, <1>10, <1>11, <1>12, <1>13, <1>14, <1>15, <1>16 DEF ContainerStep

LEMMA BuildEndsStep ==
    ASSUME Inv, NEW s \in Services, BuildEnds(s)
    PROVE  Inv'
<1>1. /\ UNCHANGED <<file, request, project, job, source, outbox, queue, publisher, workers,
                     coord, rows, engine, vols, linked, faults>>
      /\ builds[s] = "running"
      /\ \E end \in {"success", "failed", "canceled"} : builds' = [builds EXCEPT ![s] = end]
      /\ callers' = callers \/ callers' = [callers EXCEPT ![s] = "read"]
  BY DEF BuildEnds, Elsewhere, delivery, containers
<1>2. TypeOK
  BY Found
<1>3. builds' \in [Services -> BuildStatuses] /\ BuildsKept
  BY <1>1, <1>2 DEF TypeOK, BuildStatuses, BuildsKept
<1>4. callers' \in [Callers -> {"idle", "read", "write", "mark", "done"}]
  BY <1>1, <1>2 DEF TypeOK
<1>5. OthersRest /\ RecordKept /\ ResourcesTyped'
  BY <1>1, <1>2, <1>3 DEF OthersRest, RecordKept, TypeOK, ResourcesTyped
<1>6. project' \in Projects /\ source' \in Sources /\ coord' \in CoordType /\ job' \in JobType
  BY <1>1, <1>2 DEF TypeOK, Projects, Sources
<1>7. coord'.pc \in Cleaning => coord'.res.cleanup \in {"failed", "canceled"}
  BY <1>1 DEF Inv, Outcomes
<1>8. Typed' /\ Quiet' /\ Outcomes'
  BY <1>1, <1>4, <1>5, <1>6, <1>7, OthersKeep
<1>9. Clean' /\ Ordered'
  BY <1>1, <1>3, <1>5, <1>8, Found, ElsewhereKeeps
<1> QED BY <1>8, <1>9 DEF Inv

LEMMA VolumeEndsStep ==
    ASSUME Inv, NEW v \in VolumeNames, VolumeEnds(v)
    PROVE  Inv'
<1>1. /\ UNCHANGED <<file, request, project, job, source, outbox, queue, publisher, workers,
                     coord, callers, rows, engine, builds>>
      /\ vols[v] \in {"creating", "deleting"}
      /\ \E st \in VolumeStatuses :
            /\ vols' = [vols EXCEPT ![v] = st]
            /\ vols[v] = "creating" => st \notin {"none", "deleting"}
      /\ linked' \in {linked, linked \ {v}}
  BY DEF VolumeEnds, VolumeStatuses, Elsewhere, delivery, containers
<1>2. TypeOK
  BY Found
<1>3. faults' = faults \/ \E p \in Faults : Fault(p)
  BY DEF VolumeEnds, Faults
<1>4. /\ vols' \in [VolumeNames -> VolumeStatuses] /\ VolumesKept
      /\ \A u \in VolumeNames : vols[u] = "none" => vols'[u] = "none"
  BY <1>1, <1>2 DEF TypeOK, VolumesKept, Settled
<1>5. OthersRest /\ ResourcesTyped'
  BY <1>1, <1>2, <1>4 DEF OthersRest, TypeOK, ResourcesTyped
<1>6. project' \in Projects /\ source' \in Sources /\ coord' \in CoordType /\ job' \in JobType
      /\ callers' \in [Callers -> {"idle", "read", "write", "mark", "done"}]
  BY <1>1, <1>2 DEF TypeOK, Projects, Sources
<1>7. coord'.pc \in Cleaning => coord'.res.cleanup \in {"failed", "canceled"}
  BY <1>1 DEF Inv, Outcomes
<1>8. Typed' /\ Quiet' /\ Outcomes'
  BY <1>1, <1>3, <1>5, <1>6, <1>7, OthersKeep
<1>9. Planned' = Planned /\ File' = File /\ Deployable' = Deployable
  BY <1>1, SamePlan
<1>10. job.res.volumes \subseteq VolumeNames /\ coord.res.volumes \subseteq VolumeNames
       /\ coord.res.created \subseteq VolumeNames
  BY <1>2 DEF TypeOK, JobType, CoordType, ResourceType
<1>11. Clean'
  BY <1>1, <1>4, <1>9, <1>10 DEF Inv, Clean, Recorded
<1>12. Builds' /\ Containers' /\ Starts'
  <2>1. Builds /\ Containers /\ Starts
    BY DEF Inv, Ordered
  <2>2. AllBuilt' <=> AllBuilt
    BY <1>1, <1>9 DEF AllBuilt
  <2>3. \A s \in Named(File) : Starting(s)' <=> Starting(s)
    BY <1>1, <1>9 DEF Starting
  <2>4. Builds'
    BY <1>1, <1>9, <2>1, <2>2 DEF Builds, Began
  <2>5. Containers' /\ Starts'
    BY <1>1, <1>9, <2>1, <2>3 DEF Containers, Starts
  <2> QED BY <2>4, <2>5
<1>13. Volumes'
  <2>1. Volumes
    BY DEF Inv, Ordered
  <2> QED BY <1>1, <1>4, <1>9, <1>10, <2>1 DEF Volumes, VolumesKept, Began
<1>14. Ordered'
  BY <1>1, <1>9, <1>12, <1>13 DEF Inv, Ordered
<1> QED BY <1>8, <1>11, <1>14 DEF Inv

-----------------------------------------------------------------------------
(* Restart of Core *)

Busy == {w \in Workers : workers[w].pc # "idle"}
LEMMA NothingAdded ==
    ASSUME NEW a, NEW b, NEW c, a = b + c, b = 0, c = 0
    PROVE  a = 0
OBVIOUS
LEMMA BusyCounted ==
    /\ Cardinality(Busy) \in Nat
    /\ Busy # {} => Cardinality(Busy) > 0
    /\ Busy = {} => Cardinality(Busy) = 0
<1>1. IsFiniteSet(Busy)
  BY DeploymentConstants, FS_Subset DEF Busy
<1>2. Cardinality(Busy) \in Nat /\ (Cardinality(Busy) = 0 <=> Busy = {})
  BY <1>1, FS_CardinalityType, FS_EmptySet
<1> QED BY <1>2

\* A job that is queued again has a message to be published.
LEMMA RecoveredTyped ==
    ASSUME TypeOK, Recovered
    PROVE  /\ job' \in JobType /\ job'.order = job.order /\ RecordKept
           /\ project' \in Projects
           /\ outbox' \in {"none", "pending", "publishing", "published", "discarded"}
           /\ job.status = "none" => job' = job /\ outbox' = outbox
           /\ \/ job'.status = job.status /\ outbox' = outbox
              \/ Underway /\ job'.status = "failed" /\ outbox' = outbox
              \/ Underway /\ job'.status = "queued" /\ outbox' = "pending"
<1>1. \/ job' = job /\ project' = project /\ outbox' = outbox
      \/ /\ Underway /\ job' = [job EXCEPT !.status = "failed"] /\ project' = "failed"
         /\ outbox' = outbox
      \/ /\ Underway /\ job' = [job EXCEPT !.status = "queued"] /\ project' = "building"
         /\ outbox' = "pending"
  BY DEF Recovered
<1>2. Underway => job.status # "none"
  BY DEF Underway
<1>3. "failed" \in JobStatuses /\ "queued" \in JobStatuses /\ "building" \in Projects
      /\ "failed" \in Projects
  BY DEF JobStatuses, Projects, ProjectStatuses
<1>4. job \in JobType /\ project \in Projects
      /\ outbox \in {"none", "pending", "publishing", "published", "discarded"}
  BY DEF TypeOK, Projects
<1>5. CASE job' = job /\ project' = project /\ outbox' = outbox
  BY <1>4, <1>5 DEF RecordKept
<1>6. CASE /\ Underway /\ job' = [job EXCEPT !.status = "failed"] /\ project' = "failed"
           /\ outbox' = outbox
  BY <1>2, <1>3, <1>4, <1>6, JobStatus DEF RecordKept
<1>7. CASE /\ Underway /\ job' = [job EXCEPT !.status = "queued"] /\ project' = "building"
           /\ outbox' = "pending"
  BY <1>2, <1>3, <1>4, <1>7, JobStatus DEF RecordKept
<1> QED BY <1>1, <1>5, <1>6, <1>7

\* The coordinator forgets its tick.
LEMMA RestKeeps ==
    ASSUME Inv, Typed', file' = file, request' = "queued" => Deployable[file],
           coord' = IdleCoord, UNCHANGED <<rows, engine, vols, builds>>, RecordKept
    PROVE  Outcomes' /\ Clean' /\ Ordered'
<1>1. coord'.pc = "idle" /\ coord'.res = NoResources
  BY CoordRests
<1>2. Planned' = Planned /\ File' = File /\ Deployable' = Deployable
  BY SamePlan
<1>3. /\ coord'.pc \notin Cleaning /\ coord'.pc \notin BuildingPcs
      /\ coord'.pc \notin CreatingPcs /\ coord'.pc \notin StartingPcs
      /\ coord'.pc \notin CleanupPcs /\ coord'.pc \notin {"containers", "saveContainer"}
      /\ coord'.pc # "saveCreating" /\ coord'.pc # "checkBuilds" /\ coord'.pc # "deleteVolumes"
  BY <1>1 DEF Cleaning, BuildingPcs, CreatingPcs, StartingPcs, CleanupPcs
<1>4. Outcomes'
  BY <1>3 DEF Outcomes, Cleaning
<1>5. Clean'
  <2>1. Recorded(job.res)
    BY DEF Inv, Clean
  <2>2. Recorded(job.res)'
    BY <1>2, <2>1 DEF Recorded, RecordKept
  <2>3. NoResources.created = {}
    BY DEF NoResources
  <2>4. Recorded(coord.res)'
    BY <1>1, <2>3 DEF Recorded
  <2> QED BY <1>3, <2>2, <2>4 DEF Clean, Cleaning
<1>6. Began' <=> Began
  BY DEF Began, RecordKept
<1>7. Builds'
  <2>1. AllBuilt' <=> AllBuilt
    BY <1>2 DEF AllBuilt
  <2>2. coord'.pc \notin {"saveCreating"} \cup CreatingPcs \cup StartingPcs
    BY <1>3
  <2>3. Builds
    BY DEF Inv, Ordered
  <2> QED BY <1>3, <1>6, <2>1, <2>2, <2>3 DEF Builds
<1>8. Volumes'
  <2>1. \A v \in job.res.volumes : Settled(v)' <=> Settled(v)
    BY DEF Settled
  <2>2. Volumes
    BY DEF Inv, Ordered
  <2> QED BY <1>3, <1>6, <2>1, <2>2 DEF Volumes, RecordKept
<1>9. Containers' /\ Starts'
  <2>1. Containers /\ Starts
    BY DEF Inv, Ordered
  <2>2. \A s \in Named(File) : Starting(s)' <=> Starting(s)
    BY <1>2 DEF Starting
  <2>3. Containers'
    BY <1>2, <2>1 DEF Containers
  <2>4. Starts'
    BY <1>2, <1>3, <2>1, <2>2 DEF Starts, RecordKept
  <2> QED BY <2>3, <2>4
<1> QED BY <1>2, <1>4, <1>5, <1>7, <1>8, <1>9 DEF Ordered

LEMMA CrashStep ==
    ASSUME Inv, Crash
    PROVE  Inv'
<1>1. /\ Fault("crash") /\ publisher' = "idle" /\ coord' = IdleCoord
      /\ workers' = [w \in Workers |-> IdleWorker]
      /\ callers' = [c \in Callers |-> IF callers[c] = "idle" THEN "idle" ELSE Heard(c)]
      /\ queue' = queue + Cardinality(Busy)
      /\ request' \in {request, "rejected"} /\ Recovered
      /\ request = "queued" => request' = "queued"
      /\ UNCHANGED <<file, source, rows, engine, vols, linked, builds>>
  BY DEF Crash, Busy, resources
<1>2. TypeOK
  BY Found
<1>3. faults' \in 0..MaxFaults'[file']
  <2>1. \E p \in Faults : Fault(p)
    BY <1>1 DEF Faults
  <2> QED BY <1>1, <1>2, <2>1, FaultsTyped
<1>4. callers' \in [Callers -> {"idle", "read", "write", "mark", "done"}]
  BY <1>1, <1>2 DEF TypeOK, Heard
<1>5. IdleWorker \in WorkerType
  BY NoResTyped DEF IdleWorker, WorkerType, OrderSet
<1>6. workers' \in [Workers -> WorkerType] /\ \A w \in Workers : workers'[w] = IdleWorker
  BY <1>1, <1>5
<1>7. queue' \in Nat /\ queue \in Nat
  BY <1>1, <1>2, BusyCounted DEF TypeOK
<1>8. TypeOK'
  <2>1. job' \in JobType /\ project' \in Projects
        /\ outbox' \in {"none", "pending", "publishing", "published", "discarded"}
    BY <1>1, <1>2, RecoveredTyped
  <2>2. coord' \in CoordType
    BY <1>1, CoordRests
  <2> QED BY <1>1, <1>2, <1>3, <1>4, <1>6, <1>7, <2>1, <2>2 DEF TypeOK, Projects
<1>9. Typed'
  <2>1. job'.order = job.order /\ OrdersOfFile' = OrdersOfFile
    BY <1>1, <1>2, RecoveredTyped, SamePlan
  <2> QED BY <1>6, <1>8, <2>1, Found, IdleBare DEF Typed, Bare
<1>10. Quiet'
  <2>1. ASSUME request' # "queued"
        PROVE  /\ job'.status = "none" /\ job'.stage = "" /\ outbox' = "none" /\ queue' = 0
    <3>1. CASE request # "queued"
      <4>1. Busy = {} /\ job.status = "none" /\ outbox = "none" /\ queue = 0 /\ job.stage = ""
        BY <3>1, Found DEF Quiet, Busy
      <4>2. queue' = 0
        <5>1. Cardinality(Busy) = 0
          BY <4>1, BusyCounted
        <5>2. queue' = queue + Cardinality(Busy)
          BY <1>1
        <5>3. queue = 0
          BY <4>1
        <5> QED BY <5>1, <5>2, <5>3, NothingAdded
      <4> QED BY <1>1, <1>2, <4>1, <4>2, RecoveredTyped
    <3>2. CASE request = "queued"
      BY <1>1, <2>1, <3>2
    <3> QED BY <3>1, <3>2
  <2>2. coord'.pc = "idle" /\ \A w \in Workers : workers'[w].pc = "idle"
    BY <1>1, <1>6, CoordRests, IdleBare
  <2> QED BY <1>1, <2>1, <2>2 DEF Quiet
<1>12. RecordKept /\ (request' = "queued" => Deployable[file])
  BY <1>1, <1>2, RecoveredTyped, Found
<1>13. Outcomes' /\ Clean' /\ Ordered'
  BY <1>1, <1>9, <1>12, RestKeeps
<1> QED BY <1>9, <1>10, <1>13 DEF Inv

-----------------------------------------------------------------------------
(* The coordinator: what its steps have in common *)

Unmoved == UNCHANGED <<rows, engine, vols, linked, builds>>
FaultsStep == faults' = faults \/ \E p \in Faults : Fault(p)

LEMMA CoordKnows ==
    ASSUME Inv, coord.pc # "idle" \/ job.status # "none"
    PROVE  /\ request = "queued" /\ Deployable[file] /\ TypeOK
           /\ job \in JobType /\ coord \in CoordType /\ coord.res \in ResourceType
           /\ project \in Projects /\ source \in Sources
           /\ builds \in [Services -> BuildStatuses]
           /\ rows \in [Services -> RowStatuses] /\ vols \in [VolumeNames -> VolumeStatuses]
           /\ Recorded(coord.res) /\ Recorded(job.res)
           /\ Builds /\ Volumes /\ Containers /\ Starts
<1>1. request = "queued"
  BY Found, Queued
<1>2. TypeOK
  BY Found
<1>3. coord.res \in ResourceType
  BY <1>2 DEF TypeOK, CoordType
<1> QED BY <1>1, <1>2, <1>3 DEF Inv, TypeOK, Projects, Sources, Clean, Ordered

LEMMA NoWorkRests ==
    /\ UNCHANGED NoWork => OthersRest /\ callers' = callers /\ source' = source
    /\ UNCHANGED <<file, request, delivery, workers, callers>> => OthersRest /\ callers' = callers
BY DEF NoWork, OthersRest, delivery

\* The tick ends.
LEMMA Rests ==
    ASSUME Inv, coord.pc # "idle", Rest, OthersRest, callers' = callers, project' = project,
           job' = job, source' \in Sources, Unmoved, FaultsStep
    PROVE  Inv'
<1>1. coord' \in CoordType /\ coord'.pc \in AsidePcs /\ Recorded(coord'.res)
  <2>1. coord' \in CoordType /\ coord'.pc = "idle" /\ coord'.res = NoResources
    BY CoordRests DEF Rest
  <2>2. Recorded(NoResources)
    BY DEF Recorded, NoResources
  <2> QED BY <2>1, <2>2 DEF AsidePcs
<1>2. RecordKept /\ BuildsKept /\ builds' \in [Services -> BuildStatuses]
  BY CoordKnows DEF RecordKept, BuildsKept, Unmoved
<1> QED BY <1>1, <1>2, CoordKnows, Aside DEF Unmoved, FaultsStep

\* It turns aside: to failing, to a cancellation, to the end.
LEMMA Turns ==
    ASSUME Inv, coord.pc # "idle", NEW pc \in AsidePcs, Become(pc), OthersRest,
           callers' = callers,
           job' \in JobType, job'.order = job.order, RecordKept,
           project' \in Projects, source' \in Sources, UNCHANGED <<rows, engine, vols, linked>>,
           builds' \in [Services -> BuildStatuses], BuildsKept, FaultsStep
    PROVE  Inv'
<1>1. pc \in CoordPcs
  BY DEF AsidePcs, CoordPcs
<1>2. coord' \in CoordType /\ coord'.pc = pc /\ coord'.res = coord.res
  BY <1>1, CoordKnows, CoordBecomes DEF Become
<1>3. Recorded(coord'.res)
  BY <1>2, CoordKnows
<1> QED BY <1>2, <1>3, CoordKnows, Aside DEF FaultsStep

LEMMA TurnsOnly ==
    ASSUME Inv, coord.pc # "idle", NEW pc \in AsidePcs, Become(pc), OthersRest,
           callers' = callers, job' = job, project' \in Projects, source' \in Sources,
           Unmoved, FaultsStep
    PROVE  Inv'
<1>1. RecordKept /\ BuildsKept /\ builds' \in [Services -> BuildStatuses] /\ job' \in JobType
  BY CoordKnows DEF RecordKept, BuildsKept, Unmoved
<1> QED BY <1>1, Turns DEF Unmoved

\* It goes on: the parts of the invariant, each by itself.
LEMMA GoesOn ==
    ASSUME Inv, OthersRest, coord.pc # "idle" \/ job.status # "none", callers' = callers,
           job' \in JobType, job'.order = job.order, job'.status = job.status,
           project' \in Projects, source' \in Sources, coord' \in CoordType,
           coord'.pc \in Cleaning => coord'.res.cleanup \in {"failed", "canceled"},
           ResourcesTyped', FaultsStep, Clean', Builds', Volumes', Containers', Starts'
    PROVE  Inv'
<1>1. callers' \in [Callers -> {"idle", "read", "write", "mark", "done"}]
  BY Found DEF TypeOK
<1>2. Typed' /\ Quiet' /\ Outcomes'
  BY <1>1, CoordKnows, OthersKeep DEF FaultsStep
<1>3. Deployable'[file'] = Deployable[file]
  BY SamePlan DEF OthersRest
<1>4. Ordered'
  BY <1>3, CoordKnows DEF Ordered
<1> QED BY <1>2, <1>4 DEF Inv

\* What the resources say, when they do not move.
LEMMA Unmoving ==
    ASSUME Inv, OthersRest, Unmoved
    PROVE  /\ Planned' = Planned /\ File' = File /\ ResourcesTyped'
           /\ AllBuilt' <=> AllBuilt
           /\ \A v : Settled(v)' <=> Settled(v)
           /\ \A s \in Named(File) : Starting(s)' <=> Starting(s)
           /\ Containers'
           /\ \A s : rows'[s] = rows[s]
           /\ \A v : vols'[v] = vols[v]
<1>1. file' = file /\ Planned' = Planned /\ File' = File
  BY SamePlan DEF OthersRest
<1>2. ResourcesTyped'
  BY Found DEF TypeOK, ResourcesTyped, Unmoved
<1>3. AllBuilt' <=> AllBuilt
  BY <1>1 DEF AllBuilt, Unmoved
<1>4. \A s \in Named(File) : Starting(s)' <=> Starting(s)
  BY <1>1 DEF Starting, Unmoved
<1>5. Containers'
  BY <1>1 DEF Inv, Ordered, Containers, Unmoved
<1> QED BY <1>1, <1>2, <1>3, <1>4, <1>5 DEF Settled, Unmoved

\* It records its progress and goes on from there, or rests.
LEMMA Saves ==
    ASSUME Inv, coord.pc # "idle", NEW sg \in Stages, NEW st \in Projects,
           NEW pc \in CoordPcs \ Cleaning, Saving(sg, st, pc),
           /\ job'.stage = sg /\ job'.res = coord.res /\ coord'.pc = pc
           /\ coord'.res = coord.res \/ pc = "idle"
           /\ Planned' = Planned /\ File' = File
           /\ AllBuilt' <=> AllBuilt
           /\ \A v : Settled(v)' <=> Settled(v)
           /\ \A s \in Named(File) : Starting(s)' <=> Starting(s)
           => Builds' /\ Volumes' /\ Starts'
    PROVE  Inv'
<1>1. UNCHANGED <<NoWork, resources, faults>>
  BY DEF Saving
<1>2. OthersRest /\ callers' = callers /\ source' = source /\ Unmoved /\ FaultsStep
  BY <1>1, NoWorkRests DEF resources, Unmoved, FaultsStep
<1>3. CASE ~Underway /\ Rest /\ UNCHANGED <<job, project>>
  BY <1>2, <1>3, CoordKnows, Rests
<1>4. CASE /\ Underway /\ Save(sg, st, coord.res)
           /\ IF pc = "idle" THEN Rest ELSE Become(pc)
  <2>1. job' = [job EXCEPT !.stage = sg, !.res = coord.res] /\ project' = st
    BY <1>4 DEF Save
  <2>2. /\ job' \in JobType /\ job'.order = job.order /\ job'.status = job.status
        /\ job'.stage = sg /\ job'.res = coord.res
    BY <2>1, CoordKnows, JobSaved
  <2>3. CASE pc = "idle"
    <3>1. coord' \in CoordType /\ coord'.pc = pc /\ coord'.res = NoResources
      BY <1>4, <2>3, CoordRests DEF Rest
    <3>2. Builds' /\ Volumes' /\ Starts'
      BY <1>2, <2>2, <2>3, <3>1, Unmoving
    <3>3. Clean'
      <4>1. Recorded(job'.res) /\ Recorded(coord'.res)
        <5>1. Recorded(NoResources)
          BY DEF Recorded, NoResources
        <5> QED BY <2>2, <3>1, <5>1, CoordKnows
      <4>2. Planned' = Planned
        BY <1>2, Unmoving
      <4> QED BY <2>3, <3>1, <4>1, <4>2 DEF Clean, Recorded, Cleaning
    <3>4. coord'.pc \notin Cleaning
      BY <2>3, <3>1
    <3> QED BY <1>2, <2>1, <2>2, <3>1, <3>2, <3>3, <3>4, Unmoving, GoesOn, CoordKnows
  <2>4. CASE pc # "idle"
    <3>1. coord' \in CoordType /\ coord'.pc = pc /\ coord'.res = coord.res
      BY <1>4, <2>4, CoordKnows, CoordBecomes DEF Become
    <3>2. Builds' /\ Volumes' /\ Starts'
      BY <1>2, <2>2, <3>1, Unmoving
    <3>3. Clean'
      <4>1. Recorded(job'.res) /\ Recorded(coord'.res)
        BY <2>2, <3>1, CoordKnows
      <4>2. Planned' = Planned
        BY <1>2, Unmoving
      <4> QED BY <3>1, <4>1, <4>2 DEF Clean, Recorded, Cleaning
    <3>4. coord'.pc \notin Cleaning
      BY <3>1
    <3> QED BY <1>2, <2>1, <2>2, <3>1, <3>2, <3>3, <3>4, Unmoving, GoesOn, CoordKnows
  <2> QED BY <2>3, <2>4
<1> QED BY <1>3, <1>4 DEF Saving

-----------------------------------------------------------------------------
(* The coordinator: ticks, failures, cancellations *)

LEMMA AsideIn ==
    /\ "cancelBuilds" \in AsidePcs /\ "cascade" \in AsidePcs /\ "cascadeMark" \in AsidePcs
    /\ "failProject" \in AsidePcs /\ "cancel" \in AsidePcs /\ "saveRollback" \in AsidePcs
    /\ "finishJob" \in AsidePcs /\ "release" \in AsidePcs /\ "idle" \in AsidePcs
BY DEF AsidePcs

LEMMA TickStep ==
    ASSUME Inv, Tick
    PROVE  Inv'
<1> DEFINE branch == IF Canceling THEN "cancel" ELSE
                     CASE job.stage = "building" -> "look"
                       [] job.stage = "creating" -> "volumes"
                       [] job.stage = "starting" -> "starting"
                       [] OTHER -> "cleanup"
<1>1. /\ coord.pc = "idle" /\ Underway
      /\ coord' = [IdleCoord EXCEPT !.pc = branch, !.res = job.res]
      /\ UNCHANGED <<NoWork, project, job, resources, faults>>
  BY DEF Tick, At
<1>2. OthersRest /\ callers' = callers /\ source' = source /\ Unmoved /\ FaultsStep
  BY <1>1, NoWorkRests DEF resources, Unmoved, FaultsStep
<1>3. job.status # "none"
  BY <1>1 DEF Underway
<1>4. \/ branch \in {"cancel"}
      \/ branch = "look" /\ job.stage = "building"
      \/ branch = "volumes" /\ job.stage = "creating"
      \/ branch = "starting" /\ job.stage = "starting"
      \/ branch = "cleanup" /\ job.stage \notin {"creating", "starting"}
  OBVIOUS
<1> HIDE DEF branch
<1>5. branch \in CoordPcs
  BY <1>4 DEF CoordPcs
<1>6. job.res \in ResourceType
  BY <1>3, CoordKnows, JobFields
<1>7. coord' \in CoordType /\ coord'.pc = branch /\ coord'.res = job.res
  BY <1>1, <1>5, <1>6, CoordWakes
<1>8. coord'.pc \notin Cleaning
  BY <1>4, <1>7 DEF Cleaning
<1>9. Clean'
  <2>1. Recorded(job.res)
    BY <1>3, CoordKnows
  <2>2. Planned' = Planned /\ job' = job
    BY <1>1, <1>2, Unmoving
  <2> QED BY <1>7, <1>8, <2>1, <2>2 DEF Clean, Recorded, Cleaning
<1>10. job' = job /\ Builds /\ Volumes /\ Starts
  BY <1>1, <1>3, CoordKnows
<1>11. Builds'
  BY <1>2, <1>4, <1>7, <1>10, Unmoving DEF Builds, Began, CreatingPcs, StartingPcs
<1>12. Volumes'
  BY <1>2, <1>4, <1>7, <1>10, Unmoving
     DEF Volumes, Began, BuildingPcs, CreatingPcs, StartingPcs, CleanupPcs
<1>13. Starts'
  BY <1>2, <1>4, <1>7, <1>10, Unmoving DEF Starts, StartingPcs
<1> QED BY <1>1, <1>2, <1>3, <1>7, <1>8, <1>9, <1>10, <1>11, <1>12, <1>13, Unmoving, GoesOn,
           CoordKnows

LEMMA CoordinatorFailsStep ==
    ASSUME Inv, CoordinatorFails
    PROVE  Inv'
<1>1. coord.pc # "idle" /\ Fault("coordinator") /\ Rest
      /\ UNCHANGED <<NoWork, project, job, resources>>
  BY DEF CoordinatorFails
<1>2. FaultsStep
  BY <1>1 DEF FaultsStep, Faults
<1> QED BY <1>1, <1>2, NoWorkRests, CoordKnows, Rests DEF resources, Unmoved

LEMMA CancelBuildsStep ==
    ASSUME Inv, CancelBuilds
    PROVE  Inv'
<1>1. /\ coord.pc = "cancelBuilds"
      /\ UNCHANGED <<NoWork, project, job, containers, vols, linked, faults>>
      /\ \/ Become("failProject") /\ builds' = builds
         \/ /\ \E s \in coord.res.builds :
                 builds[s] = "running" /\ builds' = [builds EXCEPT ![s] = "canceled"]
            /\ Become("cascade")
  BY DEF CancelBuilds, At
<1>2. builds' \in [Services -> BuildStatuses] /\ BuildsKept
  <2>1. coord.res.builds \subseteq Services
    BY <1>1, CoordKnows DEF ResourceType
  <2> QED BY <1>1, <2>1, CoordKnows DEF BuildStatuses, BuildsKept
<1>3. RecordKept /\ FaultsStep
  BY <1>1 DEF RecordKept, FaultsStep
<1>4. OthersRest /\ callers' = callers /\ source' = source
      /\ UNCHANGED <<rows, engine, vols, linked>>
  BY <1>1, NoWorkRests DEF containers
<1> QED BY <1>1, <1>2, <1>3, <1>4, AsideIn, CoordKnows, Turns

LEMMA CascadeStep ==
    ASSUME Inv, Cascade
    PROVE  Inv'
<1>1. /\ coord.pc = "cascade" /\ UNCHANGED <<NoWork, job, resources, faults>>
      /\ project' \in {project, "canceling"}
      /\ Become("cascadeMark") \/ Become("cancelBuilds")
  BY DEF Cascade, At
<1>2. OthersRest /\ callers' = callers /\ source' = source /\ Unmoved /\ FaultsStep
  BY <1>1, NoWorkRests DEF resources, Unmoved, FaultsStep
<1>3. project' \in Projects
  BY <1>1, CoordKnows DEF Projects, ProjectStatuses
<1> QED BY <1>1, <1>2, <1>3, AsideIn, CoordKnows, TurnsOnly

LEMMA CascadeMarkStep ==
    ASSUME Inv, CascadeMark
    PROVE  Inv'
<1>1. /\ coord.pc = "cascadeMark" /\ UNCHANGED <<NoWork, project, resources, faults>>
      /\ MarkCanceled /\ Become("cancelBuilds")
  BY DEF CascadeMark, At
<1>2. OthersRest /\ callers' = callers /\ source' = source /\ Unmoved /\ FaultsStep
  BY <1>1, NoWorkRests DEF resources, Unmoved, FaultsStep
<1>3. /\ job' \in JobType /\ job'.order = job.order /\ RecordKept
      /\ job'.status = job.status \/ (Active /\ job'.status = "canceling")
  BY <1>1, CoordKnows, MarkTyped
<1>4. BuildsKept
  BY <1>2 DEF BuildsKept, Unmoved
<1> QED BY <1>1, <1>2, <1>3, <1>4, AsideIn, CoordKnows, Turns DEF Unmoved

\* It notes how the deployment is to end.
LEMMA Decides ==
    ASSUME Inv, coord.pc # "idle", NEW end \in {"failed", "canceled"},
           coord' = [coord EXCEPT !.pc = "saveRollback", !.res.cleanup = end],
           OthersRest, callers' = callers, job' = job, project' \in Projects,
           source' \in Sources, Unmoved, FaultsStep
    PROVE  Inv'
<1> DEFINE r == [coord.res EXCEPT !.cleanup = end]
<1>1. coord' = [coord EXCEPT !.pc = "saveRollback", !.res = r]
  OBVIOUS
<1>2. r \in ResourceType /\ r.created = coord.res.created /\ r.volumes = coord.res.volumes
  <2>1. coord.res \in ResourceType /\ end \in {"", "failed", "canceled"}
    BY CoordKnows
  <2> QED BY <2>1, ResCleanup
<1> HIDE DEF r
<1>3. coord' \in CoordType /\ coord'.pc = "saveRollback" /\ coord'.res = r
  <2>1. "saveRollback" \in CoordPcs
    BY DEF CoordPcs
  <2> QED BY <1>1, <1>2, <2>1, CoordKnows, CoordRecords
<1>4. Recorded(coord'.res)
  BY <1>2, <1>3, CoordKnows DEF Recorded
<1>5. RecordKept /\ BuildsKept /\ builds' \in [Services -> BuildStatuses]
  BY CoordKnows DEF RecordKept, BuildsKept, Unmoved
<1> QED BY <1>3, <1>4, <1>5, AsideIn, CoordKnows, Aside DEF Unmoved, FaultsStep

LEMMA CoordFailsProjectStep ==
    ASSUME Inv, CoordFailsProject
    PROVE  Inv'
<1>1. /\ coord.pc = "failProject" /\ UNCHANGED <<NoWork, job, resources, faults>>
      /\ project' = "failed"
      /\ coord' = [coord EXCEPT !.pc = "saveRollback", !.res.cleanup = "failed"]
  BY DEF CoordFailsProject, At
<1>2. OthersRest /\ callers' = callers /\ source' = source /\ Unmoved /\ FaultsStep
  BY <1>1, NoWorkRests DEF resources, Unmoved, FaultsStep
<1>3. project' \in Projects
  BY <1>1 DEF Projects, ProjectStatuses
<1> QED BY <1>1, <1>2, <1>3, CoordKnows, Decides

LEMMA CoordCancelsStep ==
    ASSUME Inv, CoordCancels
    PROVE  Inv'
<1>1. /\ coord.pc = "cancel"
      /\ UNCHANGED <<file, request, delivery, workers, callers, project, job, resources, faults>>
      /\ source' = "released"
      /\ coord' = [coord EXCEPT !.pc = "saveRollback", !.res.cleanup = "canceled"]
  BY DEF CoordCancels, At
<1>2. OthersRest /\ callers' = callers /\ Unmoved /\ FaultsStep /\ source' \in Sources
  BY <1>1, NoWorkRests DEF resources, Unmoved, FaultsStep, Sources
<1> QED BY <1>1, <1>2, CoordKnows, Decides

LEMMA EndingSteps ==
    ASSUME Inv, FinishProject \/ FinishJob \/ CompleteJob \/ CoordReleases
    PROVE  Inv'
<1>1. /\ coord.pc # "idle" /\ OthersRest /\ callers' = callers /\ Unmoved
      /\ source' \in {source, "released"} /\ project' \in {project, "running"}
  BY NoWorkRests DEF FinishProject, FinishJob, CompleteJob, CoordReleases, At, Cleaned, resources,
     Unmoved, NoWork
<1>2. FaultsStep
  BY DEF FinishProject, FinishJob, CompleteJob, CoordReleases, FaultsStep, Faults
<1>3. project' \in Projects /\ source' \in Sources /\ BuildsKept
      /\ builds' \in [Services -> BuildStatuses]
  BY <1>1, CoordKnows DEF Projects, ProjectStatuses, Sources, BuildsKept, Unmoved
<1>4. CASE FinishProject
  <2>1. /\ job' = job
        /\ \/ Rest /\ project' = project
           \/ Become("finishJob") \/ Become("cancelBuilds")
    BY <1>4 DEF FinishProject
  <2> QED BY <1>1, <1>2, <1>3, <2>1, AsideIn, Rests, TurnsOnly
<1>5. ASSUME NEW st \in {"succeeded", "failed", "canceled"}, Become("release"),
             job' = [job EXCEPT !.status = st]
      PROVE  Inv'
  <2>1. st \in JobStatuses
    BY DEF JobStatuses
  <2>2. job' \in JobType /\ job'.order = job.order /\ RecordKept /\ job'.status = st
    BY <1>1, <1>5, <2>1, CoordKnows, JobStatus DEF RecordKept
  <2> QED BY <1>1, <1>2, <1>3, <1>5, <2>2, AsideIn, Turns DEF Unmoved
<1>6. CASE FinishJob
  <2>1. \/ job' = [job EXCEPT !.status = "succeeded"] /\ Become("release")
        \/ job' = job /\ Become("cancelBuilds")
    BY <1>6 DEF FinishJob
  <2> QED BY <1>1, <1>2, <1>3, <1>5, <2>1, AsideIn, TurnsOnly
<1>7. CASE CompleteJob
  <2>1. job' = [job EXCEPT !.status = coord.res.cleanup] /\ Become("release")
        /\ coord.pc \in Cleaning
    BY <1>7 DEF CompleteJob, Cleaned, At, Cleaning
  <2>2. coord.res.cleanup \in {"failed", "canceled"}
    BY <2>1 DEF Inv, Outcomes
  <2> QED BY <1>5, <2>1, <2>2
<1>8. CASE CoordReleases
  <2>1. job' = job /\ project' = project /\ Rest
    BY <1>8 DEF CoordReleases
  <2> QED BY <1>1, <1>2, <1>3, <2>1, Rests
<1> QED BY <1>4, <1>6, <1>7, <1>8

-----------------------------------------------------------------------------
(* The coordinator: building *)

\* It notes builds, that were there or that it triggered.
LEMMA CoordNotes ==
    ASSUME Inv, coord.pc \in {"look", "trigger"}, NEW B \in SUBSET Services,
           coord' = [coord EXCEPT !.pc = "trigger", !.res.builds = @ \cup B],
           OthersRest, callers' = callers, job' = job, project' = project, source' = source,
           UNCHANGED <<rows, engine, vols, linked, faults>>,
           builds' \in [Services -> BuildStatuses], BuildsKept
    PROVE  Inv'
<1> DEFINE r == [coord.res EXCEPT !.builds = coord.res.builds \cup B]
<1>1. coord' = [coord EXCEPT !.pc = "trigger", !.res = r]
  OBVIOUS
<1>2. coord.res \in ResourceType /\ coord \in CoordType
  BY CoordKnows
<1>3. coord.res.builds \cup B \in SUBSET Services
  BY <1>2 DEF ResourceType
<1>4. r \in ResourceType /\ r.volumes = coord.res.volumes /\ r.created = coord.res.created
      /\ r.containers = coord.res.containers
  BY <1>2, <1>3, ResBuilds
<1> HIDE DEF r
<1>5. coord' \in CoordType /\ coord'.pc = "trigger" /\ coord'.res = r
  <2>1. "trigger" \in CoordPcs
    BY DEF CoordPcs
  <2> QED BY <1>1, <1>2, <1>4, <2>1, CoordRecords
<1>6. file' = file /\ Planned' = Planned /\ File' = File
  BY SamePlan DEF OthersRest
<1>7. ResourcesTyped'
  BY CoordKnows, Found DEF ResourcesTyped, TypeOK
<1>8. Clean'
  BY <1>4, <1>5, <1>6, CoordKnows DEF Clean, Recorded, Cleaning
<1>9. Builds'
  <2>1. Builds /\ (AllBuilt => AllBuilt')
    BY <1>6, CoordKnows, AllBuiltKept
  <2> QED BY <1>5, <2>1 DEF Builds, Began, CreatingPcs, StartingPcs
<1>10. Volumes'
  <2>1. Volumes /\ coord.pc \in BuildingPcs
    BY CoordKnows DEF BuildingPcs
  <2>2. \A v : Settled(v)' <=> Settled(v)
    BY DEF Settled
  <2> QED BY <1>4, <1>5, <1>6, <2>1, <2>2 DEF Volumes, Began, CreatingPcs, StartingPcs,
     CleanupPcs
<1>11. Containers' /\ Starts'
  <2>1. Containers /\ Starts
    BY CoordKnows
  <2>2. \A s \in Named(File) : Starting(s)' <=> Starting(s)
    BY <1>6 DEF Starting
  <2>3. Containers'
    BY <1>6, <2>1 DEF Containers
  <2>4. Starts'
    BY <1>5, <1>6, <2>1, <2>2 DEF Starts, StartingPcs
  <2> QED BY <2>3, <2>4
<1>12. coord'.pc \notin Cleaning
  BY <1>5 DEF Cleaning
<1>13. FaultsStep
  BY DEF FaultsStep
<1> QED BY <1>5, <1>7, <1>8, <1>9, <1>10, <1>11, <1>12, <1>13, CoordKnows, GoesOn

LEMMA CoordLooksStep ==
    ASSUME Inv, CoordLooks
    PROVE  Inv'
<1>1. /\ coord.pc = "look" /\ UNCHANGED <<NoWork, project, job, resources, faults>>
      /\ coord' = [coord EXCEPT !.pc = "trigger", !.res.builds = @ \cup Existing]
  BY DEF CoordLooks, At
<1>2. OthersRest /\ callers' = callers /\ source' = source /\ Unmoved
  BY <1>1, NoWorkRests DEF resources, Unmoved
<1>3. Existing \in SUBSET Services
  BY DEF Existing
<1>4. BuildsKept /\ builds' \in [Services -> BuildStatuses]
  BY <1>1, <1>2, CoordKnows DEF BuildsKept, Unmoved
<1> QED BY <1>1, <1>2, <1>3, <1>4, CoordNotes DEF Unmoved

LEMMA CoordTriggersStep ==
    ASSUME Inv, CoordTriggers
    PROVE  Inv'
<1>1. /\ coord.pc = "trigger"
      /\ UNCHANGED <<NoWork, project, job, containers, vols, linked>>
  BY DEF CoordTriggers, At
<1>2. OthersRest /\ callers' = callers /\ source' = source
      /\ UNCHANGED <<rows, engine, vols, linked>>
  BY <1>1, NoWorkRests DEF containers
<1>3. PICK s \in Missing(coord.res) :
           \/ /\ Trigger(s)
              /\ coord' = [coord EXCEPT !.res.builds = @ \cup {s}]
              /\ UNCHANGED faults
           \/ /\ faults' = faults \/ Fault("trigger")
              /\ Become("cancelBuilds")
              /\ UNCHANGED builds
  BY DEF CoordTriggers
<1>4. s \in Services
  BY <1>3, PlanOfJob, PlannedFields, FileTyped DEF Missing, Inv, Typed
<1>5. CASE /\ Trigger(s) /\ UNCHANGED faults
           /\ coord' = [coord EXCEPT !.res.builds = @ \cup {s}]
  <2> DEFINE e == [coord.res EXCEPT !.builds = coord.res.builds \cup {s}]
  <2>1. [coord EXCEPT !.res = e] = [coord EXCEPT !.pc = "trigger", !.res = e]
    BY <1>1, CoordKnows DEF CoordType
  <2>2. coord' = [coord EXCEPT !.res = e]
    BY <1>5
  <2>3. coord' = [coord EXCEPT !.pc = "trigger", !.res.builds = @ \cup {s}]
    BY <2>1, <2>2
  <2>4. builds' \in [Services -> BuildStatuses] /\ BuildsKept
    BY <1>4, <1>5, TriggerKeeps, Found
  <2>5. {s} \in SUBSET Services
    BY <1>4
  <2> QED BY <1>1, <1>2, <1>5, <2>3, <2>4, <2>5, CoordNotes
<1>6. CASE /\ faults' = faults \/ Fault("trigger")
           /\ Become("cancelBuilds") /\ UNCHANGED builds
  <2>1. FaultsStep /\ Unmoved
    BY <1>2, <1>6 DEF FaultsStep, Faults, Unmoved
  <2> QED BY <1>1, <1>2, <1>6, <2>1, AsideIn, CoordKnows, TurnsOnly
<1> QED BY <1>3, <1>5, <1>6

LEMMA SaveBuildingStep ==
    ASSUME Inv, SaveBuilding
    PROVE  Inv'
<1>1. /\ coord.pc = "trigger" /\ Missing(coord.res) = {}
      /\ Saving("building", "building", "checkBuilds")
  BY DEF SaveBuilding, At
<1>2. /\ "building" \in Stages /\ "building" \in Projects
      /\ "checkBuilds" \in CoordPcs \ Cleaning
  BY DEF Stages, Projects, ProjectStatuses, CoordPcs, Cleaning
<1>3. Built(Planned) \subseteq coord.res.builds
  BY <1>1, PlanOfJob DEF Missing, Inv
<1>4. coord.res.volumes = {}
  BY <1>1, CoordKnows DEF Volumes, BuildingPcs
<1>5. /\ job'.stage = "building" /\ job'.res = coord.res /\ coord'.pc = "checkBuilds"
      /\ coord'.res = coord.res \/ "checkBuilds" = "idle"
      /\ Planned' = Planned
      => Builds' /\ Volumes' /\ Starts'
  BY <1>3, <1>4 DEF Builds, Volumes, Starts, Began, CreatingPcs, StartingPcs, CleanupPcs
<1> QED BY <1>1, <1>2, <1>5, Saves

LEMMA CheckBuildsStep ==
    ASSUME Inv, CheckBuilds
    PROVE  Inv'
<1>1. /\ coord.pc = "checkBuilds" /\ source' \in {source, "released"}
      /\ UNCHANGED <<file, request, delivery, workers, callers, project, job, resources, faults>>
      /\ \/ Become("cancel") \/ Become("cancelBuilds") \/ Rest
         \/ Become("saveCreating") /\ \A s \in coord.res.builds : builds[s] = "success"
  BY DEF CheckBuilds, At
<1>2. OthersRest /\ callers' = callers /\ Unmoved /\ FaultsStep
  BY <1>1, NoWorkRests DEF resources, Unmoved, FaultsStep
<1>3. source' \in Sources
  BY <1>1, CoordKnows DEF Sources
<1>4. CASE Become("cancel") \/ Become("cancelBuilds") \/ Rest
  BY <1>1, <1>2, <1>3, <1>4, AsideIn, CoordKnows, TurnsOnly, Rests
<1>5. CASE Become("saveCreating") /\ \A s \in coord.res.builds : builds[s] = "success"
  <2>1. coord' \in CoordType /\ coord'.pc = "saveCreating" /\ coord'.res = coord.res
    BY <1>1, <1>5, CoordKnows, CoordBecomes DEF Become, CoordPcs
  <2>2. coord'.pc \notin Cleaning
    BY <2>1 DEF Cleaning
  <2>3. AllBuilt
    BY <1>1, <1>5, CoordKnows DEF AllBuilt, Builds
  <2>4. Planned' = Planned /\ job' = job
    BY <1>1, <1>2, Unmoving
  <2>5. Clean'
    BY <1>1, <2>1, <2>2, <2>4, CoordKnows DEF Clean, Recorded, Cleaning
  <2>6. Builds'
    BY <1>2, <2>1, <2>3, Unmoving DEF Builds
  <2>7. Volumes'
    BY <1>1, <1>2, <2>1, <2>4, CoordKnows, Unmoving
       DEF Volumes, Began, BuildingPcs, CreatingPcs, StartingPcs, CleanupPcs
  <2>8. Starts'
    BY <1>1, <1>2, <2>1, <2>4, CoordKnows, Unmoving DEF Starts, StartingPcs
  <2> QED BY <1>1, <1>2, <1>3, <2>1, <2>2, <2>4, <2>5, <2>6, <2>7, <2>8, CoordKnows, Unmoving,
             GoesOn
<1> QED BY <1>1, <1>4, <1>5

LEMMA SaveCreatingStep ==
    ASSUME Inv, SaveCreating
    PROVE  Inv'
<1>1. coord.pc = "saveCreating" /\ Saving("creating", "deploying", "idle")
  BY DEF SaveCreating, At
<1>2. "creating" \in Stages /\ "deploying" \in Projects /\ "idle" \in CoordPcs \ Cleaning
  BY DEF Stages, Projects, ProjectStatuses, CoordPcs, Cleaning
<1>3. AllBuilt /\ coord.res.volumes = {}
  BY <1>1, CoordKnows DEF Builds, Volumes, BuildingPcs
<1>4. /\ job'.stage = "creating" /\ job'.res = coord.res /\ coord'.pc = "idle"
      /\ AllBuilt' <=> AllBuilt
      => Builds' /\ Volumes' /\ Starts'
  BY <1>3 DEF Builds, Volumes, Starts, Began, BuildingPcs, CreatingPcs, StartingPcs, CleanupPcs
<1> QED BY <1>1, <1>2, <1>4, Saves

-----------------------------------------------------------------------------
(* The coordinator: creating *)

\* It writes down what it holds and goes on to a point of the stage creating.
LEMMA Writes ==
    ASSUME Inv, coord.pc \in CreatingPcs, NEW pc \in CreatingPcs, NEW r \in ResourceType,
           coord' = [coord EXCEPT !.pc = pc, !.res = r],
           OthersRest, callers' = callers, job' = job, project' = project, source' = source,
           FaultsStep, builds' = builds, ResourcesTyped', Recorded(r),
           \A v \in VolumeNames : Settled(v) => Settled(v)',
           \A v \in r.volumes : Settled(v)',
           pc \in {"containers", "saveContainer"} => Planned.volumes \subseteq r.volumes,
           Containers',
           job.stage = "starting" => \A s \in Named(File) : Starting(s)',
           pc = "saveGraph" => /\ Named(File) \subseteq r.containers
                               /\ \A s \in Named(File) : Starting(s)'
    PROVE  Inv'
<1>1. pc \in CoordPcs \ Cleaning /\ pc \notin BuildingPcs /\ pc \notin CleanupPcs
      /\ coord.pc # "idle"
  BY DEF CreatingPcs, CoordPcs, Cleaning, BuildingPcs, CleanupPcs
<1>2. coord' \in CoordType /\ coord'.pc = pc /\ coord'.res = r
  BY <1>1, CoordKnows, CoordRecords
<1>3. file' = file /\ Planned' = Planned /\ File' = File
  BY SamePlan DEF OthersRest
<1>4. Clean'
  BY <1>1, <1>2, <1>3, CoordKnows DEF Clean, Recorded, Cleaning
<1>5. Builds'
  <2>1. AllBuilt' <=> AllBuilt
    BY <1>3 DEF AllBuilt
  <2>2. AllBuilt
    BY <1>1, CoordKnows DEF Builds
  <2> QED BY <1>2, <2>1, <2>2 DEF Builds, CreatingPcs
<1>6. Volumes'
  <2>1. Volumes /\ job.res.volumes \subseteq VolumeNames
    BY <1>1, CoordKnows, JobFields DEF ResourceType
  <2> QED BY <1>1, <1>2, <1>3, <2>1 DEF Volumes, Began
<1>7. Starts'
  <2>1. Starts
    BY <1>1, CoordKnows
  <2>2. coord'.pc \in StartingPcs => pc = "saveGraph"
    BY <1>2 DEF CreatingPcs, StartingPcs
  <2> QED BY <1>2, <1>3, <2>1, <2>2 DEF Starts
<1> QED BY <1>1, <1>2, <1>4, <1>5, <1>6, <1>7, CoordKnows, GoesOn

\* It has found or created a volume.
LEMMA Resolves ==
    ASSUME Inv, coord.pc = "volumes", NEW v \in VolumeNames, NEW r \in ResourceType,
           r.volumes = coord.res.volumes \cup {v}, Recorded(r),
           coord' = [coord EXCEPT !.pc = "saveVolume", !.res = r],
           OthersRest, callers' = callers, job' = job, project' = project, source' = source,
           UNCHANGED <<rows, engine, builds, faults>>, linked' \in {linked, linked \cup {v}},
           \/ vols' = vols /\ vols[v] \in {"creating", "available"}
           \/ vols[v] = "none" /\ vols' = [vols EXCEPT ![v] = "creating"]
    PROVE  Inv'
<1>1. TypeOK /\ Volumes
  BY CoordKnows
<1>2. vols' \in [VolumeNames -> VolumeStatuses] /\ linked' \subseteq VolumeNames
  BY <1>1 DEF TypeOK, VolumeStatuses
<1>3. /\ \A u \in VolumeNames : Settled(u) => Settled(u)'
      /\ Settled(v)'
  BY <1>1 DEF TypeOK, Settled
<1>4. ResourcesTyped' /\ FaultsStep
  BY <1>1, <1>2 DEF TypeOK, ResourcesTyped, FaultsStep
<1>5. \A u \in r.volumes : Settled(u)'
  <2>1. \A u \in coord.res.volumes : u \in VolumeNames /\ Settled(u)
    BY <1>1, CoordKnows DEF Volumes, CreatingPcs, ResourceType
  <2> QED BY <1>3, <2>1
<1>6. file' = file /\ Planned' = Planned /\ File' = File
  BY SamePlan DEF OthersRest
<1>7. Containers'
  BY <1>6, CoordKnows DEF Containers
<1>8. job.stage = "starting" => \A s \in Named(File) : Starting(s)'
  BY <1>6, CoordKnows DEF Starts, Starting
<1>9. "saveVolume" \in CreatingPcs /\ "volumes" \in CreatingPcs
  BY DEF CreatingPcs
<1> QED BY <1>3, <1>4, <1>5, <1>7, <1>8, <1>9, Writes

LEMMA ResolveVolumeStep ==
    ASSUME Inv, NEW v \in VolumeNames, ResolveVolume(v)
    PROVE  Inv'
<1>1. /\ coord.pc = "volumes"
      /\ UNCHANGED <<NoWork, project, job, containers, builds>>
  BY DEF ResolveVolume, At
<1>2. OthersRest /\ callers' = callers /\ source' = source /\ UNCHANGED <<rows, engine>>
  BY <1>1, NoWorkRests DEF containers
<1>3. coord.res \in ResourceType /\ Recorded(coord.res) /\ Plan.external = Planned.external
  <2>1. coord.pc # "idle"
    BY <1>1
  <2>2. Typed
    BY DEF Inv
  <2> QED BY <2>1, <2>2, CoordKnows, PlanOfJob
<1>4. /\ coord.res.volumes \cup {v} \in SUBSET VolumeNames
      /\ coord.res.created \cup {v} \in SUBSET VolumeNames
  BY <1>3 DEF ResourceType
<1>5. CASE /\ v \notin Plan.external
           /\ coord' = [coord EXCEPT !.pc = "saveVolume", !.res.volumes = @ \cup {v},
                                     !.res.created = @ \cup {v}]
           /\ \/ vols[v] = "none" /\ vols' = [vols EXCEPT ![v] = "creating"]
              \/ vols[v] = "creating" /\ vols' = vols
           /\ linked' \in {linked, linked \cup {v}} /\ UNCHANGED faults
  <2> DEFINE x == coord.res.volumes \cup {v}
             y == coord.res.created \cup {v}
             q == coord.res
             r == [q EXCEPT !.volumes = x, !.created = y]
  <2>1. coord' = [coord EXCEPT !.pc = "saveVolume", !.res = r]
    BY <1>5
  <2>2. r \in ResourceType /\ r.volumes = x /\ r.created = y
    <3>1. q \in ResourceType /\ x \in SUBSET VolumeNames /\ y \in SUBSET VolumeNames
      BY <1>3, <1>4
    <3> HIDE DEF q, x, y
    <3>2. r \in ResourceType
      BY <3>1 DEF ResourceType
    <3> QED BY <3>1, <3>2 DEF ResourceType
  <2> HIDE DEF r
  <2>3. Recorded(r)
    <3>1. v \notin Planned.external
      BY <1>3, <1>5
    <3> QED BY <1>3, <2>2, <3>1 DEF Recorded
  <2> QED BY <1>1, <1>2, <1>5, <2>1, <2>2, <2>3, Resolves
<1>6. CASE /\ vols[v] = "available"
           /\ coord' = [coord EXCEPT !.pc = "saveVolume", !.res.volumes = @ \cup {v}]
           /\ linked' \in {linked, linked \cup {v}}
           /\ UNCHANGED <<vols, faults>>
  <2> DEFINE r == [coord.res EXCEPT !.volumes = coord.res.volumes \cup {v}]
  <2>1. coord' = [coord EXCEPT !.pc = "saveVolume", !.res = r]
    BY <1>6
  <2>2. r \in ResourceType /\ r.volumes = coord.res.volumes \cup {v}
        /\ r.created = coord.res.created
    BY <1>3, <1>4, ResVolumes
  <2> HIDE DEF r
  <2>3. Recorded(r)
    BY <1>3, <2>2 DEF Recorded
  <2> QED BY <1>1, <1>2, <1>6, <2>1, <2>2, <2>3, Resolves
<1>7. CASE /\ Become("cancelBuilds") /\ UNCHANGED <<vols, linked>>
           /\ faults' = faults \/ Fault("admission")
  <2>1. FaultsStep /\ Unmoved
    BY <1>1, <1>2, <1>7 DEF FaultsStep, Faults, Unmoved
  <2> QED BY <1>1, <1>2, <1>7, <2>1, AsideIn, CoordKnows, TurnsOnly
<1> QED BY <1>5, <1>6, <1>7 DEF ResolveVolume

LEMMA CreatingStages ==
    /\ "creating" \in Stages /\ "starting" \in Stages /\ "rolling_back" \in Stages
    /\ "deploying" \in Projects /\ "volumes" \in CoordPcs \ Cleaning
    /\ "idle" \in CoordPcs \ Cleaning /\ "containers" \in CoordPcs \ Cleaning
    /\ "starting" \in CoordPcs \ Cleaning /\ "cleanup" \in CoordPcs \ Cleaning
BY DEF Stages, Projects, ProjectStatuses, CoordPcs, Cleaning

LEMMA SaveVolumeStep ==
    ASSUME Inv, SaveVolume
    PROVE  Inv'
<1>1. coord.pc = "saveVolume" /\ Saving("creating", "deploying", "volumes")
  BY DEF SaveVolume, At
<1>2. AllBuilt /\ \A v \in coord.res.volumes : Settled(v)
  BY <1>1, CoordKnows DEF Builds, Volumes, CreatingPcs
<1>3. /\ job'.stage = "creating" /\ job'.res = coord.res /\ coord'.pc = "volumes"
      /\ coord'.res = coord.res \/ "volumes" = "idle"
      /\ Planned' = Planned
      /\ AllBuilt' <=> AllBuilt
      /\ \A v : Settled(v)' <=> Settled(v)
      => Builds' /\ Volumes' /\ Starts'
  BY <1>2 DEF Builds, Volumes, Starts, Began, BuildingPcs, CreatingPcs, StartingPcs, CleanupPcs
<1> QED BY <1>1, <1>3, CreatingStages, Saves

LEMMA SaveContainerStep ==
    ASSUME Inv, SaveContainer
    PROVE  Inv'
<1>1. coord.pc = "saveContainer" /\ Saving("creating", "deploying", "containers")
  BY DEF SaveContainer, At
<1>2. /\ AllBuilt /\ \A v \in coord.res.volumes : Settled(v)
      /\ Planned.volumes \subseteq coord.res.volumes
  BY <1>1, CoordKnows DEF Builds, Volumes, CreatingPcs
<1>3. /\ job'.stage = "creating" /\ job'.res = coord.res /\ coord'.pc = "containers"
      /\ coord'.res = coord.res \/ "containers" = "idle"
      /\ Planned' = Planned
      /\ AllBuilt' <=> AllBuilt
      /\ \A v : Settled(v)' <=> Settled(v)
      => Builds' /\ Volumes' /\ Starts'
  BY <1>2 DEF Builds, Volumes, Starts, Began, BuildingPcs, CreatingPcs, StartingPcs, CleanupPcs
<1> QED BY <1>1, <1>3, CreatingStages, Saves

-----------------------------------------------------------------------------
(* The coordinator: the containers, and the graph *)

LEMMA CreatingIn ==
    /\ "volumes" \in CreatingPcs /\ "containers" \in CreatingPcs
    /\ "saveContainer" \in CreatingPcs /\ "saveGraph" \in CreatingPcs
BY DEF CreatingPcs

\* The services that are left are services of the file.
LEMMA LeftNamed ==
    ASSUME Inv, NEW S, NEW i \in Left(S)
    PROVE  i \in Nat /\ Plan.order[i] \in Named(File) /\ Plan.order[i] \in Services
<1>1. Typed
  BY DEF Inv
<1>2. Plan.order = job.order
  BY <1>1, PlanOfJob
<1>3. i \in DOMAIN job.order
  BY <1>2 DEF Left
<1> QED BY <1>1, <1>2, <1>3, OrderTyped

\* It writes down the containers that are there or that it created.
LEMMA NotesContainers ==
    ASSUME Inv, coord.pc \in {"volumes", "containers"}, NEW C \in SUBSET Services,
           NEW pc \in {"containers", "saveContainer"},
           coord' = [coord EXCEPT !.pc = pc, !.res.containers = @ \cup C],
           OthersRest, callers' = callers, job' = job, project' = project, source' = source,
           UNCHANGED <<engine, vols, linked, builds, faults>>,
           rows' \in [Services -> RowStatuses], Containers',
           Planned.volumes \subseteq coord.res.volumes,
           job.stage = "starting" => \A s \in Named(File) : Starting(s)'
    PROVE  Inv'
<1> DEFINE q == coord.res
           x == q.containers \cup C
           r == [q EXCEPT !.containers = x]
<1>1. coord' = [coord EXCEPT !.pc = pc, !.res = r]
  OBVIOUS
<1>2. q \in ResourceType /\ Recorded(q) /\ coord.pc \in CreatingPcs
  BY CoordKnows, CreatingIn
<1>3. x \in SUBSET Services
  BY <1>2 DEF ResourceType
<1>4. \A v \in q.volumes : Settled(v)'
  <2>1. \A v \in q.volumes : Settled(v)
    BY <1>2, CoordKnows DEF Volumes
  <2> QED BY <2>1 DEF Settled
<1>5. Planned.volumes \subseteq q.volumes
  OBVIOUS
<1> HIDE DEF q, x
<1>6. r \in ResourceType /\ r.volumes = q.volumes /\ r.created = q.created
  BY <1>2, <1>3, ResContainers
<1> HIDE DEF r
<1>7. Recorded(r)
  BY <1>2, <1>6 DEF Recorded
<1>8. ResourcesTyped'
  BY Found DEF TypeOK, ResourcesTyped
<1>9. \A v \in VolumeNames : Settled(v) => Settled(v)'
  BY DEF Settled
<1>10. pc \in CreatingPcs /\ pc # "saveGraph" /\ FaultsStep
  BY CreatingIn DEF FaultsStep
<1>11. \A v \in r.volumes : Settled(v)'
  BY <1>4, <1>6
<1>12. Planned.volumes \subseteq r.volumes
  BY <1>5, <1>6
<1> QED BY <1>1, <1>2, <1>6, <1>7, <1>8, <1>9, <1>10, <1>11, <1>12, Writes

LEMMA WaitForVolumesStep ==
    ASSUME Inv, WaitForVolumes
    PROVE  Inv'
<1>1. /\ coord.pc = "volumes" /\ Plan.volumes \subseteq coord.res.volumes
      /\ UNCHANGED <<NoWork, project, job, resources, faults>>
      /\ \/ coord' = [coord EXCEPT !.pc = "containers",
                  !.res.containers = @ \cup {s \in Named(File) : rows[s] # "none"}]
         \/ Become("cancelBuilds")
         \/ Rest
  BY DEF WaitForVolumes, At
<1>2. OthersRest /\ callers' = callers /\ source' = source /\ Unmoved /\ FaultsStep
  BY <1>1, NoWorkRests DEF resources, Unmoved, FaultsStep
<1>3. CASE Become("cancelBuilds") \/ Rest
  BY <1>1, <1>2, <1>3, AsideIn, CoordKnows, TurnsOnly, Rests
<1>4. CASE coord' = [coord EXCEPT !.pc = "containers",
                  !.res.containers = @ \cup {s \in Named(File) : rows[s] # "none"}]
  <2> DEFINE C == {s \in Named(File) : rows[s] # "none"}
  <2>1. C \in SUBSET Services
    BY FileTyped, Found
  <2>2. coord' = [coord EXCEPT !.pc = "containers", !.res.containers = @ \cup C]
    BY <1>4
  <2> HIDE DEF C
  <2>3. Planned.volumes \subseteq coord.res.volumes
    BY <1>1, PlanOfJob DEF Inv
  <2>4. /\ Containers' /\ rows' \in [Services -> RowStatuses]
        /\ job.stage = "starting" => \A s \in Named(File) : Starting(s)'
    BY <1>1, <1>2, CoordKnows, Unmoving DEF Starts, Unmoved
  <2> QED BY <1>1, <1>2, <2>1, <2>2, <2>3, <2>4, NotesContainers DEF Unmoved
<1> QED BY <1>1, <1>3, <1>4

LEMMA CreateContainerStep ==
    ASSUME Inv, CreateContainer
    PROVE  Inv'
<1>1. /\ coord.pc = "containers"
      /\ UNCHANGED <<NoWork, project, job, engine, vols, linked, builds>>
  BY DEF CreateContainer, At
<1>2. OthersRest /\ callers' = callers /\ source' = source
  BY <1>1, NoWorkRests
<1>3. PICK i \in First(Left(coord.res.containers)) :
           \/ /\ rows[Plan.order[i]] = "none"
              /\ rows' = [rows EXCEPT ![Plan.order[i]] = "creating"]
              /\ coord' = [coord EXCEPT !.pc = "saveContainer",
                                        !.res.containers = @ \cup {Plan.order[i]}]
              /\ UNCHANGED faults
           \/ /\ faults' = faults \/ Fault("admission")
              /\ Become("cancelBuilds")
              /\ UNCHANGED rows
  BY DEF CreateContainer
<1> DEFINE s == Plan.order[i]
<1>4. s \in Named(File) /\ s \in Services
  BY <1>3, LeftNamed DEF First
<1>5. CASE /\ faults' = faults \/ Fault("admission")
           /\ Become("cancelBuilds") /\ UNCHANGED rows
  <2>1. FaultsStep /\ Unmoved
    BY <1>1, <1>5 DEF FaultsStep, Faults, Unmoved
  <2> QED BY <1>1, <1>2, <1>5, <2>1, AsideIn, CoordKnows, TurnsOnly
<1>6. CASE /\ rows[s] = "none" /\ rows' = [rows EXCEPT ![s] = "creating"]
           /\ coord' = [coord EXCEPT !.pc = "saveContainer", !.res.containers = @ \cup {s}]
           /\ UNCHANGED faults
  <2> HIDE DEF s
  <2>1. rows \in [Services -> RowStatuses] /\ Containers /\ Starts
        /\ Planned.volumes \subseteq coord.res.volumes
    BY <1>1, CoordKnows DEF Volumes
  <2>2. rows' \in [Services -> RowStatuses]
    BY <1>4, <1>6, <2>1 DEF RowStatuses
  <2>3. rows'[s] = "creating" /\ \A t \in Services \ {s} : rows'[t] = rows[t]
    BY <1>4, <1>6, <2>1
  <2>4. Planned' = Planned /\ File' = File
    BY <1>2, SamePlan DEF OthersRest
  <2>5. Containers'
    BY <1>1, <1>4, <1>6, <2>1, <2>3, <2>4 DEF Containers
  <2>6. ASSUME job.stage = "starting", NEW t \in Named(File)
        PROVE  Starting(t)'
    <3>1. Starting(t) /\ t \in Services
      BY <2>1, <2>6, FileTyped, Found DEF Starts
    <3>2. ~(rows[t] = "deleting")' /\ ((rows[t] = "starting")' => rows[t] = "starting")
      BY <2>3, <3>1 DEF Starting
    <3> QED BY <1>1, <2>4, <3>1, <3>2 DEF Starting
  <2>7. {s} \in SUBSET Services
    BY <1>4
  <2> QED BY <1>1, <1>2, <1>6, <2>1, <2>2, <2>5, <2>6, <2>7, NotesContainers
<1> QED BY <1>3, <1>5, <1>6

-----------------------------------------------------------------------------
(* The coordinator: the graph *)

LEMMA WaitForContainersStep ==
    ASSUME Inv, WaitForContainers
    PROVE  Inv'
<1>1. /\ coord.pc = "containers" /\ UNCHANGED <<NoWork, project, job, resources, faults>>
      /\ \/ Become("cancelBuilds")
         \/ Rest
         \/ /\ \A s \in coord.res.containers : rows[s] \notin {"starting", "deleting"}
            /\ ~GraphErrors(Plan, coord.res.containers)
            /\ coord' = [coord EXCEPT !.pc = "saveGraph", !.res.graph = TRUE]
  BY DEF WaitForContainers, At, Become
<1>2. OthersRest /\ callers' = callers /\ source' = source /\ Unmoved /\ FaultsStep
  BY <1>1, NoWorkRests DEF resources, Unmoved, FaultsStep
<1>3. CASE Become("cancelBuilds") \/ Rest
  BY <1>1, <1>2, <1>3, AsideIn, CoordKnows, TurnsOnly, Rests
<1>4. CASE /\ \A s \in coord.res.containers : rows[s] \notin {"starting", "deleting"}
           /\ ~GraphErrors(Plan, coord.res.containers)
           /\ coord' = [coord EXCEPT !.pc = "saveGraph", !.res.graph = TRUE]
  <2> DEFINE q == coord.res
             r == [q EXCEPT !.graph = TRUE]
  <2>1. coord' = [coord EXCEPT !.pc = "saveGraph", !.res = r]
    BY <1>4
  <2>2. q \in ResourceType /\ Recorded(q) /\ coord.pc \in CreatingPcs
        /\ \A v \in q.volumes : Settled(v)
    BY <1>1, CoordKnows, CreatingIn DEF Volumes
  <2>3. Named(File) \subseteq q.containers
    <3>1. DOMAIN Plan.services \subseteq q.containers
      BY <1>4 DEF GraphErrors
    <3> QED BY <3>1, PlanOfJob, PlannedFields DEF Inv
  <2>4. \A s \in Named(File) : Starting(s)
    BY <1>4, <2>3 DEF Starting
  <2> HIDE DEF q
  <2>5. r \in ResourceType /\ r.volumes = q.volumes /\ r.created = q.created
        /\ r.containers = q.containers
    BY <2>2, ResGraph
  <2> HIDE DEF r
  <2>6. Recorded(r)
    BY <2>2, <2>5 DEF Recorded
  <2>7. /\ ResourcesTyped' /\ Containers' /\ File' = File
        /\ \A v \in VolumeNames : Settled(v) => Settled(v)'
        /\ \A v \in r.volumes : Settled(v)'
        /\ \A s \in Named(File) : Starting(s)'
    BY <1>2, <2>2, <2>4, <2>5, Unmoving
  <2>8. Named(File) \subseteq r.containers
    BY <2>3, <2>5
  <2> QED BY <1>1, <1>2, <2>1, <2>2, <2>5, <2>6, <2>7, <2>8, CreatingIn, Writes DEF Unmoved
<1> QED BY <1>1, <1>3, <1>4

LEMMA WriteGraphStep ==
    ASSUME Inv, WriteGraph
    PROVE  Inv'
<1>1. coord.pc = "saveGraph" /\ UNCHANGED <<NoWork, resources>>
  BY DEF WriteGraph, At
<1>2. CASE /\ faults' = faults \/ Fault("coordinator")
           /\ Become("cancelBuilds") /\ UNCHANGED <<job, project>>
  <2>1. OthersRest /\ callers' = callers /\ source' = source /\ Unmoved /\ FaultsStep
    BY <1>1, <1>2, NoWorkRests DEF resources, Unmoved, FaultsStep, Faults
  <2> QED BY <1>1, <1>2, <2>1, AsideIn, CoordKnows, TurnsOnly
<1>3. CASE Underway /\ Save("starting", "deploying", coord.res) /\ Rest /\ UNCHANGED faults
  <2>1. Saving("starting", "deploying", "idle")
    BY <1>1, <1>3 DEF Saving
  <2>2. /\ AllBuilt /\ \A v \in coord.res.volumes : Settled(v)
        /\ Named(File) \subseteq coord.res.containers
        /\ \A s \in Named(File) : Starting(s)
    BY <1>1, CoordKnows DEF Builds, Volumes, Starts, CreatingPcs, StartingPcs
  <2>3. /\ job'.stage = "starting" /\ job'.res = coord.res /\ coord'.pc = "idle"
        /\ Planned' = Planned /\ File' = File
        /\ AllBuilt' <=> AllBuilt
        /\ \A v : Settled(v)' <=> Settled(v)
        /\ \A s \in Named(File) : Starting(s)' <=> Starting(s)
        => Builds' /\ Volumes' /\ Starts'
    BY <2>2 DEF Builds, Volumes, Starts, Began, BuildingPcs, CreatingPcs, StartingPcs, CleanupPcs
  <2> QED BY <1>1, <2>1, <2>3, CreatingStages, Saves
<1> QED BY <1>2, <1>3 DEF WriteGraph

-----------------------------------------------------------------------------
(* The coordinator: starting *)

\* A condition that neither fails nor is waited for was reached.
LEMMA ReadyReached ==
    ASSUME NEW state, NEW c, NEW check, Evaluate(state, c, check) \notin {"error", "wait"}
    PROVE  Reached(state, c)
BY DEF Evaluate, Reached

LEMMA StartReached ==
    ASSUME Inv, coord.pc = "starting", NEW s \in Named(File), ~DependencyFails(s),
           ~DependencyWaits(s), NEW d \in Planned.services[s].needs, d.required
    PROVE  Reached(engine[d.on], d.condition)
<1>1. d.on \in Named(File)
  BY CoordKnows, RequiredNamed
<1>2. d.on \in coord.res.containers
  BY <1>1, CoordKnows DEF Starts, StartingPcs
<1>3. d \in Plan.services[s].needs
  BY PlanOfJob DEF Inv
<1> DEFINE e == Evaluate(engine[d.on], d.condition, Plan.services[d.on].check)
<1>4. e \in Verdicts(s, TRUE) /\ e \in Verdicts(s, FALSE)
  BY <1>2, <1>3 DEF Verdicts
<1>5. e \notin {"error", "wait"}
  BY <1>4 DEF DependencyFails, DependencyWaits
<1> QED BY <1>5, ReadyReached

LEMMA StartServiceStep ==
    ASSUME Inv, StartService
    PROVE  Inv'
<1>1. coord.pc = "starting" /\ UNCHANGED <<NoWork, project, job, engine, vols, linked, builds>>
  BY DEF StartService, At
<1>2. OthersRest /\ callers' = callers /\ source' = source
  BY <1>1, NoWorkRests
<1>3. PICK i \in First(Unseen) : LET s == Plan.order[i] IN
           \/ /\ coord' = [coord EXCEPT !.pc = "saveStarted", !.res.started = @ \cup {s}]
              /\ UNCHANGED <<rows, faults>>
           \/ /\ Become("cancelBuilds") \/ Rest
              /\ faults' = faults \/ Fault("admission")
              /\ UNCHANGED rows
           \/ /\ rows[s] = "created" /\ ~DependencyFails(s) /\ ~DependencyWaits(s)
              /\ rows' = [rows EXCEPT ![s] = "starting"]
              /\ coord' = [coord EXCEPT !.next = i + 1, !.queued = TRUE]
              /\ UNCHANGED faults
  BY DEF StartService
<1>4. PICK s \in Services : s = Plan.order[i] /\ s \in Named(File) /\ i \in Nat
  BY <1>3, LeftNamed DEF First, Unseen
<1>5. /\ coord \in CoordType /\ coord.res \in ResourceType /\ Recorded(coord.res)
      /\ rows \in [Services -> RowStatuses] /\ Recorded(job.res) /\ job \in JobType
      /\ project \in Projects /\ source \in Sources
      /\ Builds /\ Volumes /\ Containers /\ Starts
  BY <1>1, CoordKnows
<1>6. CASE /\ Become("cancelBuilds") \/ Rest
           /\ faults' = faults \/ Fault("admission")
           /\ UNCHANGED rows
  <2>1. FaultsStep /\ Unmoved
    BY <1>1, <1>6 DEF FaultsStep, Faults, Unmoved
  <2> QED BY <1>1, <1>2, <1>5, <1>6, <2>1, AsideIn, TurnsOnly, Rests
<1>7. CASE /\ coord' = [coord EXCEPT !.pc = "saveStarted", !.res.started = @ \cup {s}]
           /\ UNCHANGED <<rows, faults>>
  <2> DEFINE q == coord.res
             x == q.started \cup {s}
             r == [q EXCEPT !.started = x]
  <2>1. coord' = [coord EXCEPT !.pc = "saveStarted", !.res = r]
    BY <1>7
  <2>2. q \in ResourceType /\ x \in SUBSET Services
    BY <1>4, <1>5 DEF ResourceType
  <2> HIDE DEF q, x
  <2>3. r \in ResourceType /\ r.volumes = q.volumes /\ r.created = q.created
        /\ r.containers = q.containers
    BY <2>2, ResStarted
  <2> HIDE DEF r
  <2>4. coord' \in CoordType /\ coord'.pc = "saveStarted" /\ coord'.res = r
    BY <1>5, <2>1, <2>3, CoordRecords DEF CoordPcs
  <2>5. FaultsStep /\ Unmoved
    BY <1>1, <1>7 DEF FaultsStep, Unmoved
  <2>6. Planned' = Planned /\ File' = File
    BY <1>2, SamePlan DEF OthersRest
  <2>7. Clean'
    BY <1>1, <1>5, <2>3, <2>4, <2>6 DEF Clean, Recorded, Cleaning, q
  <2>8. Builds'
    BY <1>1, <1>2, <1>5, <2>4, <2>5, Unmoving DEF Builds, Began, StartingPcs
  <2>9. Volumes'
    <3>1. \A v \in r.volumes : Settled(v)'
      BY <1>1, <1>2, <1>5, <2>3, <2>5, Unmoving DEF Volumes, StartingPcs, q
    <3> QED BY <1>1, <1>2, <1>5, <2>4, <2>5, <3>1, Unmoving
            DEF Volumes, Began, BuildingPcs, CreatingPcs, CleanupPcs
  <2>10. Starts'
    BY <1>1, <1>2, <1>5, <2>3, <2>4, <2>5, Unmoving DEF Starts, StartingPcs, q
  <2>11. coord'.pc \notin Cleaning
    BY <2>4 DEF Cleaning
  <2> QED BY <1>1, <1>2, <1>5, <2>4, <2>5, <2>7, <2>8, <2>9, <2>10, <2>11, Unmoving, GoesOn
<1>8. CASE /\ rows[s] = "created" /\ ~DependencyFails(s) /\ ~DependencyWaits(s)
           /\ rows' = [rows EXCEPT ![s] = "starting"]
           /\ coord' = [coord EXCEPT !.next = i + 1, !.queued = TRUE]
           /\ UNCHANGED faults
  <2>1. /\ coord' \in CoordType /\ coord'.pc = coord.pc /\ coord'.res = coord.res
    <3>1. i + 1 \in Nat
      BY <1>4
    <3> QED BY <1>5, <1>8, <3>1, CoordVisits
  <2>2. rows' \in [Services -> RowStatuses]
    BY <1>4, <1>5, <1>8 DEF RowStatuses
  <2>3. rows'[s] = "starting" /\ \A t \in Services \ {s} : rows'[t] = rows[t]
    BY <1>4, <1>5, <1>8
  <2>4. Planned' = Planned /\ File' = File
    BY <1>2, SamePlan DEF OthersRest
  <2>5. Containers'
    BY <1>1, <1>4, <1>5, <1>8, <2>3, <2>4 DEF Containers
  <2>6. ASSUME NEW t \in Named(File)
        PROVE  Starting(t)'
    <3>1. Starting(t) /\ t \in Services
      BY <1>1, <1>5, FileTyped, Found DEF Starts, StartingPcs
    <3>2. CASE t # s
      <4>1. ~(rows[t] = "deleting")' /\ ((rows[t] = "starting")' => rows[t] = "starting")
        BY <2>3, <3>1, <3>2 DEF Starting
      <4> QED BY <1>1, <2>4, <3>1, <4>1 DEF Starting
    <3>3. CASE t = s
      <4>1. \A d \in Planned.services[s].needs : d.required => Reached(engine[d.on], d.condition)
        BY <1>1, <1>4, <1>8, StartReached
      <4>2. ~(rows[s] = "deleting")'
        BY <2>3
      <4> QED BY <1>1, <2>4, <3>3, <4>1, <4>2 DEF Starting
    <3> QED BY <3>2, <3>3
  <2>7. ResourcesTyped'
    BY <1>1, <2>2, Found DEF ResourcesTyped, TypeOK
  <2>8. coord'.pc \notin Cleaning
    BY <1>1, <2>1 DEF Cleaning
  <2>9. Clean'
    BY <1>1, <1>5, <2>1, <2>4, <2>8 DEF Clean, Recorded, Cleaning
  <2>10. Builds'
    <3>1. AllBuilt' <=> AllBuilt
      BY <1>1, <2>4 DEF AllBuilt
    <3> QED BY <1>1, <1>5, <2>1, <3>1 DEF Builds, Began
  <2>11. Volumes'
    <3>1. \A v : Settled(v)' <=> Settled(v)
      BY <1>1 DEF Settled
    <3> QED BY <1>1, <1>5, <2>1, <2>4, <3>1 DEF Volumes, Began
  <2>12. Starts'
    BY <1>1, <1>5, <2>1, <2>4, <2>6 DEF Starts
  <2>13. FaultsStep
    BY <1>8 DEF FaultsStep
  <2> QED BY <1>1, <1>2, <1>5, <2>1, <2>5, <2>7, <2>8, <2>9, <2>10, <2>11, <2>12, <2>13, GoesOn
<1> QED BY <1>3, <1>4, <1>6, <1>7, <1>8

LEMMA SaveStartedStep ==
    ASSUME Inv, SaveStarted
    PROVE  Inv'
<1>1. coord.pc = "saveStarted" /\ Saving("starting", "deploying", "starting")
  BY DEF SaveStarted, At
<1>2. /\ AllBuilt /\ Named(File) \subseteq coord.res.containers
      /\ \A s \in Named(File) : Starting(s)
      /\ \A v \in coord.res.volumes : Settled(v)
  BY <1>1, CoordKnows DEF Builds, Starts, Volumes, StartingPcs
<1>3. /\ job'.stage = "starting" /\ job'.res = coord.res /\ coord'.pc = "starting"
      /\ coord'.res = coord.res \/ "starting" = "idle"
      /\ Planned' = Planned /\ File' = File
      /\ AllBuilt' <=> AllBuilt
      /\ \A v : Settled(v)' <=> Settled(v)
      /\ \A s \in Named(File) : Starting(s)' <=> Starting(s)
      => Builds' /\ Volumes' /\ Starts'
  BY <1>2 DEF Builds, Volumes, Starts, Began, BuildingPcs, CreatingPcs, StartingPcs, CleanupPcs
<1> QED BY <1>1, <1>3, CreatingStages, Saves

-----------------------------------------------------------------------------
(* The coordinator: the rollback *)

LEMMA OutcomeIs ==
    Outcome \in {"failed", "canceled"} /\ Outcome \in Projects /\ "idle" \in CoordPcs \ Cleaning
BY DEF Outcome, Projects, ProjectStatuses, CoordPcs, Cleaning

LEMMA SaveRollbackStep ==
    ASSUME Inv, SaveRollback
    PROVE  Inv'
<1>1. coord.pc = "saveRollback" /\ Saving("rolling_back", Outcome, "cleanup")
  BY DEF SaveRollback, At
<1>2. /\ job'.stage = "rolling_back" /\ job'.res = coord.res /\ coord'.pc = "cleanup"
      /\ coord'.res = coord.res \/ "cleanup" = "idle"
      /\ Planned' = Planned /\ File' = File
      => Builds' /\ Volumes' /\ Starts'
  BY DEF Builds, Volumes, Starts, Began, BuildingPcs, CreatingPcs, StartingPcs, CleanupPcs
<1> DEFINE st == Outcome
<1>3. Saving("rolling_back", st, "cleanup") /\ st \in Projects
  BY <1>1, OutcomeIs
<1> HIDE DEF st
<1> QED BY <1>1, <1>2, <1>3, CreatingStages, Saves

LEMMA SaveCleanupStep ==
    ASSUME Inv, SaveCleanup
    PROVE  Inv'
<1>1. coord.pc = "deleteVolumes" /\ Saving("rolling_back", Outcome, "idle")
  BY DEF SaveCleanup, Cleaned, At
<1>2. /\ job'.stage = "rolling_back" /\ job'.res = coord.res /\ coord'.pc = "idle"
      /\ Planned' = Planned /\ File' = File
      => Builds' /\ Volumes' /\ Starts'
  BY DEF Builds, Volumes, Starts, Began, BuildingPcs, CreatingPcs, StartingPcs, CleanupPcs
<1> DEFINE st == Outcome
<1>3. Saving("rolling_back", st, "idle") /\ st \in Projects
  BY <1>1, OutcomeIs
<1> HIDE DEF st
<1> QED BY <1>1, <1>2, <1>3, CreatingStages, OutcomeIs, Saves

\* A step within the cleanup: what is left of it.
LEMMA CleansUp ==
    ASSUME Inv, coord.pc \in CleanupPcs, OthersRest, callers' = callers, job' = job,
           source' = source, project' \in Projects, engine' = engine, builds' = builds,
           coord' \in CoordType, coord'.pc \in Cleaning,
           coord'.res.cleanup \in {"failed", "canceled"},
           ResourcesTyped', FaultsStep, Clean',
           \A v \in VolumeNames : Settled(v) /\ coord.pc # "deleteVolumes" => Settled(v)',
           \A s \in Services : \/ rows'[s] = rows[s]
                               \/ rows'[s] = "none" /\ rows[s] = "creating"
                               \/ rows'[s] = "deleting" /\ rows[s] # "none"
    PROVE  Inv'
<1>1. /\ coord.pc # "idle" /\ coord.pc \notin CreatingPcs /\ coord.pc \notin StartingPcs
      /\ coord'.pc \in CleanupPcs /\ coord'.pc \notin BuildingPcs
      /\ coord'.pc \notin CreatingPcs /\ coord'.pc \notin StartingPcs
      /\ coord'.pc # "saveCreating"
  BY DEF CleanupPcs, Cleaning, BuildingPcs, CreatingPcs, StartingPcs
<1>2. /\ Builds /\ Volumes /\ Containers /\ Starts
      /\ job \in JobType /\ rows \in [Services -> RowStatuses]
  BY <1>1, CoordKnows
<1>3. Planned' = Planned /\ File' = File
  BY SamePlan DEF OthersRest
<1>4. Builds'
  <2>1. AllBuilt' <=> AllBuilt
    BY <1>3 DEF AllBuilt
  <2> QED BY <1>1, <1>2, <2>1 DEF Builds, BuildingPcs, Began
<1>5. Volumes'
  <2>1. coord'.pc \notin {"containers", "saveContainer"}
    BY <1>1 DEF CreatingPcs
  <2>2. Began => job.stage = "creating" /\ job.res.volumes = {}
    BY <1>2 DEF Volumes
  <2> QED BY <1>1, <1>2, <2>1, <2>2 DEF Volumes, Began
<1>6. Containers'
  <2>1. ASSUME NEW s \in Services \ Named(File)
        PROVE  rows'[s] = "none"
    BY <1>2 DEF Containers
  <2>2. ASSUME NEW s \in Services
        PROVE  /\ rows'[s] \in {"none", "creating"} => engine[s] = "none"
               /\ rows'[s] \in {"created", "starting"} => engine[s] = "created"
    BY <1>2 DEF Containers
  <2> QED BY <1>3, <2>1, <2>2 DEF Containers
<1>7. Starts'
  <2>1. job.stage # "starting"
    BY <1>2 DEF Volumes, Began
  <2> QED BY <1>1, <2>1 DEF Starts
<1>8. job'.order = job.order /\ job'.status = job.status /\ job' \in JobType
  BY <1>2
<1>9. source' \in Sources
  BY <1>1, CoordKnows
<1> QED BY <1>1, <1>4, <1>5, <1>6, <1>7, <1>8, <1>9, GoesOn

LEMMA BeginCleanupStep ==
    ASSUME Inv, BeginCleanup
    PROVE  Inv'
<1>1. /\ coord.pc = "cleanup" /\ project' = Outcome
      /\ coord' = [coord EXCEPT !.pc = "deleteContainers", !.done = TRUE,
                                !.res.cleanup = Outcome, !.todo = coord.res.containers]
      /\ UNCHANGED <<NoWork, job, resources, faults>>
  BY DEF BeginCleanup, At
<1>2. OthersRest /\ callers' = callers /\ source' = source /\ Unmoved /\ FaultsStep
  BY <1>1, NoWorkRests DEF resources, Unmoved, FaultsStep
<1> DEFINE q == coord.res
           end == Outcome
           td == q.containers
           r == [q EXCEPT !.cleanup = end]
<1>3. coord' = [coord EXCEPT !.pc = "deleteContainers", !.done = TRUE, !.res = r, !.todo = td]
  BY <1>1
<1>4. end \in {"failed", "canceled"} /\ project' = end /\ end \in Projects
  BY <1>1, OutcomeIs
<1>5. q \in ResourceType /\ coord \in CoordType /\ td \in Todos /\ Recorded(job.res)
      /\ Recorded(q)
  BY <1>1, CoordKnows DEF ResourceType, Todos
<1> HIDE DEF end
<1>6. r \in ResourceType /\ r.cleanup = end /\ r.volumes = q.volumes
      /\ r.created = q.created /\ r.containers = td
  <2> HIDE DEF q
  <2>1. end \in {"", "failed", "canceled"}
    BY <1>4
  <2> QED BY <1>5, <2>1, ResCleanup
<1> HIDE DEF q, td, r
<1>7. coord' \in CoordType /\ coord'.pc = "deleteContainers" /\ coord'.res = r
      /\ coord'.todo = td /\ coord'.done = TRUE
  <2>1. "deleteContainers" \in CoordPcs /\ TRUE \in BOOLEAN
    BY DEF CoordPcs
  <2>2. PICK R \in ResourceType, T \in Todos : R = r /\ T = td
    BY <1>5, <1>6
  <2>3. coord' = [coord EXCEPT !.pc = "deleteContainers", !.done = TRUE, !.res = R, !.todo = T]
    BY <1>3, <2>2
  <2> QED BY <1>5, <2>1, <2>2, <2>3, CoordCleans
<1>8. /\ ResourcesTyped' /\ Planned' = Planned /\ \A v : Settled(v)' <=> Settled(v)
      /\ \A s : rows'[s] = rows[s]
  BY <1>2, Unmoving
<1>9. Clean'
  BY <1>1, <1>5, <1>6, <1>7, <1>8 DEF Clean, Recorded
<1> QED BY <1>1, <1>2, <1>4, <1>6, <1>7, <1>8, <1>9, CleansUp DEF CleanupPcs, Cleaning, Unmoved

LEMMA DeleteContainersStep ==
    ASSUME Inv, DeleteContainers
    PROVE  Inv'
<1>1. coord.pc = "deleteContainers"
      /\ UNCHANGED <<NoWork, project, job, engine, vols, linked, builds, faults>>
  BY DEF DeleteContainers, At
<1>2. OthersRest /\ callers' = callers /\ source' = source
  BY <1>1, NoWorkRests
<1>3. PICK s \in coord.todo :
           /\ coord' = [coord EXCEPT !.todo = @ \ {s}, !.done = @ /\ rows[s] = "none"]
           /\ rows' = [rows EXCEPT ![s] = CASE @ = "creating" -> "none"
                                            [] @ \in {"none", "starting", "deleting"} -> @
                                            [] OTHER -> "deleting"]
  BY DEF DeleteContainers
<1> DEFINE td == coord.todo \ {s}
           dn == coord.done /\ rows[s] = "none"
           st == CASE rows[s] = "creating" -> "none"
                   [] rows[s] \in {"none", "starting", "deleting"} -> rows[s]
                   [] OTHER -> "deleting"
<1>4. coord' = [coord EXCEPT !.todo = td, !.done = dn] /\ rows' = [rows EXCEPT ![s] = st]
  BY <1>3
<1>5. \/ st = rows[s]
      \/ st = "none" /\ rows[s] = "creating"
      \/ st = "deleting" /\ rows[s] # "none"
  OBVIOUS
<1>6. /\ coord \in CoordType /\ rows \in [Services -> RowStatuses] /\ Clean
      /\ coord.res.containers \subseteq Services
      /\ project \in Projects
  BY <1>1, CoordKnows DEF Inv, ResourceType
<1>7. coord.todo \in Todos /\ td \in Todos /\ dn \in BOOLEAN
  BY <1>6, CoordFields DEF Todos
<1> HIDE DEF st
<1>8. rows[s] = "none" => st = "none"
  BY DEF st
<1>9. coord' \in CoordType /\ coord'.pc = "deleteContainers" /\ coord'.res = coord.res
      /\ coord'.todo = td /\ coord'.done = dn
  <2> HIDE DEF td, dn
  <2> QED BY <1>1, <1>4, <1>6, <1>7, CoordDoes
<1>10. /\ rows' \in [Services -> RowStatuses]
       /\ \A t \in Services : \/ t # s /\ rows'[t] = rows[t]
                              \/ t = s /\ rows'[t] = st
  BY <1>4, <1>5, <1>6 DEF RowStatuses
<1>11. ResourcesTyped' /\ FaultsStep
  BY <1>1, <1>10, Found DEF ResourcesTyped, TypeOK, FaultsStep
<1>12. Planned' = Planned
  BY <1>2, SamePlan DEF OthersRest
<1>13. Clean'
  <2>1. Recorded(job.res)' /\ Recorded(coord.res)'
    BY <1>1, <1>6, <1>9, <1>12 DEF Clean, Recorded
  <2>2. ASSUME coord'.done, NEW t \in coord.res.containers
        PROVE  t \in coord'.todo \/ rows'[t] = "none"
    <3>1. coord.done /\ rows[s] = "none"
      BY <1>9, <2>2
    <3>2. t \in coord.todo \/ rows[t] = "none"
      BY <1>1, <1>6, <2>2, <3>1 DEF Clean, Cleaning
    <3> QED BY <1>6, <1>8, <1>9, <1>10, <2>2, <3>1, <3>2
  <2> QED BY <1>9, <2>1, <2>2 DEF Clean
<1>14. \A v \in VolumeNames : Settled(v) => Settled(v)'
  BY <1>1 DEF Settled
<1>15. \A t \in Services : \/ rows'[t] = rows[t]
                           \/ rows'[t] = "none" /\ rows[t] = "creating"
                           \/ rows'[t] = "deleting" /\ rows[t] # "none"
  BY <1>5, <1>10
<1>16. coord.res.cleanup \in {"failed", "canceled"} /\ coord.pc \in CleanupPcs
       /\ coord'.pc \in Cleaning
  BY <1>1, <1>9 DEF Inv, Outcomes, Cleaning, CleanupPcs
<1> QED BY <1>1, <1>2, <1>6, <1>9, <1>11, <1>13, <1>14, <1>15, <1>16, CleansUp

LEMMA BeginVolumesStep ==
    ASSUME Inv, BeginVolumes
    PROVE  Inv'
<1>1. /\ coord.pc = "deleteContainers" /\ coord.todo = {}
      /\ coord' = [coord EXCEPT !.pc = "deleteVolumes",
                                !.todo = coord.res.volumes \ Plan.external]
      /\ UNCHANGED <<NoWork, project, job, resources, faults>>
  BY DEF BeginVolumes, At
<1>2. OthersRest /\ callers' = callers /\ source' = source /\ Unmoved /\ FaultsStep
  BY <1>1, NoWorkRests DEF resources, Unmoved, FaultsStep
<1>3. /\ coord \in CoordType /\ coord.res \in ResourceType /\ project \in Projects /\ Clean
      /\ Recorded(coord.res) /\ Recorded(job.res)
  BY <1>1, CoordKnows DEF Inv
<1>4. PICK T \in Todos : T = coord.res.volumes \ Plan.external
  <2>1. coord.res.volumes \ Plan.external \in Todos
    BY <1>3 DEF ResourceType, Todos
  <2> QED BY <2>1
<1>5. Plan.external = Planned.external
  BY PlanOfJob DEF Inv
<1>6. coord.res.created \subseteq T
  BY <1>3, <1>4, <1>5 DEF Recorded
<1>7. coord' \in CoordType /\ coord'.pc = "deleteVolumes" /\ coord'.res = coord.res
      /\ coord'.todo = T /\ coord'.done = coord.done
  <2>1. coord' = [coord EXCEPT !.pc = "deleteVolumes", !.todo = T]
    BY <1>1, <1>4
  <2>2. "deleteVolumes" \in CoordPcs
    BY DEF CoordPcs
  <2> QED BY <1>3, <2>1, <2>2, CoordTodo
<1>8. /\ ResourcesTyped' /\ Planned' = Planned /\ \A v : Settled(v)' <=> Settled(v)
      /\ \A s : rows'[s] = rows[s]
  BY <1>2, Unmoving
<1>9. Clean'
  <2>1. coord.done => \A s \in coord.res.containers : rows[s] = "none"
    BY <1>1, <1>3 DEF Clean, Cleaning
  <2> QED BY <1>1, <1>3, <1>6, <1>7, <1>8, <2>1 DEF Clean, Recorded
<1>10. coord.res.cleanup \in {"failed", "canceled"} /\ coord.pc \in CleanupPcs
       /\ coord'.pc \in Cleaning
  BY <1>1, <1>7 DEF Inv, Outcomes, Cleaning, CleanupPcs
<1> QED BY <1>1, <1>2, <1>3, <1>7, <1>8, <1>9, <1>10, CleansUp DEF Unmoved

LEMMA DeleteVolumesStep ==
    ASSUME Inv, DeleteVolumes
    PROVE  Inv'
<1>1. coord.pc = "deleteVolumes"
      /\ UNCHANGED <<NoWork, project, job, containers, builds, faults>>
  BY DEF DeleteVolumes, At
<1>2. OthersRest /\ callers' = callers /\ source' = source /\ UNCHANGED <<rows, engine>>
      /\ FaultsStep
  BY <1>1, NoWorkRests DEF containers, FaultsStep
<1>3. PICK v \in coord.todo :
           \/ /\ vols' = [vols EXCEPT ![v] = IF @ \in {"none", "creating", "deleting"}
                                             THEN @ ELSE "deleting"]
              /\ coord' = [coord EXCEPT !.todo = @ \ {v}, !.done = @ /\ vols[v] = "none"]
              /\ UNCHANGED linked
           \/ Rest /\ UNCHANGED <<vols, linked>>
           \/ /\ v \notin coord.res.created
              /\ linked' = linked \ {v}
              /\ coord' = [coord EXCEPT !.todo = @ \ {v}]
              /\ UNCHANGED vols
  BY DEF DeleteVolumes
<1>4. /\ coord \in CoordType /\ coord.res \in ResourceType /\ project \in Projects /\ Clean
      /\ vols \in [VolumeNames -> VolumeStatuses] /\ linked \subseteq VolumeNames
      /\ coord.res.created \subseteq VolumeNames
  BY <1>1, CoordKnows, Found DEF Inv, ResourceType, TypeOK
<1>5. CASE Rest /\ UNCHANGED <<vols, linked>>
  <2>1. Unmoved /\ source' \in Sources
    BY <1>1, <1>2, <1>5, CoordKnows DEF Unmoved
  <2> QED BY <1>1, <1>2, <1>5, <2>1, Rests
<1>6. ASSUME NEW td \in Todos, NEW dn \in BOOLEAN, td = coord.todo \ {v},
             coord' = [coord EXCEPT !.todo = td, !.done = dn],
             dn => coord.done /\ (v \in coord.res.created => vols[v] = "none"),
             vols' \in [VolumeNames -> VolumeStatuses], linked' \subseteq VolumeNames,
             \A u \in VolumeNames : vols[u] = "none" => vols'[u] = "none"
      PROVE  Inv'
  <2>1. coord' \in CoordType /\ coord'.pc = coord.pc /\ coord'.res = coord.res
        /\ coord'.todo = td /\ coord'.done = dn
    BY <1>4, <1>6, CoordDoes
  <2>2. ResourcesTyped'
    BY <1>1, <1>2, <1>6, Found DEF ResourcesTyped, TypeOK
  <2>3. Planned' = Planned
    BY <1>2, SamePlan DEF OthersRest
  <2>4. Clean'
    <3>1. Recorded(job.res)' /\ Recorded(coord.res)'
      BY <1>1, <1>4, <2>1, <2>3 DEF Clean, Recorded
    <3>2. coord'.done => \A s \in coord.res.containers : rows[s] = "none"
      BY <1>1, <1>4, <1>6, <2>1 DEF Clean, Cleaning
    <3>3. ASSUME coord'.done, NEW u \in coord.res.created
          PROVE  u \in coord'.todo \/ vols'[u] = "none"
      <4>1. u \in coord.todo \/ vols[u] = "none"
        BY <1>1, <1>4, <1>6, <2>1, <3>3 DEF Clean
      <4> QED BY <1>4, <1>6, <2>1, <3>3, <4>1
    <3> QED BY <1>1, <1>2, <2>1, <3>1, <3>2, <3>3 DEF Clean
  <2>5. coord.res.cleanup \in {"failed", "canceled"} /\ coord.pc \in CleanupPcs
        /\ coord'.pc \in Cleaning
    BY <1>1, <2>1 DEF Inv, Outcomes, Cleaning, CleanupPcs
  <2> QED BY <1>1, <1>2, <1>4, <2>1, <2>2, <2>4, <2>5, CleansUp
<1>7. coord.todo \ {v} \in Todos /\ coord.done \in BOOLEAN
  BY <1>4, CoordFields DEF Todos
<1>8. CASE /\ vols' = [vols EXCEPT ![v] = IF @ \in {"none", "creating", "deleting"}
                                          THEN @ ELSE "deleting"]
           /\ coord' = [coord EXCEPT !.todo = @ \ {v}, !.done = @ /\ vols[v] = "none"]
           /\ UNCHANGED linked
  <2>1. PICK dn \in BOOLEAN : dn = (coord.done /\ vols[v] = "none")
    BY <1>7
  <2>2. PICK td \in Todos : td = coord.todo \ {v}
    BY <1>7
  <2>3. coord' = [coord EXCEPT !.todo = td, !.done = dn]
    BY <1>8, <2>1, <2>2
  <2>4. /\ vols' \in [VolumeNames -> VolumeStatuses]
        /\ \A u \in VolumeNames : vols[u] = "none" => vols'[u] = "none"
    BY <1>4, <1>8 DEF VolumeStatuses
  <2> QED BY <1>4, <1>6, <1>8, <2>1, <2>2, <2>3, <2>4
<1>9. CASE /\ v \notin coord.res.created
           /\ linked' = linked \ {v}
           /\ coord' = [coord EXCEPT !.todo = @ \ {v}]
           /\ UNCHANGED vols
  <2>1. PICK dn \in BOOLEAN : dn = coord.done
    BY <1>7
  <2>2. PICK td \in Todos : td = coord.todo \ {v}
    BY <1>7
  <2>3. coord' = [coord EXCEPT !.todo = td, !.done = dn]
    <3>1. coord' = [coord EXCEPT !.todo = td]
      BY <1>9, <2>2
    <3> QED BY <1>4, <2>1, <3>1 DEF CoordType
  <2> QED BY <1>4, <1>6, <1>9, <2>1, <2>2, <2>3
<1> QED BY <1>3, <1>5, <1>8, <1>9

-----------------------------------------------------------------------------
(* The invariant *)

LEMMA InitInv == Init => Inv
<1> SUFFICES ASSUME Init
             PROVE  Inv
  OBVIOUS
<1>1. NoJob \in JobType /\ NoJob.order = <<>> /\ NoJob.res = NoResources
      /\ NoJob.status = "none" /\ NoJob.stage = ""
  BY NoResTyped DEF NoJob, JobType, JobStatuses, Stages, OrderSet
<1>2. IdleWorker \in WorkerType /\ IdleWorker.pc = "idle" /\ IdleWorker.order = <<>>
      /\ IdleWorker.res = NoResources
  BY NoResTyped DEF IdleWorker, WorkerType, OrderSet
<1>3. IdleCoord \in CoordType /\ IdleCoord.pc = "idle" /\ IdleCoord.res = NoResources
  BY NoResTyped DEF IdleCoord, CoordType
<1>4. Bare(NoResources) /\ Recorded(NoResources) /\ NoResources.volumes = {}
  BY DEF Bare, Recorded, NoResources
<1>5. faults \in 0..MaxFaults[file]
  BY DeploymentConstants DEF Init
<1>6. ResourcesTyped
  BY DEF Init, ResourcesTyped, RowStatuses, EngineStates, VolumeStatuses, BuildStatuses
<1>7. TypeOK
  BY <1>1, <1>2, <1>3, <1>5, <1>6 DEF Init, TypeOK, ResourcesTyped, ProjectStatuses
<1>8. Typed
  BY <1>1, <1>2, <1>4, <1>7 DEF Init, Typed, OrdersOfFile
<1>9. Quiet
  BY <1>1, <1>2, <1>3 DEF Init, Quiet
<1>10. Outcomes
  BY <1>1, <1>3 DEF Init, Outcomes, Cleaning
<1>11. Clean
  BY <1>1, <1>3, <1>4 DEF Init, Clean, Cleaning
<1>12. Builds /\ Volumes /\ Starts
  BY <1>1, <1>3 DEF Init, Builds, Volumes, Starts, Began, BuildingPcs, CreatingPcs, StartingPcs,
     CleanupPcs
<1>13. Containers
  BY FileTyped DEF Init, Containers
<1>14. Ordered
  BY <1>12, <1>13 DEF Init, Ordered
<1> QED BY <1>8, <1>9, <1>10, <1>11, <1>14 DEF Inv

LEMMA HandlerSteps ==
    ASSUME Inv, NEW w \in Workers, HandlerStep(w) \/ HandlerFails(w)
    PROVE  Inv'
BY ReceiveStep, StartJobStep, CancelJobStep, CancelProjectStep, PrepareStep, SavePlanStep,
   SetProjectStep, LookForBuildsStep, TriggerBuildsStep, WriteBuildsStep, FailProjectStep,
   FailJobStep, HandlerReleasesStep, HandlerFailsStep DEF HandlerStep

LEMMA CoordinatorSteps ==
    ASSUME Inv, CoordinatorStep \/ CoordinatorFails
    PROVE  Inv'
<1>1. CASE Tick \/ CoordReleases \/ CoordinatorFails
  BY <1>1, TickStep, EndingSteps, CoordinatorFailsStep
<1>2. CASE BuildingStep
  BY <1>2, CoordLooksStep, CoordTriggersStep, SaveBuildingStep, CheckBuildsStep, SaveCreatingStep
     DEF BuildingStep
<1>3. CASE CreatingStep
  BY <1>3, ResolveVolumeStep, SaveVolumeStep, WaitForVolumesStep, CreateContainerStep,
     SaveContainerStep, WaitForContainersStep, WriteGraphStep DEF CreatingStep
<1>4. CASE StartingStep
  BY <1>4, StartServiceStep, SaveStartedStep, EndingSteps DEF StartingStep
<1>5. CASE FailureStep
  BY <1>5, CancelBuildsStep, CascadeStep, CascadeMarkStep, CoordFailsProjectStep, CoordCancelsStep
     DEF FailureStep
<1>6. CASE RollbackStep
  BY <1>6, SaveRollbackStep, BeginCleanupStep, DeleteContainersStep, BeginVolumesStep,
     DeleteVolumesStep, SaveCleanupStep, EndingSteps DEF RollbackStep
<1> QED BY <1>1, <1>2, <1>3, <1>4, <1>5, <1>6 DEF CoordinatorStep

LEMMA StutterStep ==
    ASSUME Inv, UNCHANGED vars
    PROVE  Inv'
<1>1. Typed'
  BY DEF Inv, Typed, TypeOK, vars, OrdersOfFile, File
<1>2. Planned' = Planned /\ File' = File /\ Deployable' = Deployable
  BY SamePlan DEF vars
<1>3. Quiet' /\ Outcomes'
  BY DEF Inv, Quiet, Outcomes, vars
<1>4. Clean'
  BY <1>2 DEF Inv, Clean, Recorded, vars
<1>5. AllBuilt' <=> AllBuilt
  BY <1>2 DEF AllBuilt, vars
<1>6. \A v : Settled(v)' <=> Settled(v)
  BY DEF Settled, vars
<1>7. \A s \in Named(File) : Starting(s)' <=> Starting(s)
  BY <1>2 DEF Starting, vars
<1>8. Builds' /\ Volumes' /\ Containers' /\ Starts'
  BY <1>2, <1>5, <1>6, <1>7
     DEF Inv, Ordered, Builds, Volumes, Containers, Starts, Began, vars
<1>9. Ordered'
  BY <1>2, <1>8 DEF Inv, Ordered, vars
<1> QED BY <1>1, <1>3, <1>4, <1>9 DEF Inv

LEMMA NextInv == Inv /\ [Next]_vars => Inv'
<1> SUFFICES ASSUME Inv, [Next]_vars
             PROVE  Inv'
  OBVIOUS
<1>1. CASE StageSource \/ QueueJob \/ RejectRequest \/ ReleaseStaleSource \/ PublisherStep
  BY <1>1, RequestStep, QueueJobStep, PublisherSteps
<1>2. CASE \E w \in Workers : HandlerStep(w) \/ HandlerFails(w)
  BY <1>2, HandlerSteps
<1>3. CASE CoordinatorStep \/ CoordinatorFails
  BY <1>3, CoordinatorSteps
<1>4. CASE \E c \in Callers : AskCancel(c) \/ CallerStep(c)
  BY <1>4, CallerSteps
<1>5. CASE \E s \in Services : ContainerStep(s) \/ Breaks(s) \/ GetsHealthy(s)
             \/ TurnsUnhealthy(s) \/ BuildEnds(s)
  BY <1>5, ContainerSteps, BuildEndsStep
<1>6. CASE \E v \in VolumeNames : VolumeEnds(v)
  BY <1>6, VolumeEndsStep
<1>7. CASE Crash
  BY <1>7, CrashStep
<1>8. CASE UNCHANGED vars
  BY <1>8, StutterStep
<1> QED BY <1>1, <1>2, <1>3, <1>4, <1>5, <1>6, <1>7, <1>8 DEF Next

\* Every behaviour of the coordinators, whatever its inputs, keeps the invariant.
THEOREM Invariance == Spec => []Inv
BY InitInv, NextInv, PTL DEF Spec

-----------------------------------------------------------------------------
(* What follows at once *)

\* Every variable keeps its type: the rows of project, job and outbox, what the
\* handlers, the coordinator and the cancellations hold in memory, the resources.
THEOREM TypeCorrect == Spec => []TypeOK
BY Invariance, PTL DEF Inv, Typed

-----------------------------------------------------------------------------
(* A queued job is carried *)

\* A message that was published and not marked is in the queue, was received,
\* or was acknowledged by a handler that could not cancel the job.
Handled ==
    \/ queue > 0
    \/ \E w \in Workers : workers[w].pc \in {"start", "cancelJob"}
    \/ Abandoned

\* Whoever cancels a job was asked to.
Asked ==
    /\ job.status = "canceling" => job.cancel
    /\ \A w \in Workers : workers[w].pc = "cancelJob" => job.cancel

Carried ==
    /\ QueuedJobIsCarried
    /\ publisher = "mark" /\ job.status = "queued" => Handled
    /\ Asked

\* But for the request and a restart nobody queues a job, a wish to cancel it is
\* never taken back, and a source that was given up stays given up.
GoesForward ==
    /\ job'.status = "queued" => job.status = "queued"
    /\ job'.status = "canceling" => job.status = "canceling" \/ job'.cancel
    /\ job.cancel => job'.cancel
    /\ source' \in {source, "released"}

LEMMA OthersCarry ==
    ASSUME Carried, GoesForward, UNCHANGED <<outbox, queue, publisher, workers>>
    PROVE  Carried'
<1>1. Abandoned => Abandoned'
  BY DEF Abandoned, GoesForward
<1> QED BY <1>1 DEF Carried, QueuedJobIsCarried, Handled, Asked, GoesForward

LEMMA HandlerCarries ==
    ASSUME Carried, GoesForward, NEW w \in Workers, UNCHANGED <<outbox, publisher>>,
           \A v \in Workers \ {w} : workers'[v] = workers[v],
           workers'[w].pc = "cancelJob" => job'.cancel,
           job'.status = "queued" => (Handled => Handled')
    PROVE  Carried'
<1>1. Asked'
  BY DEF Carried, Asked, GoesForward
<1>2. QueuedJobIsCarried <=>
        (job.status = "queued" => outbox \in {"pending", "publishing"} \/ Handled)
  BY DEF QueuedJobIsCarried, Handled
<1>3. QueuedJobIsCarried' <=>
        (job'.status = "queued" => outbox' \in {"pending", "publishing"} \/ Handled')
  BY DEF QueuedJobIsCarried, Handled
<1> QED BY <1>1, <1>2, <1>3 DEF Carried, GoesForward

\* A handler that neither holds the message nor gives the job up.
LEMMA HandledKept ==
    ASSUME GoesForward, NEW w \in Workers, queue' = queue, source' = source,
           workers[w].pc \notin {"start", "cancelJob", "cancelProject", "release"},
           \A v \in Workers \ {w} : workers'[v] = workers[v]
    PROVE  Handled => Handled'
<1>1. Abandoned => Abandoned'
  BY DEF Abandoned, GoesForward
<1> QED BY <1>1 DEF Handled

\* What the steps of the coordinator may write to the job.
CoordinatorWrites ==
    \/ job' = job
    \/ \E st \in Terminal : job' = [job EXCEPT !.status = st]
    \/ Underway /\ \E sg \in Stages, rs \in ResourceType :
                       job' = [job EXCEPT !.stage = sg, !.res = rs]
    \/ MarkCanceled

LEMMA SavingWrites ==
    ASSUME Inv, coord.pc # "idle", NEW sg \in Stages, NEW st, NEW pc, Saving(sg, st, pc)
    PROVE  CoordinatorWrites
<1>1. coord.res \in ResourceType
  BY CoordKnows
<1> QED BY <1>1 DEF Saving, Save, CoordinatorWrites

LEMMA WritesForward ==
    ASSUME TypeOK, CoordinatorWrites, source' \in {source, "released"}
    PROVE  GoesForward
<1>1. job \in JobType /\ job.cancel \in BOOLEAN
  BY JobFields DEF TypeOK
<1>2. ASSUME NEW st \in Terminal, job' = [job EXCEPT !.status = st]
      PROVE  GoesForward
  <2>1. st \in JobStatuses /\ st \notin {"queued", "canceling"}
    BY DEF Terminal, JobStatuses
  <2> QED BY <1>1, <1>2, <2>1, JobStatus DEF GoesForward
<1>3. ASSUME Underway, NEW sg \in Stages, NEW rs \in ResourceType,
             job' = [job EXCEPT !.stage = sg, !.res = rs]
      PROVE  GoesForward
  BY <1>1, <1>3, JobSaved DEF GoesForward
<1>4. CASE MarkCanceled
  BY <1>1, <1>4, JobCancels DEF MarkCanceled, GoesForward
<1> QED BY <1>2, <1>3, <1>4 DEF CoordinatorWrites, GoesForward

LEMMA CoordinatorCarries ==
    ASSUME Inv, Carried, CoordinatorStep \/ CoordinatorFails
    PROVE  Carried'
<1>1. /\ UNCHANGED <<outbox, queue, publisher, workers>>
      /\ source' \in {source, "released"}
  <2>1. CASE Tick \/ BuildingStep \/ CoordReleases \/ CoordinatorFails
    BY <2>1 DEF Tick, BuildingStep, CoordLooks, CoordTriggers, SaveBuilding, CheckBuilds,
       SaveCreating, Saving, CoordReleases, CoordinatorFails, NoWork, delivery
  <2>2. CASE CreatingStep \/ StartingStep
    BY <2>2 DEF CreatingStep, ResolveVolume, SaveVolume, WaitForVolumes, CreateContainer,
       SaveContainer, WaitForContainers, WriteGraph, StartingStep, StartService, SaveStarted,
       FinishProject, FinishJob, Saving, NoWork, delivery
  <2>3. CASE FailureStep \/ RollbackStep
    BY <2>3 DEF FailureStep, CancelBuilds, Cascade, CascadeMark, CoordFailsProject, CoordCancels,
       RollbackStep, SaveRollback, BeginCleanup, DeleteContainers, BeginVolumes, DeleteVolumes,
       SaveCleanup, CompleteJob, Saving, NoWork, delivery
  <2> QED BY <2>1, <2>2, <2>3 DEF CoordinatorStep
<1>2. CoordinatorWrites
  <2> USE DEF At
  <2>1. CASE Tick \/ CoordReleases \/ CoordinatorFails
    BY <2>1 DEF Tick, CoordReleases, CoordinatorFails, CoordinatorWrites
  <2>2. CASE BuildingStep
    <3>1. "building" \in Stages /\ "creating" \in Stages
      BY DEF Stages
    <3> QED BY <2>2, <3>1, SavingWrites DEF BuildingStep, CoordLooks, CoordTriggers, SaveBuilding,
               CheckBuilds, SaveCreating, CoordinatorWrites
  <2>3. CASE WriteGraph
    <3>1. "starting" \in Stages /\ coord.res \in ResourceType
      BY <2>3, CoordKnows DEF Stages, WriteGraph
    <3> QED BY <2>3, <3>1 DEF WriteGraph, Save, CoordinatorWrites
  <2>4. CASE CreatingStep /\ ~WriteGraph
    <3>1. "creating" \in Stages
      BY DEF Stages
    <3> QED BY <2>4, <3>1, SavingWrites DEF CreatingStep, ResolveVolume, SaveVolume, WaitForVolumes,
               CreateContainer, SaveContainer, WaitForContainers, CoordinatorWrites
  <2>5. CASE StartingStep
    <3>1. "starting" \in Stages /\ "succeeded" \in Terminal
      BY DEF Stages, Terminal
    <3> QED BY <2>5, <3>1, SavingWrites DEF StartingStep, StartService, SaveStarted, FinishProject,
               FinishJob, CoordinatorWrites
  <2>6. CASE FailureStep
    BY <2>6 DEF FailureStep, CancelBuilds, Cascade, CascadeMark, CoordFailsProject, CoordCancels,
       CoordinatorWrites
  <2>7. CASE CompleteJob
    <3>1. coord.res.cleanup \in Terminal /\ job' = [job EXCEPT !.status = coord.res.cleanup]
      BY <2>7 DEF CompleteJob, Cleaned, Inv, Outcomes, Cleaning, Terminal
    <3> QED BY <3>1 DEF CoordinatorWrites
  <2>8. CASE RollbackStep /\ ~CompleteJob
    <3>1. "rolling_back" \in Stages
      BY DEF Stages
    <3> QED BY <2>8, <3>1, SavingWrites DEF RollbackStep, SaveRollback, BeginCleanup,
               DeleteContainers, BeginVolumes, DeleteVolumes, SaveCleanup, Cleaned,
               CoordinatorWrites
  <2> QED BY <2>1, <2>2, <2>3, <2>4, <2>5, <2>6, <2>7, <2>8 DEF CoordinatorStep
<1> QED BY <1>1, <1>2, Found, WritesForward, OthersCarry

LEMMA MessageCarried ==
    ASSUME Inv, Carried, NEW w \in Workers, HandlerStep(w) \/ HandlerFails(w)
    PROVE  Carried'
<1>1. /\ workers \in [Workers -> WorkerType] /\ queue \in Nat
      /\ job \in JobType /\ job.cancel \in BOOLEAN
  BY Found, JobFields DEF TypeOK
<1>2. ASSUME NEW pc \in WorkerPcs, Goto(w, pc)
      PROVE  workers'[w].pc = pc /\ \A v \in Workers \ {w} : workers'[v] = workers[v]
  BY <1>1, <1>2, WorkerGoes
<1>3. ASSUME Finish(w)
      PROVE  workers'[w].pc = "idle" /\ \A v \in Workers \ {w} : workers'[v] = workers[v]
  BY <1>1, <1>3, WorkerEnds, IdleBare
<1>4. {"start", "cancelJob", "cancelProject", "release", "prepare", "look", "failProject",
       "failJob", "setProject"} \subseteq WorkerPcs
  BY DEF WorkerPcs
<1>5. job' = job /\ source' \in {source, "released"} => GoesForward
  BY DEF GoesForward
<1>6. Canceling => job.cancel
  BY DEF Canceling, Carried, Asked
<1>7. CASE Receive(w)
  <2>1. /\ UNCHANGED <<job, source, outbox, publisher>> /\ queue > 0 /\ queue' = queue - 1
        /\ \/ Canceling /\ Goto(w, "cancelJob")
           \/ job.status = "queued" /\ Goto(w, "start")
           \/ job.status # "queued" /\ workers' = workers
    BY <1>7 DEF Receive
  <2>2. \A v \in Workers \ {w} : workers'[v] = workers[v]
    BY <1>2, <1>4, <2>1
  <2>3. workers'[w].pc = "cancelJob" => job'.cancel
    BY <1>2, <1>4, <1>6, <2>1 DEF Carried, Asked
  <2>4. job'.status = "queued" => Handled'
    BY <1>2, <1>4, <2>1 DEF Handled
  <2> QED BY <1>5, <2>1, <2>2, <2>3, <2>4, HandlerCarries
<1>8. CASE HandlerFails(w)
  <2>1. UNCHANGED <<job, source, outbox, publisher>> /\ queue' = queue + 1 /\ Finish(w)
    BY <1>8 DEF HandlerFails
  <2>2. Handled'
    BY <1>1, <2>1 DEF Handled
  <2> QED BY <1>3, <1>5, <2>1, <2>2, HandlerCarries
<1>9. CASE StartJob(w)
  <2>1. UNCHANGED <<source, outbox, queue, publisher>>
    BY <1>9 DEF StartJob, delivery
  <2>2. CASE job' = [job EXCEPT !.status = "running", !.attempts = @ + 1] /\ Goto(w, "prepare")
    <3>1. job'.status = "running" /\ job'.cancel = job.cancel
      BY <1>1, <2>2, JobStarts
    <3>2. GoesForward
      BY <2>1, <3>1 DEF GoesForward
    <3> QED BY <1>2, <1>4, <2>1, <2>2, <3>1, <3>2, HandlerCarries
  <2>3. CASE job' = job /\ Canceling /\ Goto(w, "cancelJob")
    <3>1. Handled'
      BY <1>2, <1>4, <2>3 DEF Handled
    <3> QED BY <1>2, <1>4, <1>5, <1>6, <2>1, <2>3, <3>1, HandlerCarries
  <2>4. CASE job' = job /\ ~Canceling /\ job.status # "queued" /\ Finish(w)
    BY <1>3, <1>5, <2>1, <2>4, HandlerCarries
  <2> QED BY <1>9, <2>2, <2>3, <2>4 DEF StartJob, Canceling
<1>10. CASE CancelJob(w)
  <2>1. /\ workers[w].pc = "cancelJob" /\ UNCHANGED <<source, outbox, queue, publisher>>
        /\ Goto(w, "cancelProject")
        /\ job' = [job EXCEPT !.status = "canceled"] \/ job' = job
    BY <1>10 DEF CancelJob, IgnoringError, delivery
  <2>2. workers'[w].pc = "cancelProject" /\ \A v \in Workers \ {w} : workers'[v] = workers[v]
    BY <1>2, <1>4, <2>1
  <2>3. CASE job' = job
    <3>1. Handled'
      BY <2>1, <2>2, <2>3 DEF Handled, Abandoned, Carried, Asked
    <3> QED BY <1>5, <2>1, <2>2, <2>3, <3>1, HandlerCarries
  <2>4. CASE job' = [job EXCEPT !.status = "canceled"]
    <3>1. job'.status = "canceled" /\ job'.cancel = job.cancel
      BY <1>1, <2>4, JobStatus DEF JobStatuses
    <3>2. GoesForward
      BY <2>1, <3>1 DEF GoesForward
    <3> QED BY <2>1, <2>2, <3>1, <3>2, HandlerCarries
  <2> QED BY <2>1, <2>3, <2>4
<1>11. CASE CancelProject(w) \/ HandlerReleases(w)
  <2>1. /\ UNCHANGED <<job, outbox, queue, publisher>> /\ source' \in {source, "released"}
        /\ workers[w].pc \notin {"start", "cancelJob"}
        /\ \/ Goto(w, "release")
           \/ Finish(w) /\ source' = "released"
    BY <1>11 DEF CancelProject, HandlerReleases, delivery
  <2>2. /\ workers'[w].pc = "release" \/ (workers'[w].pc = "idle" /\ source' = "released")
        /\ \A v \in Workers \ {w} : workers'[v] = workers[v]
    BY <1>2, <1>3, <1>4, <2>1
  <2>3. Handled => Handled'
    BY <2>1, <2>2 DEF Handled, Abandoned
  <2> QED BY <1>5, <2>1, <2>2, <2>3, HandlerCarries
<1>12. CASE FailJob(w)
  <2>1. /\ workers[w].pc = "failJob" /\ UNCHANGED <<source, outbox, queue, publisher>>
        /\ Goto(w, "release")
        /\ job' = [job EXCEPT !.status = "failed"] \/ job' = job
    BY <1>12 DEF FailJob, IgnoringError, delivery
  <2>2. job'.cancel = job.cancel /\ job'.status \in {job.status, "failed"}
    BY <1>1, <2>1, JobStatus DEF JobStatuses
  <2>3. GoesForward
    BY <2>1, <2>2 DEF GoesForward
  <2> QED BY <1>2, <1>4, <2>1, <2>3, HandledKept, HandlerCarries
<1>13. CASE SavePlan(w)
  <2>1. /\ workers[w].pc = "savePlan" /\ UNCHANGED <<source, outbox, queue, publisher>>
        /\ Goto(w, "setProject") \/ Finish(w)
    BY <1>13 DEF SavePlan, delivery
  <2>2. job'.cancel = job.cancel /\ job'.status = job.status
    <3> DEFINE sg == IF RequiresBuild(Plan) THEN "building" ELSE "creating"
    <3>1. \/ job' = job
          \/ job' = [job EXCEPT !.stage = sg, !.order = workers[w].order, !.res = NoResources]
      BY <1>13 DEF SavePlan
    <3>2. sg \in Stages /\ workers[w].order \in OrderSet
      BY <1>1, WorkerFields DEF Stages
    <3> HIDE DEF sg
    <3> QED BY <1>1, <3>1, <3>2, NoResTyped, JobPlanned
  <2>3. GoesForward
    BY <2>1, <2>2 DEF GoesForward
  <2> QED BY <1>2, <1>3, <1>4, <2>1, <2>3, HandledKept, HandlerCarries
<1>14. CASE WriteBuilds(w)
  <2>1. /\ workers[w].pc = "trigger" /\ UNCHANGED <<source, outbox, queue, publisher>>
        /\ Goto(w, "release") \/ Finish(w)
    BY <1>14 DEF WriteBuilds, delivery
  <2>2. job'.cancel = job.cancel /\ job'.status = job.status
    <3>1. job' = job \/ job' = [job EXCEPT !.stage = "building", !.res = workers[w].res]
      BY <1>14 DEF WriteBuilds
    <3>2. "building" \in Stages /\ workers[w].res \in ResourceType
      BY <1>1, WorkerFields DEF Stages
    <3> QED BY <1>1, <3>1, <3>2, JobSaved
  <2>3. GoesForward
    BY <2>1, <2>2 DEF GoesForward
  <2> QED BY <1>2, <1>3, <1>4, <2>1, <2>3, HandledKept, HandlerCarries
<1>15. CASE \/ Prepare(w) \/ SetProject(w) \/ LookForBuilds(w) \/ TriggerBuilds(w)
            \/ FailProject(w)
  <2>1. /\ UNCHANGED <<job, source, outbox, queue, publisher>>
        /\ workers[w].pc \notin {"start", "cancelJob", "cancelProject", "release"}
    BY <1>15 DEF Prepare, SetProject, LookForBuilds, TriggerBuilds, FailProject, delivery
  <2>2. workers'[w].pc # "cancelJob" /\ \A v \in Workers \ {w} : workers'[v] = workers[v]
    <3>1. CASE Prepare(w)
      BY <1>1, <1>2, <1>4, <3>1 DEF Prepare
    <3>2. CASE SetProject(w) \/ FailProject(w)
      <4>1. Goto(w, "look") \/ Goto(w, "release") \/ Goto(w, "failJob")
        BY <3>2 DEF SetProject, FailProject
      <4> QED BY <1>2, <1>4, <4>1
    <3>3. Existing \in SUBSET Services
      BY DEF Existing
    <3>4. CASE LookForBuilds(w)
      BY <1>1, <3>3, <3>4, WorkerBuilds DEF LookForBuilds
    <3>5. CASE TriggerBuilds(w)
      <4>1. \/ Goto(w, "failProject")
            \/ \E B : workers' = [workers EXCEPT ![w].res.builds = B]
        BY <3>5 DEF TriggerBuilds
      <4>2. workers[w].pc = "trigger"
        BY <3>5 DEF TriggerBuilds
      <4>3. ASSUME NEW B, workers' = [workers EXCEPT ![w].res.builds = B]
            PROVE  workers'[w].pc = "trigger" /\ \A v \in Workers \ {w} : workers'[v] = workers[v]
        <5> DEFINE x == workers[w]
                   r == [workers[w].res EXCEPT !.builds = B]
        <5>1. x \in WorkerType
          BY <1>1
        <5>2. [x EXCEPT !.res = r].pc = x.pc
          BY <5>1 DEF WorkerType
        <5>3. workers' = [workers EXCEPT ![w] = [x EXCEPT !.res = r]]
          BY <4>3
        <5> QED BY <1>1, <4>2, <5>2, <5>3
      <4> QED BY <1>2, <1>4, <4>1, <4>2, <4>3
    <3> QED BY <1>15, <3>1, <3>2, <3>4, <3>5
  <2> QED BY <1>5, <2>1, <2>2, HandledKept, HandlerCarries
<1> QED BY <1>7, <1>8, <1>9, <1>10, <1>11, <1>12, <1>13, <1>14, <1>15 DEF HandlerStep

LEMMA PublisherCarries ==
    ASSUME Inv, Carried, PublisherStep
    PROVE  Carried'
<1>1. UNCHANGED <<job, source, workers>> /\ queue \in Nat
  BY Found DEF PublisherStep, Lease, Publish, MarkPublished, TypeOK
<1>2. Asked' /\ (Abandoned' <=> Abandoned)
  BY <1>1 DEF Carried, Asked, Abandoned
<1>3. CASE Lease
  BY <1>1, <1>2, <1>3 DEF Lease, Carried, QueuedJobIsCarried
<1>4. CASE Publish
  <2>1. \/ publisher' = "idle" /\ queue' = queue /\ job.status # "queued"
        \/ outbox' = outbox /\ publisher' = "mark" /\ queue' = queue + 1
        \/ outbox' = "pending" /\ publisher' = "idle" /\ queue' = queue
    BY <1>4 DEF Publish, Terminal
  <2> QED BY <1>1, <1>2, <2>1 DEF Carried, QueuedJobIsCarried, Handled
<1>5. CASE MarkPublished
  <2>1. publisher = "mark" /\ publisher' = "idle" /\ queue' = queue
    BY <1>5 DEF MarkPublished
  <2> QED BY <1>1, <1>2, <2>1 DEF Carried, QueuedJobIsCarried, Handled
<1> QED BY <1>3, <1>4, <1>5 DEF PublisherStep

LEMMA RequestCarries ==
    ASSUME Inv, Carried, StageSource \/ QueueJob \/ RejectRequest \/ ReleaseStaleSource
    PROVE  Carried'
<1>1. CASE RejectRequest \/ ReleaseStaleSource
  <2>1. GoesForward /\ UNCHANGED <<outbox, queue, publisher, workers>>
    BY <1>1 DEF RejectRequest, ReleaseStaleSource, delivery, GoesForward
  <2> QED BY <2>1, OthersCarry
<1>2. CASE StageSource
  BY <1>2, Found DEF StageSource, Quiet, delivery, Carried, QueuedJobIsCarried, Asked
<1>3. CASE QueueJob
  <2>1. /\ job' = [NoJob EXCEPT !.status = "queued"] /\ outbox' = "pending"
        /\ publisher' = publisher /\ workers' = workers /\ request = "staged"
    BY <1>3 DEF QueueJob
  <2>2. publisher = "idle" /\ \A w \in Workers : workers[w].pc = "idle"
    BY <2>1, Found DEF Quiet
  <2>3. job'.status = "queued"
    BY <2>1 DEF NoJob
  <2> QED BY <2>1, <2>2, <2>3 DEF Carried, QueuedJobIsCarried, Asked
<1> QED BY <1>1, <1>2, <1>3

LEMMA CrashCarries ==
    ASSUME Inv, Carried, Crash
    PROVE  Carried'
<1>1. /\ publisher' = "idle" /\ workers' = [w \in Workers |-> IdleWorker]
      /\ queue' = queue + Cardinality(Busy) /\ source' = source /\ Recovered
  BY DEF Crash, Busy
<1>2. TypeOK /\ queue \in Nat /\ job \in JobType /\ job.cancel \in BOOLEAN
  BY Found, JobFields DEF TypeOK
<1>3. \/ job' = job /\ outbox' = outbox
      \/ job' = [job EXCEPT !.status = "failed"]
      \/ job' = [job EXCEPT !.status = "queued"] /\ outbox' = "pending"
  BY <1>1 DEF Recovered
<1>4. /\ job'.cancel = job.cancel
      /\ \/ job' = job /\ outbox' = outbox
         \/ job'.status = "failed"
         \/ job'.status = "queued" /\ outbox' = "pending"
  BY <1>2, <1>3, JobStatus DEF JobStatuses
<1>5. \A w \in Workers : workers'[w].pc = "idle"
  BY <1>1, IdleBare
<1>6. Asked'
  BY <1>4, <1>5 DEF Carried, Asked
<1>7. Handled => queue' > 0 \/ (job.cancel /\ source = "released")
  <2>1. (\E w \in Workers : workers[w].pc # "idle") => queue' > 0
    <3>1. (\E w \in Workers : workers[w].pc # "idle") => Busy # {}
      BY DEF Busy
    <3> QED BY <1>1, <1>2, <3>1, BusyCounted
  <2>2. queue > 0 => queue' > 0
    BY <1>1, <1>2, BusyCounted
  <2>3. Abandoned => /\ job.cancel
                     /\ source = "released" \/ \E w \in Workers : workers[w].pc # "idle"
    BY DEF Abandoned
  <2>4. Handled => queue > 0 \/ (\E w \in Workers : workers[w].pc # "idle") \/ Abandoned
    BY DEF Handled
  <2> QED BY <2>1, <2>2, <2>3, <2>4
<1>8. job'.status = "queued" => outbox' = "pending" \/ Handled' \/ outbox' \in {"publishing"}
  <2>1. CASE job' = job /\ outbox' = outbox
    <3>1. job.status = "queued" => outbox \in {"pending", "publishing"} \/ Handled
      BY DEF Carried, QueuedJobIsCarried, Handled
    <3>2. queue' > 0 \/ (job'.cancel /\ source' = "released") => Handled'
      BY DEF Handled, Abandoned
    <3> QED BY <1>1, <1>7, <2>1, <3>1, <3>2
  <2> QED BY <1>4, <2>1
<1>9. QueuedJobIsCarried'
  BY <1>8 DEF QueuedJobIsCarried, Handled
<1> QED BY <1>1, <1>6, <1>9 DEF Carried

LEMMA NextCarries == Inv /\ Carried /\ [Next]_vars => Carried'
<1> SUFFICES ASSUME Inv, Carried, [Next]_vars
             PROVE  Carried'
  OBVIOUS
<1>1. CASE StageSource \/ QueueJob \/ RejectRequest \/ ReleaseStaleSource \/ PublisherStep
  BY <1>1, RequestCarries, PublisherCarries
<1>2. CASE \E w \in Workers : HandlerStep(w) \/ HandlerFails(w)
  BY <1>2, MessageCarried
<1>3. CASE CoordinatorStep \/ CoordinatorFails
  BY <1>3, CoordinatorCarries
<1>4. CASE \E c \in Callers : AskCancel(c) \/ CallerStep(c)
  <2>1. UNCHANGED <<source, outbox, queue, publisher, workers>> /\ (job' = job \/ MarkCanceled)
    BY <1>4 DEF AskCancel, CallerStep, WriteCanceling, RequestCancel, delivery
  <2> QED BY <2>1, Found, WritesForward, OthersCarry DEF CoordinatorWrites
<1>5. CASE \/ \E s \in Services : ContainerStep(s) \/ Breaks(s) \/ GetsHealthy(s)
                                  \/ TurnsUnhealthy(s) \/ BuildEnds(s)
           \/ \E v \in VolumeNames : VolumeEnds(v)
  <2>1. UNCHANGED <<job, source, outbox, queue, publisher, workers>>
    BY <1>5 DEF ContainerStep, CreationEnds, StartEnds, DeletionEnds, Completes, Follow, Breaks,
       GetsHealthy, TurnsUnhealthy, BuildEnds, VolumeEnds, Elsewhere, delivery
  <2> QED BY <2>1, OthersCarry DEF GoesForward
<1>6. CASE Crash
  BY <1>6, CrashCarries
<1>7. CASE UNCHANGED vars
  <2>1. GoesForward /\ UNCHANGED <<outbox, queue, publisher, workers>>
    BY <1>7 DEF vars, GoesForward
  <2> QED BY <2>1, OthersCarry
<1> QED BY <1>1, <1>2, <1>3, <1>4, <1>5, <1>6, <1>7 DEF Next

\* A queued job is on its way to a handler, whatever is lost or fails: its
\* message is to be published, is in the queue or is being handled.  Only a job
\* that is to be canceled may be left behind, when the handler ignored that it
\* could not write so.  LeasePendingComposeOutbox, HandleDeploymentMessage,
\* RecoverInterruptedComposeDeployments.
THEOREM Carriage == Spec => []QueuedJobIsCarried
<1>1. Init => Carried
  <2> SUFFICES ASSUME Init
               PROVE  Carried
    OBVIOUS
  <2>1. job.status = "none" /\ publisher = "idle" /\ \A w \in Workers : workers[w].pc = "idle"
    BY DEF Init, NoJob, IdleWorker
  <2> QED BY <2>1 DEF Carried, QueuedJobIsCarried, Asked
<1> QED BY <1>1, NextCarries, Invariance, PTL DEF Spec, Carried

-----------------------------------------------------------------------------
(* A job that ended stays ended *)

LEMMA SavingEnded ==
    ASSUME NEW sg, NEW st, NEW pc, Saving(sg, st, pc), job.status \in Terminal
    PROVE  job' = job
BY DEF Saving, Underway, Terminal

LEMMA EndedKept ==
    ASSUME Inv, Next, job.status \in Terminal
    PROVE  job'.status \in Terminal
<1>1. job \in JobType /\ job.status \notin {"none", "queued", "running", "canceling"}
  BY Found DEF TypeOK, Terminal
<1>2. ASSUME NEW st \in Terminal, job' = [job EXCEPT !.status = st]
      PROVE  job'.status \in Terminal
  <2>1. st \in JobStatuses
    BY DEF Terminal, JobStatuses
  <2> QED BY <1>1, <1>2, <2>1, JobStatus
<1>3. "failed" \in Terminal /\ "canceled" \in Terminal /\ "succeeded" \in Terminal
  BY DEF Terminal
<1>4. CASE StageSource \/ RejectRequest \/ ReleaseStaleSource \/ PublisherStep
  <2>1. job' = job
    BY <1>4 DEF StageSource, RejectRequest, ReleaseStaleSource, PublisherStep, Lease, Publish,
       MarkPublished
  <2> QED BY <2>1
<1>5. CASE QueueJob
  BY <1>1, <1>5, QueueJobStep
<1>6. ASSUME NEW w \in Workers, HandlerStep(w) \/ HandlerFails(w)
      PROVE  job'.status \in Terminal
  <2>1. CASE Receive(w) \/ CancelProject(w) \/ Prepare(w) \/ SetProject(w) \/ LookForBuilds(w)
             \/ TriggerBuilds(w) \/ FailProject(w) \/ HandlerReleases(w) \/ HandlerFails(w)
    <3>1. job' = job
      BY <2>1 DEF Receive, CancelProject, Prepare, SetProject, LookForBuilds, TriggerBuilds,
         FailProject, HandlerReleases, HandlerFails
    <3> QED BY <3>1
  <2>2. CASE StartJob(w) \/ SavePlan(w) \/ WriteBuilds(w)
    <3>1. job' = job
      BY <1>1, <2>2 DEF StartJob, SavePlan, WriteBuilds, Underway
    <3> QED BY <3>1
  <2>3. CASE CancelJob(w) \/ FailJob(w)
    BY <1>2, <1>3, <2>3 DEF CancelJob, FailJob, IgnoringError
  <2> QED BY <1>6, <2>1, <2>2, <2>3 DEF HandlerStep
<1>7. CASE CoordinatorFails \/ Tick \/ CoordReleases \/ BuildingStep \/ CreatingStep
  <2>1. job' = job
    <3>1. CASE CoordinatorFails \/ Tick \/ CoordReleases
      BY <3>1 DEF CoordinatorFails, Tick, CoordReleases
    <3>2. CASE BuildingStep
      BY <3>2, SavingEnded DEF BuildingStep, CoordLooks, CoordTriggers, SaveBuilding, CheckBuilds,
         SaveCreating
    <3>3. CASE CreatingStep
      BY <1>1, <3>3, SavingEnded
         DEF CreatingStep, ResolveVolume, SaveVolume, WaitForVolumes, CreateContainer,
             SaveContainer, WaitForContainers, WriteGraph, Underway
    <3> QED BY <1>7, <3>1, <3>2, <3>3
  <2> QED BY <2>1
<1>8. CASE StartingStep \/ FailureStep \/ RollbackStep
  <2>1. CASE StartService \/ SaveStarted \/ FinishProject
    <3>1. job' = job
      BY <2>1, SavingEnded DEF StartService, SaveStarted, FinishProject
    <3> QED BY <3>1
  <2>2. CASE FinishJob
    BY <1>2, <1>3, <2>2 DEF FinishJob
  <2>3. CASE CancelBuilds \/ Cascade \/ CascadeMark \/ CoordFailsProject \/ CoordCancels
    <3>1. job' = job
      BY <1>1, <2>3 DEF CancelBuilds, Cascade, CascadeMark, MarkCanceled, Active,
         CoordFailsProject, CoordCancels
    <3> QED BY <3>1
  <2>4. CASE SaveRollback \/ BeginCleanup \/ DeleteContainers \/ BeginVolumes \/ DeleteVolumes
             \/ SaveCleanup
    <3>1. job' = job
      BY <2>4, SavingEnded DEF SaveRollback, BeginCleanup, DeleteContainers, BeginVolumes,
         DeleteVolumes, SaveCleanup
    <3> QED BY <3>1
  <2>5. CASE CompleteJob
    <3>1. coord.pc \in Cleaning /\ job' = [job EXCEPT !.status = coord.res.cleanup]
      BY <2>5 DEF CompleteJob, Cleaned, At, Cleaning
    <3>2. coord.res.cleanup \in Terminal
      BY <3>1 DEF Inv, Outcomes, Terminal
    <3> QED BY <1>2, <3>1, <3>2
  <2> QED BY <1>8, <2>1, <2>2, <2>3, <2>4, <2>5 DEF StartingStep, FailureStep, RollbackStep
<1>9. ASSUME NEW c \in Callers, AskCancel(c) \/ CallerStep(c)
      PROVE  job'.status \in Terminal
  <2>1. job' = job
    BY <1>1, <1>9 DEF AskCancel, CallerStep, WriteCanceling, RequestCancel, MarkCanceled, Active
  <2> QED BY <2>1
<1>10. ASSUME NEW s \in Services,
              ContainerStep(s) \/ Breaks(s) \/ GetsHealthy(s)
             \/ TurnsUnhealthy(s) \/ BuildEnds(s)
       PROVE  job'.status \in Terminal
  <2>1. job' = job
    BY <1>10 DEF ContainerStep, CreationEnds, StartEnds, DeletionEnds, Completes, Follow, Breaks,
       GetsHealthy, TurnsUnhealthy, BuildEnds, Elsewhere
  <2> QED BY <2>1
<1>11. ASSUME NEW v \in VolumeNames, VolumeEnds(v)
       PROVE  job'.status \in Terminal
  <2>1. job' = job
    BY <1>11 DEF VolumeEnds, Elsewhere
  <2> QED BY <2>1
<1>12. CASE Crash
  <2>1. Recovered
    BY <1>12 DEF Crash
  <2>2. job' = job
    BY <1>1, <2>1 DEF Recovered, Underway
  <2> QED BY <2>2
<1> QED BY <1>4, <1>5, <1>6, <1>7, <1>8, <1>9, <1>10, <1>11, <1>12 DEF Next, CoordinatorStep

\* A job that ended stays ended, whatever late messages, late handlers and late
\* cancellations do to it.  failDeploymentJob, UpdateComposeDeploymentProgress,
\* RequestComposeDeploymentCancel, RecoverInterruptedComposeDeployments.
THEOREM Finality == Spec => EndedStaysEnded
<1>1. Inv /\ [Next]_vars => [job.status \in Terminal => job'.status \in Terminal]_vars
  BY EndedKept
<1> QED BY <1>1, Invariance, PTL DEF Spec, EndedStaysEnded

-----------------------------------------------------------------------------
(* A rollback ends clean *)

\* The coordinator ends a rollback only when everything the job had recorded is
\* gone, its containers and the volumes it created, although containers and
\* volumes end at their own time and a tick may see any of them.  cleanupJob.
THEOREM Rollback == Spec => RollbackEndsClean
<1>1. ASSUME Inv, CompleteJob
      PROVE  /\ \A s \in coord.res.containers : rows[s] = "none"
             /\ \A v \in coord.res.created : vols[v] = "none"
  <2>1. coord.pc = "deleteVolumes" /\ coord.todo = {} /\ coord.done
    BY <1>1 DEF CompleteJob, Cleaned, At
  <2>2. Clean
    BY <1>1 DEF Inv
  <2> QED BY <2>1, <2>2 DEF Clean, Cleaning
<1>2. Inv /\ [Next]_vars =>
        [CompleteJob => /\ \A s \in coord.res.containers : rows[s] = "none"
                        /\ \A v \in coord.res.created : vols[v] = "none"]_vars
  BY <1>1
<1> QED BY <1>2, Invariance, PTL DEF Spec, RollbackEndsClean

-----------------------------------------------------------------------------
(* Steps in order *)

\* Whoever creates a container, and whoever sets it running.
LEMMA OnlyCreates ==
    ASSUME Inv, Next, NEW s \in Services, rows[s] = "none", rows'[s] = "creating"
    PROVE  CreateContainer
<1>1. rows \in [Services -> RowStatuses] /\ rows' # rows
  BY Found DEF TypeOK
<1>2. ASSUME StageSource \/ QueueJob \/ RejectRequest \/ ReleaseStaleSource \/ PublisherStep
      PROVE  FALSE
  BY <1>1, <1>2 DEF StageSource, QueueJob, RejectRequest, ReleaseStaleSource, PublisherStep,
     Lease, Publish, MarkPublished, resources
<1>3. ASSUME NEW w \in Workers, HandlerStep(w) \/ HandlerFails(w)
      PROVE  FALSE
  BY <1>1, <1>3 DEF HandlerStep, Receive, StartJob, CancelJob, CancelProject, Prepare, SavePlan,
     SetProject, LookForBuilds, TriggerBuilds, WriteBuilds, FailProject, FailJob, HandlerReleases,
     HandlerFails, resources, containers
<1>4. ASSUME CoordinatorFails \/ Tick \/ CoordReleases \/ BuildingStep \/ FailureStep
      PROVE  FALSE
  BY <1>1, <1>4 DEF CoordinatorFails, Tick, CoordReleases, BuildingStep, CoordLooks,
     CoordTriggers, SaveBuilding, CheckBuilds, SaveCreating, Saving, FailureStep, CancelBuilds,
     Cascade, CascadeMark, CoordFailsProject, CoordCancels, resources, containers
<1>5. CASE CreatingStep
  BY <1>1, <1>5 DEF CreatingStep, ResolveVolume, SaveVolume, WaitForVolumes, SaveContainer,
     WaitForContainers, WriteGraph, Saving, resources, containers
<1>6. ASSUME StartingStep
      PROVE  FALSE
  <2>1. StartService
    BY <1>1, <1>6 DEF StartingStep, SaveStarted, FinishProject, FinishJob, Saving, resources
  <2>2. PICK t : rows' = rows \/ rows' = [rows EXCEPT ![t] = "starting"]
    BY <2>1 DEF StartService
  <2> QED BY <1>1, <2>2
<1>7. ASSUME RollbackStep
      PROVE  FALSE
  <2>1. DeleteContainers
    BY <1>1, <1>7 DEF RollbackStep, SaveRollback, BeginCleanup, BeginVolumes, DeleteVolumes,
       SaveCleanup, CompleteJob, Saving, resources, containers
  <2>2. PICK t : rows' = [rows EXCEPT ![t] = CASE @ = "creating" -> "none"
                                               [] @ \in {"none", "starting", "deleting"} -> @
                                               [] OTHER -> "deleting"]
    BY <2>1 DEF DeleteContainers
  <2>3. t = s
    BY <1>1, <2>2
  <2>4. rows'[s] = "none"
    BY <1>1, <2>2, <2>3
  <2> QED BY <2>4
<1>8. ASSUME NEW c \in Callers, AskCancel(c) \/ CallerStep(c)
      PROVE  FALSE
  BY <1>1, <1>8 DEF AskCancel, CallerStep, WriteCanceling, RequestCancel, resources
<1>9. ASSUME NEW t \in Services, ContainerStep(t) \/ Breaks(t) \/ GetsHealthy(t)
             \/ TurnsUnhealthy(t) \/ BuildEnds(t)
      PROVE  FALSE
  <2>1. PICK st : /\ rows' = rows \/ rows' = [rows EXCEPT ![t] = st]
                  /\ st # "creating"
    BY <1>9 DEF ContainerStep, CreationEnds, StartEnds, DeletionEnds, Completes, Follow, Breaks,
       GetsHealthy, TurnsUnhealthy, BuildEnds, containers
  <2> QED BY <1>1, <2>1
<1>10. ASSUME NEW v \in VolumeNames, VolumeEnds(v)
       PROVE  FALSE
  BY <1>1, <1>10 DEF VolumeEnds, containers
<1>11. ASSUME Crash
       PROVE  FALSE
  BY <1>1, <1>11 DEF Crash, resources
<1> QED BY <1>2, <1>3, <1>4, <1>5, <1>6, <1>7, <1>8, <1>9, <1>10, <1>11
        DEF Next, CoordinatorStep

LEMMA OnlyStarts ==
    ASSUME Inv, Next, NEW s \in Services, engine[s] = "created", engine'[s] = "running"
    PROVE  StartEnds(s)
<1>1. engine \in [Services -> EngineStates] /\ engine' # engine
  BY Found DEF TypeOK
<1>2. ASSUME StageSource \/ QueueJob \/ RejectRequest \/ ReleaseStaleSource \/ PublisherStep
      PROVE  FALSE
  BY <1>1, <1>2 DEF StageSource, QueueJob, RejectRequest, ReleaseStaleSource, PublisherStep,
     Lease, Publish, MarkPublished, resources
<1>3. ASSUME NEW w \in Workers, HandlerStep(w) \/ HandlerFails(w)
      PROVE  FALSE
  BY <1>1, <1>3 DEF HandlerStep, Receive, StartJob, CancelJob, CancelProject, Prepare, SavePlan,
     SetProject, LookForBuilds, TriggerBuilds, WriteBuilds, FailProject, FailJob, HandlerReleases,
     HandlerFails, resources, containers
<1>4. ASSUME CoordinatorFails \/ Tick \/ CoordReleases \/ BuildingStep \/ FailureStep
      PROVE  FALSE
  BY <1>1, <1>4 DEF CoordinatorFails, Tick, CoordReleases, BuildingStep, CoordLooks,
     CoordTriggers, SaveBuilding, CheckBuilds, SaveCreating, Saving, FailureStep, CancelBuilds,
     Cascade, CascadeMark, CoordFailsProject, CoordCancels, resources, containers
<1>5. ASSUME CreatingStep
      PROVE  FALSE
  BY <1>1, <1>5 DEF CreatingStep, ResolveVolume, SaveVolume, WaitForVolumes, SaveContainer,
     WaitForContainers, WriteGraph, CreateContainer, Saving, resources, containers
<1>6. ASSUME StartingStep \/ RollbackStep
      PROVE  FALSE
  BY <1>1, <1>6 DEF StartingStep, StartService, SaveStarted, FinishProject, FinishJob, Saving,
     RollbackStep, SaveRollback, BeginCleanup, DeleteContainers, BeginVolumes, DeleteVolumes,
     SaveCleanup, CompleteJob, resources, containers
<1>7. ASSUME NEW c \in Callers, AskCancel(c) \/ CallerStep(c)
      PROVE  FALSE
  BY <1>1, <1>7 DEF AskCancel, CallerStep, WriteCanceling, RequestCancel, resources
<1>8. ASSUME NEW t \in Services, ContainerStep(t) \/ Breaks(t) \/ GetsHealthy(t)
             \/ TurnsUnhealthy(t) \/ BuildEnds(t)
      PROVE  StartEnds(s)
  <2>1. PICK state : /\ engine' = engine \/ engine' = [engine EXCEPT ![t] = state]
                     /\ state = "running" => StartEnds(t)
    BY <1>8 DEF ContainerStep, CreationEnds, StartEnds, DeletionEnds, Completes, Follow, Breaks,
       GetsHealthy, TurnsUnhealthy, BuildEnds, containers
  <2>2. t = s /\ state = "running"
    BY <1>1, <2>1
  <2> QED BY <2>1, <2>2
<1>9. ASSUME NEW v \in VolumeNames, VolumeEnds(v)
      PROVE  FALSE
  BY <1>1, <1>9 DEF VolumeEnds, containers
<1>10. ASSUME Crash
       PROVE  FALSE
  BY <1>1, <1>10 DEF Crash, resources
<1> QED BY <1>2, <1>3, <1>4, <1>5, <1>6, <1>7, <1>8, <1>9, <1>10
        DEF Next, CoordinatorStep

LEMMA CreatesInOrder ==
    ASSUME Inv, CreateContainer, NEW s \in Services, rows[s] = "none", rows'[s] = "creating"
    PROVE  /\ \A b \in Built(Plan) : builds[b] = "success"
           /\ \A v \in Plan.services[s].mounts : vols[v] # "none"
<1>1. coord.pc = "containers" /\ rows \in [Services -> RowStatuses]
  BY Found DEF CreateContainer, At, TypeOK
<1>2. PICK i \in First(Left(coord.res.containers)) :
          rows' = rows \/ rows' = [rows EXCEPT ![Plan.order[i]] = "creating"]
  BY DEF CreateContainer
<1>3. s = Plan.order[i]
  BY <1>1, <1>2
<1>4. s \in Named(File)
  BY <1>2, <1>3, LeftNamed DEF First
<1>5. Typed
  BY DEF Inv
<1>6. AllBuilt /\ Planned.volumes \subseteq coord.res.volumes
      /\ \A v \in coord.res.volumes : Settled(v)
  BY <1>1, CoordKnows DEF Builds, Volumes, CreatingPcs
<1>7. Planned.services[s].mounts \subseteq Planned.volumes
  BY <1>1, <1>4, CoordKnows, MountsDeclared
<1> QED BY <1>5, <1>6, <1>7, PlanOfJob DEF AllBuilt, Settled

LEMMA RunsInOrder ==
    ASSUME Inv, NEW s \in Services, StartEnds(s), job.stage = "starting",
           NEW d \in Plan.services[s].needs, d.required
    PROVE  Reached(engine[d.on], d.condition)
<1>1. rows[s] = "starting"
  BY DEF StartEnds
<1>2. Typed /\ Quiet
  BY DEF Inv
<1>3. request = "queued"
  BY <1>2, Queued
<1>4. Containers /\ Starts
  BY DEF Inv, Ordered
<1>5. s \in Named(File)
  BY <1>1, <1>4 DEF Containers
<1>6. Starting(s)
  BY <1>4, <1>5 DEF Starts
<1> QED BY <1>1, <1>2, <1>6, PlanOfJob DEF Starting

\* A container is created only after the images of all services were built and
\* the volumes it mounts were there; during a deployment it is started only
\* after its required dependencies had reached their condition.  Handler and
\* coordinator write over each other's progress, builds and cancellations end
\* when they like, and Core restarts in between.
THEOREM Order == Spec => StepsInOrder
<1> DEFINE Step ==
        \A s \in Services :
            /\ rows[s] = "none" /\ rows'[s] = "creating" =>
                   /\ \A b \in Built(Plan) : builds[b] = "success"
                   /\ \A v \in Plan.services[s].mounts : vols[v] # "none"
            /\ engine[s] = "created" /\ engine'[s] = "running" /\ job.stage = "starting" =>
                   \A d \in Plan.services[s].needs :
                       d.required => Reached(engine[d.on], d.condition)
<1>1. ASSUME Inv, Next
      PROVE  Step
  <2>1. ASSUME NEW s \in Services, rows[s] = "none", rows'[s] = "creating"
        PROVE  /\ \A b \in Built(Plan) : builds[b] = "success"
               /\ \A v \in Plan.services[s].mounts : vols[v] # "none"
    BY <1>1, <2>1, OnlyCreates, CreatesInOrder
  <2>2. ASSUME NEW s \in Services, engine[s] = "created", engine'[s] = "running",
               job.stage = "starting", NEW d \in Plan.services[s].needs, d.required
        PROVE  Reached(engine[d.on], d.condition)
    BY <1>1, <2>2, OnlyStarts, RunsInOrder
  <2> QED BY <2>1, <2>2
<1>2. Inv /\ [Next]_vars => [Step]_vars
  BY <1>1
<1> QED BY <1>2, Invariance, PTL DEF Spec, StepsInOrder

-----------------------------------------------------------------------------
(* A job that has no plan has nothing *)

Nothing == linked = {} /\ \A s \in Services : rows[s] = "none" /\ builds[s] = "none"
PlannedPcs == {"setProject", "look", "trigger"}
Unplanned ==
    /\ job.stage = "" => Nothing
    /\ \A w \in Workers : workers[w].pc \in PlannedPcs => job.stage # ""
    /\ coord.pc # "idle" => job.stage # ""

LEMMA SavingStage ==
    ASSUME Inv, NEW sg, NEW st, NEW pc, Saving(sg, st, pc), sg # "", job.stage # ""
    PROVE  job'.stage # ""
<1>1. job \in JobType
  BY Found DEF TypeOK
<1> QED BY <1>1 DEF Saving, Save, JobType

\* The coordinator works on jobs that have a plan, in every one of its steps.
LEMMA CoordinatorPlanned ==
    ASSUME Unplanned, CoordinatorStep \/ CoordinatorFails
    PROVE  job.stage # ""
<1>1. CASE Tick
  BY <1>1 DEF Tick
<1>2. CASE CoordReleases \/ CoordinatorFails
  BY <1>2 DEF CoordReleases, CoordinatorFails, At, Unplanned
<1>3. CASE BuildingStep
  BY <1>3 DEF BuildingStep, CoordLooks, CoordTriggers, SaveBuilding, CheckBuilds, SaveCreating,
     At, Unplanned
<1>4. CASE CreatingStep
  BY <1>4 DEF CreatingStep, ResolveVolume, SaveVolume, WaitForVolumes, CreateContainer,
     SaveContainer, WaitForContainers, WriteGraph, At, Unplanned
<1>5. CASE StartingStep
  BY <1>5 DEF StartingStep, StartService, SaveStarted, FinishProject, FinishJob, At, Unplanned
<1>6. CASE FailureStep
  BY <1>6 DEF FailureStep, CancelBuilds, Cascade, CascadeMark, CoordFailsProject, CoordCancels,
     At, Unplanned
<1>7. CASE RollbackStep
  BY <1>7 DEF RollbackStep, SaveRollback, BeginCleanup, DeleteContainers, BeginVolumes,
     DeleteVolumes, SaveCleanup, CompleteJob, Cleaned, At, Unplanned
<1> QED BY <1>1, <1>2, <1>3, <1>4, <1>5, <1>6, <1>7 DEF CoordinatorStep

LEMMA CoordinatorKeepsPlan ==
    ASSUME Inv, CoordinatorStep \/ CoordinatorFails, job.stage # ""
    PROVE  job'.stage # ""
<1>1. job \in JobType
  BY Found DEF TypeOK
<1>2. CASE job' = job
  BY <1>2
<1>3. ASSUME NEW st, job' = [job EXCEPT !.status = st]
      PROVE  job'.stage # ""
  BY <1>1, <1>3 DEF JobType
<1>4. CASE Tick \/ CoordReleases \/ CoordinatorFails
  BY <1>2, <1>4 DEF Tick, CoordReleases, CoordinatorFails
<1>5. CASE BuildingStep
  BY <1>2, <1>5, SavingStage DEF BuildingStep, CoordLooks, CoordTriggers, SaveBuilding,
     CheckBuilds, SaveCreating
<1>6. CASE CreatingStep
  <2>1. CASE WriteGraph
    BY <1>1, <1>2, <2>1 DEF WriteGraph, Save, JobType
  <2> QED BY <1>2, <1>6, <2>1, SavingStage DEF CreatingStep, ResolveVolume, SaveVolume,
          WaitForVolumes, CreateContainer, SaveContainer, WaitForContainers
<1>7. CASE StartingStep
  BY <1>2, <1>3, <1>7, SavingStage DEF StartingStep, StartService, SaveStarted, FinishProject,
     FinishJob
<1>8. CASE FailureStep
  <2>1. CASE CascadeMark
    BY <1>1, <1>2, <2>1 DEF CascadeMark, MarkCanceled, JobType
  <2> QED BY <1>2, <1>8, <2>1 DEF FailureStep, CancelBuilds, Cascade, CoordFailsProject,
          CoordCancels
<1>9. CASE RollbackStep
  BY <1>2, <1>3, <1>9, SavingStage DEF RollbackStep, SaveRollback, BeginCleanup,
     DeleteContainers, BeginVolumes, DeleteVolumes, SaveCleanup, CompleteJob
<1> QED BY <1>4, <1>5, <1>6, <1>7, <1>8, <1>9 DEF CoordinatorStep

\* A handler gets to the builds by saving the plan.
LEMMA HandlerPlans ==
    ASSUME Inv, Unplanned, NEW w \in Workers, HandlerStep(w) \/ HandlerFails(w)
    PROVE  Unplanned'
<1>1. job \in JobType /\ workers \in [Workers -> WorkerType] /\ coord' = coord
  BY Found DEF TypeOK, HandlerStep, HandlerFails, Receive, StartJob, CancelJob, CancelProject,
     Prepare, SavePlan, SetProject, LookForBuilds, TriggerBuilds, WriteBuilds, FailProject,
     FailJob, HandlerReleases
<1>2. ASSUME job'.stage = job.stage, UNCHANGED resources,
             \A v \in Workers : workers'[v].pc \in PlannedPcs => workers[v].pc \in PlannedPcs
      PROVE  Unplanned'
  BY <1>1, <1>2 DEF Unplanned, Nothing, resources
<1>3. ASSUME NEW r, workers' = [workers EXCEPT ![w] = r], r.pc \notin PlannedPcs
      PROVE  \A v \in Workers : workers'[v].pc \in PlannedPcs => workers[v].pc \in PlannedPcs
  BY <1>1, <1>3
<1>4. ASSUME Finish(w)
      PROVE  \A v \in Workers : workers'[v].pc \in PlannedPcs => workers[v].pc \in PlannedPcs
  BY <1>3, <1>4 DEF Finish, IdleWorker, PlannedPcs
<1>5. ASSUME NEW pc \in WorkerPcs \ PlannedPcs, Goto(w, pc)
      PROVE  \A v \in Workers : workers'[v].pc \in PlannedPcs => workers[v].pc \in PlannedPcs
  <2>1. workers'[w].pc = pc /\ \A v \in Workers \ {w} : workers'[v] = workers[v]
    BY <1>1, <1>5, WorkerGoes
  <2> QED BY <1>5, <2>1
<1>6. {"start", "prepare", "release", "failProject", "failJob", "cancelJob", "cancelProject"}
         \subseteq WorkerPcs \ PlannedPcs
  BY DEF WorkerPcs, PlannedPcs
<1>7. ASSUME job.stage # "", job'.stage # ""
      PROVE  Unplanned'
  BY <1>1, <1>7 DEF Unplanned
<1>8. CASE workers[w].pc \in PlannedPcs
  <2>1. job.stage # ""
    BY <1>8 DEF Unplanned
  <2>2. job' = job \/ WriteBuilds(w)
    BY <1>8 DEF HandlerStep, HandlerFails, PlannedPcs, Receive, StartJob, CancelJob,
       CancelProject, Prepare, SavePlan, SetProject, LookForBuilds, TriggerBuilds, FailProject,
       FailJob, HandlerReleases
  <2>3. job'.stage # ""
    BY <1>1, <2>1, <2>2 DEF WriteBuilds, JobType
  <2> QED BY <1>7, <2>1, <2>3
<1>9. CASE Receive(w) \/ HandlerFails(w)
  <2>1. UNCHANGED <<job, resources>>
        /\ (workers' = workers \/ Finish(w) \/ Goto(w, "cancelJob") \/ Goto(w, "start"))
    BY <1>9 DEF Receive, HandlerFails
  <2> QED BY <1>2, <1>4, <1>5, <1>6, <2>1
<1>10. CASE StartJob(w) \/ CancelJob(w) \/ CancelProject(w) \/ FailProject(w) \/ FailJob(w)
            \/ HandlerReleases(w)
  <2>1. /\ UNCHANGED resources
        /\ \/ Finish(w)
           \/ \E pc \in {"prepare", "cancelJob", "cancelProject", "release", "failJob"} :
                  Goto(w, pc)
    BY <1>10 DEF StartJob, CancelJob, CancelProject, FailProject, FailJob, HandlerReleases
  <2>2. job'.stage = job.stage
    <3>1. \/ job' = job
          \/ job' = [job EXCEPT !.status = "running", !.attempts = @ + 1]
          \/ \E st : job' = [job EXCEPT !.status = st]
      BY <1>10 DEF StartJob, CancelJob, CancelProject, FailProject, FailJob, HandlerReleases,
         IgnoringError
    <3> QED BY <1>1, <3>1 DEF JobType
  <2> QED BY <1>2, <1>4, <1>5, <1>6, <2>1, <2>2
<1>11. CASE Prepare(w)
  <2>1. /\ UNCHANGED <<job, resources>>
        /\ \/ Goto(w, "failProject")
           \/ \E order : workers' = [workers EXCEPT ![w] = [pc |-> "savePlan", order |-> order,
                                                            res |-> NoResources]]
    BY <1>11 DEF Prepare
  <2>2. \A order : [pc |-> "savePlan", order |-> order, res |-> NoResources].pc \notin PlannedPcs
    BY DEF PlannedPcs
  <2> QED BY <1>2, <1>3, <1>5, <1>6, <2>1, <2>2
<1>12. CASE SavePlan(w)
  <2>1. CASE Finish(w) /\ UNCHANGED job
    BY <1>2, <1>4, <1>12, <2>1 DEF SavePlan
  <2>2. CASE job.status = "running"
             /\ job' = [job EXCEPT !.stage = IF RequiresBuild(Plan) THEN "building"
                                                                    ELSE "creating",
                                   !.order = workers[w].order, !.res = NoResources]
    <3>1. job'.stage # ""
      BY <1>1, <2>2 DEF JobType
    <3> QED BY <1>1, <3>1 DEF Unplanned
  <2> QED BY <1>12, <2>1, <2>2 DEF SavePlan
<1> QED BY <1>8, <1>9, <1>10, <1>11, <1>12
        DEF HandlerStep, SetProject, LookForBuilds, TriggerBuilds, WriteBuilds, PlannedPcs

\* Builds, containers and volumes that are there belong to a plan.
LEMMA ResourcesPlanned ==
    ASSUME Inv, Unplanned,
           \/ \E s \in Services : ContainerStep(s) \/ Breaks(s) \/ GetsHealthy(s)
             \/ TurnsUnhealthy(s) \/ BuildEnds(s)
           \/ \E v \in VolumeNames : VolumeEnds(v)
    PROVE  Unplanned'
<1>1. job' = job /\ coord' = coord /\ workers' = workers
  BY DEF ContainerStep, CreationEnds, StartEnds, DeletionEnds, Completes, Follow, Breaks,
     GetsHealthy, TurnsUnhealthy, BuildEnds, VolumeEnds, Elsewhere
<1>2. ASSUME Nothing
      PROVE  Nothing'
  <2>1. ASSUME NEW s \in Services,
               ContainerStep(s) \/ Breaks(s) \/ GetsHealthy(s)
             \/ TurnsUnhealthy(s) \/ BuildEnds(s)
        PROVE  UNCHANGED <<rows, linked, builds>>
    BY <1>2, <2>1 DEF Nothing, ContainerStep, CreationEnds, StartEnds, DeletionEnds, Completes,
       Follow, Breaks, GetsHealthy, TurnsUnhealthy, BuildEnds
  <2>2. ASSUME NEW v \in VolumeNames, VolumeEnds(v)
        PROVE  UNCHANGED <<rows, builds>> /\ linked' \subseteq linked
    BY <2>2 DEF VolumeEnds, containers
  <2> QED BY <1>2, <2>1, <2>2 DEF Nothing
<1> QED BY <1>1, <1>2 DEF Unplanned

\* A job without a plan has no container, no volume and no build, whatever was
\* lost or canceled: what Core finds after a crash without a plan it can queue
\* again from the start, and there is nothing that it has to clean up first.
\* CleanupInterruptedDeployments, RecoverInterruptedComposeDeployments.
THEOREM Unbegun == Spec => [](job.stage = "" => Nothing)
<1>1. Init => Unplanned
  <2> SUFFICES ASSUME Init
               PROVE  Unplanned
    OBVIOUS
  <2>1. Nothing
    BY DEF Init, Nothing
  <2>2. coord.pc = "idle" /\ \A w \in Workers : workers[w].pc = "idle"
    BY DEF Init, IdleCoord, IdleWorker
  <2> QED BY <2>1, <2>2 DEF Unplanned, PlannedPcs
<1>2. ASSUME Inv, Unplanned, [Next]_vars
      PROVE  Unplanned'
  <2>1. ASSUME job'.stage = job.stage, UNCHANGED <<rows, linked, builds>>, coord' = coord,
               workers' = workers
        PROVE  Unplanned'
    BY <1>2, <2>1 DEF Unplanned, Nothing
  <2>2. job \in JobType
    BY <1>2, Found DEF TypeOK
  <2>3. CASE StageSource \/ RejectRequest \/ ReleaseStaleSource \/ PublisherStep \/ UNCHANGED vars
    BY <2>1, <2>3 DEF StageSource, RejectRequest, ReleaseStaleSource, PublisherStep, Lease,
       Publish, MarkPublished, resources, vars
  <2>4. CASE QueueJob
    <3>1. job.stage = "" /\ job'.stage = ""
      BY <1>2, <2>4 DEF QueueJob, NoJob, Inv, Quiet
    <3> QED BY <2>1, <2>4, <3>1 DEF QueueJob, resources
  <2>5. CASE CoordinatorStep \/ CoordinatorFails
    <3>1. job'.stage # ""
      BY <1>2, <2>5, CoordinatorPlanned, CoordinatorKeepsPlan
    <3> QED BY <3>1 DEF Unplanned
  <2>6. ASSUME NEW c \in Callers, AskCancel(c) \/ CallerStep(c)
        PROVE  Unplanned'
    <3>1. UNCHANGED <<rows, linked, builds>> /\ coord' = coord /\ workers' = workers
      BY <2>6 DEF AskCancel, CallerStep, WriteCanceling, RequestCancel, resources
    <3>2. job'.stage = job.stage
      BY <2>2, <2>6 DEF AskCancel, CallerStep, WriteCanceling, RequestCancel, MarkCanceled, JobType
    <3> QED BY <2>1, <3>1, <3>2
  <2>7. CASE Crash
    <3>1. job'.stage = job.stage
      BY <1>2, <2>7, Found, RecoveredTyped DEF Crash, RecordKept
    <3>2. coord'.pc = "idle" /\ \A w \in Workers : workers'[w].pc = "idle"
      BY <2>7 DEF Crash, IdleCoord, IdleWorker
    <3> QED BY <1>2, <2>7, <3>1, <3>2 DEF Crash, resources, Unplanned, Nothing, PlannedPcs
  <2> QED BY <1>2, <2>3, <2>4, <2>5, <2>6, <2>7, HandlerPlans, ResourcesPlanned DEF Next
<1>3. Unplanned => (job.stage = "" => Nothing)
  BY DEF Unplanned
<1> QED BY <1>1, <1>2, <1>3, Invariance, PTL DEF Spec

=============================================================================
