------------------------- MODULE ContainerLifecycle -------------------------
(***************************************************************************)
(* The asynchronous life of a container in the Core service: API requests  *)
(* write an operation and an outbox row in one transaction, the outbox     *)
(* worker publishes it to RabbitMQ, consumer goroutines claim the          *)
(* operation and drive Docker, and a restart of Core recovers what was     *)
(* interrupted.                                                            *)
(*                                                                         *)
(* One step is one database transaction or one Docker call.  A Go call     *)
(* that only reads what nobody else changes is merged with the next step.  *)
(***************************************************************************)
EXTENDS Naturals, FiniteSets

CONSTANTS
    Containers,   \* primary keys of container rows; a key is never reused
    Operations,   \* primary keys of resource_operations
    Workers,      \* consumer goroutines of the container queue, prefetch 1
    Callers,      \* API handlers (the TTL worker's Stop is one of them)
    DockerIds,    \* ids the Docker engine may allot
    None,         \* SQL NULL and Go's zero uuid
    RequestKinds, \* lifecycle requests the callers make
    MaxAttempts,  \* ContainerCreateMaxAttempts
    MaxCopies,    \* bound: copies of one message in the broker
    MaxCrashes,   \* bound: restarts of Core
    MaxFaults,    \* bound: failing calls
    FaultPoints,  \* the calls that may fail in this model
    OutsideActs   \* what happens to Docker outside DCM: "exit", "remove"

Kinds == {"create", "start", "stop", "delete", "expose"}

Faults == {"timeout", "lostReply", "docker", "publish", "confirm",
           "dbMark", "dbCreating", "dbUnclaim", "dbLoad", "dbCheck",
           "dbRecord", "dbTarget", "dbRequeue", "dbFail", "dbComplete", "dbRecover"}

ASSUME ConstantsAssumption ==
    /\ None \notin Containers \cup Operations \cup DockerIds
    /\ IsFiniteSet(Workers)
    /\ RequestKinds \subseteq Kinds \ {"create"}
    /\ MaxAttempts \in Nat \ {0}
    /\ MaxCopies \in Nat /\ MaxCrashes \in Nat /\ MaxFaults \in Nat
    /\ FaultPoints \subseteq Faults
    /\ OutsideActs \subseteq {"exit", "remove"}

VARIABLES
    rows,      \* table containers
    ops,       \* table resource_operations, with the payload of its message
    outbox,    \* table container_lifecycle_queue_outbox: status per operation
    queue,     \* RabbitMQ: deliverable copies of the message of an operation
    publisher, \* the outbox worker
    workers,   \* the consumer goroutines
    callers,   \* the API handlers
    docker,    \* containers of the Docker engine
    crashes, faults   \* budgets spent

vars == <<rows, ops, outbox, queue, publisher, workers, callers, docker,
          crashes, faults>>

-----------------------------------------------------------------------------
(* Data *)

RowStatuses == {"absent", "pending", "creating", "created", "starting",
                "running", "stopping", "exited", "exposing", "error",
                "missing", "deleting"}

RowType == [status : RowStatuses, desired : RowStatuses,
            dockerId : DockerIds \cup {None}, gen : Nat]

NoRow == [status |-> "absent", desired |-> "absent", dockerId |-> None,
          gen |-> 1]

OpStatuses == {"none", "pending", "running", "done", "failed"}

OpType == [status : OpStatuses, kind : Kinds, container : Containers \cup {None},
           attempts : Nat, previous : RowStatuses]

NoOp == [status |-> "none", kind |-> "create", container |-> None,
         attempts |-> 0, previous |-> "absent"]

OutboxStatuses == {"none", "pending", "publishing", "published", "discarded"}

\* States of a Docker container: "failed" exited with a non-zero code,
\* "removed" was removed by DCM, "vanished" was removed by somebody else.
DockerStates == {"none", "created", "running", "exited", "failed",
                 "removed", "vanished"}
Present == {"created", "running", "exited", "failed"}

DockerType == [state : DockerStates, container : Containers \cup {None},
               gen : Nat]

NoDocker == [state |-> "none", container |-> None, gen |-> 0]

IdlePublisher == [pc |-> "idle", op |-> None]
IdleCaller == [pc |-> "idle", kind |-> "stop", container |-> None,
               seen |-> NoRow]
IdleWorker == [pc |-> "idle", op |-> None, claimed |-> FALSE,
               seen |-> NoRow, newId |-> None, verdict |-> "ack"]

WorkerPcs == {"idle", "creating", "unclaim", "load", "check", "createDocker", "docker",
              "startNew", "record", "target", "removeOld", "removeNew",
              "markMissing", "complete", "requeue", "failRow", "failOp",
              "cleanup"}

CallerType == [pc : {"idle", "act"}, kind : Kinds,
               container : Containers \cup {None}, seen : RowType]
WorkerType == [pc : WorkerPcs, op : Operations \cup {None}, claimed : BOOLEAN,
               seen : RowType, newId : DockerIds \cup {None},
               verdict : {"ack", "dead", "retry"}]

Exists(c) == rows[c].status # "absent"
Active(o) == ops[o].status \in {"pending", "running"}
HasActive(c) == \E o \in Operations : ops[o].container = c /\ Active(o)
Finished(o) == ops[o].status \in {"done", "failed"}
Fresh(o) == ops[o].status = "none"

OpOf(w) == ops[workers[w].op]
ContainerOf(w) == OpOf(w).container
KindOf(w) == OpOf(w).kind

Fault(point) ==
    /\ point \in FaultPoints
    /\ faults < MaxFaults
    /\ faults' = faults + 1

Init ==
    /\ rows = [c \in Containers |-> NoRow]
    /\ ops = [o \in Operations |-> NoOp]
    /\ outbox = [o \in Operations |-> "none"]
    /\ queue = [o \in Operations |-> 0]
    /\ publisher = IdlePublisher
    /\ workers = [w \in Workers |-> IdleWorker]
    /\ callers = [k \in Callers |-> IdleCaller]
    /\ docker = [d \in DockerIds |-> NoDocker]
    /\ crashes = 0
    /\ faults = 0

-----------------------------------------------------------------------------
(* API handlers *)

\* The transaction that makes an operation durable: the partial unique index
\* idx_resource_operations_active refuses a second active one.
InsertOperation(o, c, kind, previous) ==
    /\ Fresh(o)
    /\ ~HasActive(c)
    /\ ops' = [ops EXCEPT ![o] = [status |-> "pending", kind |-> kind,
                                  container |-> c, attempts |-> 0,
                                  previous |-> previous]]
    /\ outbox' = [outbox EXCEPT ![o] = "pending"]

\* Create after admission: row, operation and outbox row in one transaction.
CreateContainer(c, o) ==
    /\ ~Exists(c)
    /\ \A p \in Operations : ops[p].container # c
    /\ InsertOperation(o, c, "create", "absent")
    /\ rows' = [rows EXCEPT ![c] = [status |-> "pending", desired |-> "created",
                                    dockerId |-> None, gen |-> 1]]
    /\ UNCHANGED <<queue, publisher, workers, callers, docker, crashes, faults>>

\* A handler reads the row; everything it decides later rests on this copy.
BeginRequest(k, kind, c) ==
    /\ callers[k].pc = "idle"
    /\ kind \in RequestKinds
    /\ Exists(c)
    /\ kind = "delete" \/ rows[c].status # "missing"
    /\ callers' = [callers EXCEPT ![k] = [pc |-> "act", kind |-> kind,
                                          container |-> c, seen |-> rows[c]]]
    /\ UNCHANGED <<rows, ops, outbox, queue, publisher, workers, docker,
                   crashes, faults>>

EndRequest(k) == callers' = [callers EXCEPT ![k] = IdleCaller]

\* Validation, quota, conflict with an active operation, row gone meanwhile.
RejectRequest(k) ==
    /\ callers[k].pc = "act"
    /\ EndRequest(k)
    /\ UNCHANGED <<rows, ops, outbox, queue, publisher, workers, docker,
                   crashes, faults>>

\* Start, Stop and Expose mark a row without a Docker id as missing.
MarkUnprovisioned(k) ==
    LET c == callers[k].container IN
    /\ callers[k].pc = "act"
    /\ callers[k].kind # "delete"
    /\ callers[k].seen.dockerId = None
    /\ rows' = IF Exists(c) THEN [rows EXCEPT ![c].status = "missing"] ELSE rows
    /\ EndRequest(k)
    /\ UNCHANGED <<ops, outbox, queue, publisher, workers, docker, crashes, faults>>

Cancelable(row) == row.dockerId = None /\ row.status \in {"pending", "creating"}

\* Mutant: the operation's name is stored as the status.
KindAsStatus(kind) == kind

BusyStatus(kind) ==
    [start |-> "starting", stop |-> "stopping",
     delete |-> "deleting", expose |-> "exposing"][kind]

DesiredAfter(kind, seen) ==
    [start |-> "running", stop |-> "exited", delete |-> "deleting",
     expose |-> IF seen.desired = "exposing" THEN seen.status
                                             ELSE seen.desired][kind]

\* QueueContainerOperation: operation, row and outbox in one transaction.  The
\* message carries the status of the copy as PreviousStatus.
QueueOperation(k, o) ==
    LET c    == callers[k].container
        kind == callers[k].kind
        seen == callers[k].seen
    IN
    /\ callers[k].pc = "act"
    /\ IF kind = "delete" THEN ~Cancelable(seen) ELSE seen.dockerId # None
    /\ Exists(c)
    /\ InsertOperation(o, c, kind, seen.status)
    /\ rows' = [rows EXCEPT ![c].status = BusyStatus(kind),
                            ![c].desired = DesiredAfter(kind, seen)]
    /\ EndRequest(k)
    /\ UNCHANGED <<queue, publisher, workers, docker, crashes, faults>>

\* ON DELETE CASCADE of the outbox.
OutboxWithout(c) ==
    [o \in Operations |-> IF ops[o].container = c THEN "none" ELSE outbox[o]]

\* Delete of a container that was seen without a Docker id: fails the active
\* create operations, if there still are any, and deletes the row in any case.
CancelCreate(k) ==
    LET c == callers[k].container IN
    /\ callers[k].pc = "act"
    /\ callers[k].kind = "delete"
    /\ Cancelable(callers[k].seen)
    /\ Exists(c)
    /\ ops' = [o \in Operations |->
                  IF ops[o].container = c /\ ops[o].kind = "create" /\ Active(o)
                  THEN [ops[o] EXCEPT !.status = "failed"] ELSE ops[o]]
    /\ outbox' = OutboxWithout(c)
    /\ rows' = [rows EXCEPT ![c] = NoRow]
    /\ EndRequest(k)
    /\ UNCHANGED <<queue, publisher, workers, docker, crashes, faults>>

-----------------------------------------------------------------------------
(* Outbox worker *)

\* A batch of one.  A row left in "publishing" is leased again after a minute.
LeaseOutbox(o) ==
    /\ publisher.pc = "idle"
    /\ outbox[o] \in {"pending", "publishing"}
    /\ outbox' = [outbox EXCEPT ![o] = "publishing"]
    /\ publisher' = [pc |-> "publish", op |-> o]
    /\ UNCHANGED <<rows, ops, queue, workers, callers, docker, crashes, faults>>

SetOutbox(o, status) ==
    outbox' = [outbox EXCEPT ![o] = IF @ = "none" THEN "none" ELSE status]

\* The operation is no longer pending, or the container is gone.  A failure to
\* mark the row is ignored: the lease will expire.
DiscardOutbox ==
    LET o == publisher.op IN
    /\ publisher.pc = "publish"
    /\ ops[o].status # "pending" \/ ~Exists(ops[o].container)
    /\ \/ SetOutbox(o, "discarded") /\ UNCHANGED faults
       \/ Fault("dbMark") /\ UNCHANGED outbox
    /\ publisher' = IdlePublisher
    /\ UNCHANGED <<rows, ops, queue, workers, callers, docker, crashes>>

Copies(o) ==
    queue[o] + Cardinality({w \in Workers : workers[w].op = o})

PublishMessage ==
    LET o == publisher.op IN
    /\ publisher.pc = "publish"
    /\ ops[o].status = "pending" /\ Exists(ops[o].container)
    /\ Copies(o) < MaxCopies
    /\ queue' = [queue EXCEPT ![o] = @ + 1]
    /\ publisher' = [publisher EXCEPT !.pc = "mark"]
    /\ UNCHANGED <<rows, ops, outbox, workers, callers, docker, crashes, faults>>

\* The publish, or a read before it, fails; with "confirm" only the broker's
\* confirmation was lost.
PublishFails ==
    LET o == publisher.op IN
    /\ publisher.pc = "publish"
    /\ \/ Fault("publish") /\ UNCHANGED queue
       \/ /\ ops[o].status = "pending" /\ Exists(ops[o].container)
          /\ Fault("confirm")
          /\ Copies(o) < MaxCopies
          /\ queue' = [queue EXCEPT ![o] = @ + 1]
    /\ SetOutbox(o, "pending")
    /\ publisher' = IdlePublisher
    /\ UNCHANGED <<rows, ops, workers, callers, docker, crashes>>

\* A failure to mark the row is logged only: the lease will expire.
MarkPublished ==
    /\ publisher.pc = "mark"
    /\ \/ SetOutbox(publisher.op, "published") /\ UNCHANGED faults
       \/ Fault("dbMark") /\ UNCHANGED outbox
    /\ publisher' = IdlePublisher
    /\ UNCHANGED <<rows, ops, queue, workers, callers, docker, crashes>>

-----------------------------------------------------------------------------
(* Consumer goroutines *)

Goto(w, pc) == workers' = [workers EXCEPT ![w].pc = pc]

GotoFailing(w, pc, verdict) ==
    workers' = [workers EXCEPT ![w].pc = pc, ![w].verdict = verdict]

\* Mutant: a failed delivery is never put back.
SettleNeverRequeues(w, verdict) ==
    workers' = [workers EXCEPT ![w] = IdleWorker] /\ UNCHANGED queue

\* The handler returns.  "ack" and "dead" (permanent error, dead-letter queue)
\* consume the delivery, "retry" puts it back.
Settle(w, verdict) ==
    /\ workers' = [workers EXCEPT ![w] = IdleWorker]
    /\ queue' = IF verdict = "retry"
                THEN [queue EXCEPT ![workers[w].op] = @ + 1] ELSE queue

\* Mutant: Expose does not remove the generation it cannot use.
LeaveWithoutCleanup(w, verdict) == Settle(w, verdict)

\* The operation is released; Expose still has its deferred cleanup to run.
Leave(w, verdict) ==
    IF workers[w].newId = None
    THEN Settle(w, verdict)
    ELSE /\ workers' = [workers EXCEPT ![w].pc = "cleanup",
                                       ![w].claimed = FALSE,
                                       ![w].verdict = verdict]
         /\ UNCHANGED queue

SetOp(w, status) == ops' = [ops EXCEPT ![workers[w].op].status = status]

SetRowStatus(w, status) ==
    rows' = [rows EXCEPT ![ContainerOf(w)].status = status]

\* Mutant: the claim does not require the operation to be pending.
ClaimUnconditionally(w, o) ==
    /\ workers[w].pc = "idle"
    /\ queue[o] > 0
    /\ ~Finished(o)
    /\ queue' = [queue EXCEPT ![o] = @ - 1]
    /\ ops' = [ops EXCEPT ![o].status = "running"]
    /\ workers' = [workers EXCEPT
          ![w] = [IdleWorker EXCEPT
                    !.pc = IF ops[o].kind = "create" THEN "creating" ELSE "load",
                    !.op = o, !.claimed = TRUE]]
    /\ UNCHANGED <<rows, outbox, publisher, callers, docker, crashes, faults>>

\* Mutant: a message whose operation used up its attempts is only acknowledged.
ClaimForgetsExhausted(w, o) ==
    /\ workers[w].pc = "idle"
    /\ queue[o] > 0
    /\ queue' = [queue EXCEPT ![o] = @ - 1]
    /\ \/ /\ ops[o].status = "pending" /\ ops[o].attempts < MaxAttempts
          /\ ops' = [ops EXCEPT ![o].status = "running",
                                ![o].attempts = @ + 1]
          /\ workers' = [workers EXCEPT
                ![w] = [IdleWorker EXCEPT
                          !.pc = IF ops[o].kind = "create" THEN "creating"
                                                           ELSE "load",
                          !.op = o, !.claimed = TRUE]]
       \/ /\ ops[o].status # "pending" \/ ops[o].attempts >= MaxAttempts
          /\ UNCHANGED <<ops, workers>>
    /\ UNCHANGED <<rows, outbox, publisher, callers, docker, crashes, faults>>

\* ClaimPendingOperation on a delivered message: of all deliveries and
\* redeliveries of an operation only one finds it pending.
Claim(w, o) ==
    /\ workers[w].pc = "idle"
    /\ queue[o] > 0
    /\ queue' = [queue EXCEPT ![o] = @ - 1]
    /\ \/ /\ ops[o].status = "pending" /\ ops[o].attempts < MaxAttempts
          /\ ops' = [ops EXCEPT ![o].status = "running",
                                ![o].attempts = @ + 1]
          /\ workers' = [workers EXCEPT
                ![w] = [IdleWorker EXCEPT
                          !.pc = IF ops[o].kind = "create" THEN "creating"
                                                           ELSE "load",
                          !.op = o, !.claimed = TRUE]]
       \/ /\ ops[o].status = "pending" /\ ops[o].attempts >= MaxAttempts
          /\ workers' = [workers EXCEPT
                ![w] = [IdleWorker EXCEPT !.pc = "failRow", !.op = o]]
          /\ UNCHANGED ops
       \/ ops[o].status # "pending" /\ UNCHANGED <<ops, workers>>
    /\ UNCHANGED <<rows, outbox, publisher, callers, docker, crashes, faults>>

\* Mutant: the requeue is not conditional on the operation being running.
RequeuedUnconditionally(w) ==
    [ops EXCEPT ![workers[w].op].status = "pending"]

RequeuedOps(w) ==
    IF OpOf(w).status = "running"
    THEN [ops EXCEPT ![workers[w].op].status = "pending"] ELSE ops

\* Create first announces itself; without a row the error is permanent.
SetCreating(w) ==
    /\ workers[w].pc = "creating"
    /\ \/ /\ Exists(ContainerOf(w))
          /\ SetRowStatus(w, "creating")
          /\ Goto(w, "load")
          /\ UNCHANGED faults
       \/ /\ ~Exists(ContainerOf(w))
          /\ GotoFailing(w, "unclaim", "dead")
          /\ UNCHANGED <<rows, faults>>
       \/ /\ Exists(ContainerOf(w))
          /\ Fault("dbCreating")
          /\ GotoFailing(w, "unclaim", "retry")
          /\ UNCHANGED rows
    /\ UNCHANGED <<ops, outbox, queue, publisher, callers, docker, crashes>>

\* The requeue after that error; its own error is ignored.
Unclaim(w) ==
    /\ workers[w].pc = "unclaim"
    /\ \/ ops' = RequeuedOps(w) /\ UNCHANGED faults
       \/ Fault("dbUnclaim") /\ UNCHANGED ops
    /\ Settle(w, workers[w].verdict)
    /\ UNCHANGED <<rows, outbox, publisher, callers, docker, crashes>>

AfterLoad(kind, row) ==
    IF kind = "create" THEN IF row.dockerId = None THEN "check" ELSE "complete"
    ELSE IF kind = "delete" \/ row.dockerId # None THEN "check" ELSE "failRow"

\* GetByID: the executor works on this copy of the row.  Without one it fails
\* the operation and leaves the row as it is.
Load(w) ==
    LET row == rows[ContainerOf(w)] IN
    /\ workers[w].pc = "load"
    /\ \/ /\ Exists(ContainerOf(w))
          /\ workers' = [workers EXCEPT
                ![w].seen = row,
                ![w].pc = AfterLoad(KindOf(w), row),
                ![w].verdict = IF AfterLoad(KindOf(w), row) = "failRow"
                               THEN "dead" ELSE "ack"]
          /\ UNCHANGED faults
       \/ /\ ~Exists(ContainerOf(w))
          /\ GotoFailing(w, "failOp", "dead")
          /\ UNCHANGED faults
       \/ /\ Exists(ContainerOf(w))
          /\ Fault("dbLoad")
          /\ GotoFailing(w, "failOp", "retry")
    /\ UNCHANGED <<rows, ops, outbox, queue, publisher, callers, docker, crashes>>

\* ensureCreateOperationRunning.  A canceled operation, or one that cannot be
\* read, ends the handler, which leaves the operation as it is.
CheckRunning(w) ==
    /\ workers[w].pc = "check"
    /\ \/ /\ OpOf(w).status = "running"
          /\ Goto(w, IF KindOf(w) = "create" THEN "createDocker" ELSE "docker")
          /\ UNCHANGED <<queue, faults>>
       \/ OpOf(w).status # "running" /\ Settle(w, "dead") /\ UNCHANGED faults
       \/ Fault("dbCheck") /\ Settle(w, "retry")
    /\ UNCHANGED <<rows, ops, outbox, publisher, callers, docker, crashes>>

\* Expose starts the new generation of a container that was, or should be,
\* running.
StartsNew(w) ==
    "running" \in {OpOf(w).previous, workers[w].seen.desired}

CallsDocker(w) ==
    \/ workers[w].pc \in {"createDocker", "docker"}
    \/ workers[w].pc = "startNew" /\ StartsNew(w)

\* The handler's deadline passes before a Docker call does anything.
DockerTimesOut(w) ==
    /\ CallsDocker(w)
    /\ Fault("timeout")
    /\ Goto(w, "requeue")
    /\ UNCHANGED <<rows, ops, outbox, queue, publisher, callers, docker, crashes>>

\* Docker refuses, or a volume or the image is not usable.
DockerRefuses(w) ==
    /\ CallsDocker(w)
    /\ Fault("docker")
    /\ GotoFailing(w, "failRow", "retry")
    /\ UNCHANGED <<rows, ops, outbox, queue, publisher, callers, docker, crashes>>

Here(d) == d \in DockerIds /\ docker[d].state \in Present

SetDocker(d, state) == docker' = [docker EXCEPT ![d].state = state]

\* The call succeeds and the handler goes on, or its reply comes after the
\* deadline.
Replied(w, pc) ==
    \/ Goto(w, pc) /\ UNCHANGED faults
    \/ Fault("lostReply") /\ Goto(w, "requeue")

\* Names are derived from the container and the generation.
NameTaken(c, gen) ==
    \E d \in DockerIds : Here(d) /\ docker[d].container = c /\ docker[d].gen = gen

\* ContainerCreate; a lost reply leaves a container nobody has the id of.
CreateDocker(w) ==
    LET c   == ContainerOf(w)
        gen == workers[w].seen.gen + (IF KindOf(w) = "create" THEN 0 ELSE 1)
    IN
    /\ workers[w].pc = "createDocker"
    /\ \/ /\ NameTaken(c, gen)
          /\ GotoFailing(w, "failRow", "retry")
          /\ UNCHANGED <<docker, faults>>
       \/ /\ ~NameTaken(c, gen)
          /\ \E d \in DockerIds :
                /\ docker[d].state = "none"
                /\ docker' = [docker EXCEPT ![d] =
                      [state |-> "created", container |-> c, gen |-> gen]]
                /\ \/ /\ workers' = [workers EXCEPT
                            ![w].newId = d,
                            ![w].pc = IF KindOf(w) = "create" THEN "record"
                                                              ELSE "startNew"]
                      /\ UNCHANGED faults
                   \/ Fault("lostReply") /\ Goto(w, "requeue")
    /\ UNCHANGED <<rows, ops, outbox, queue, publisher, callers, crashes>>

\* What start, stop, remove and inspect leave behind of a container in a state.
Outcomes(kind, state) ==
    CASE kind = "start"  -> {"running"}
      [] kind = "stop"   -> IF state = "running" THEN {"exited", "failed"}
                                                 ELSE {state}
      [] kind = "delete" -> {"removed"}
      [] OTHER           -> {state}

\* The one Docker call of Start, Stop and Delete, and Expose's inspect.
CallDocker(w) ==
    LET d == workers[w].seen.dockerId IN
    /\ workers[w].pc = "docker"
    /\ \/ /\ ~Here(d)
          /\ Goto(w, IF KindOf(w) = "delete" THEN "record" ELSE "markMissing")
          /\ UNCHANGED <<docker, faults>>
       \/ /\ Here(d)
          /\ \E state \in Outcomes(KindOf(w), docker[d].state) :
                SetDocker(d, state)
          /\ Replied(w, IF KindOf(w) = "expose" THEN "createDocker" ELSE "record")
    /\ UNCHANGED <<rows, ops, outbox, queue, publisher, callers, crashes>>

StartNew(w) ==
    LET d == workers[w].newId IN
    /\ workers[w].pc = "startNew"
    /\ \/ ~StartsNew(w) /\ Goto(w, "record") /\ UNCHANGED <<docker, faults>>
       \/ StartsNew(w) /\ Here(d) /\ SetDocker(d, "running") /\ Replied(w, "record")
       \/ /\ StartsNew(w) /\ ~Here(d)
          /\ GotoFailing(w, "failRow", "retry")
          /\ UNCHANGED <<docker, faults>>
    /\ UNCHANGED <<rows, ops, outbox, queue, publisher, callers, crashes>>

\* The row's writer of each executor; Delete removes the row.
RecordRow(w) ==
    LET c == ContainerOf(w)
        d == workers[w].newId
    IN
    CASE KindOf(w) = "create" ->
            rows' = [rows EXCEPT ![c].dockerId = d, ![c].status = "created",
                                 ![c].desired = "created"]
      [] KindOf(w) = "start"  -> SetRowStatus(w, "running")
      [] KindOf(w) = "stop"   -> SetRowStatus(w, "exited")
      [] KindOf(w) = "delete" -> rows' = [rows EXCEPT ![c] = NoRow]
      [] KindOf(w) = "expose" ->
            rows' = [rows EXCEPT ![c].dockerId = d,
                                 ![c].gen = workers[w].seen.gen + 1]

\* Expose stops what it started before it gives up; a failure is ignored.
StopNew(w) ==
    LET d == workers[w].newId IN
    \/ UNCHANGED docker
    \/ /\ KindOf(w) = "expose"
       /\ Here(d) /\ docker[d].state = "running"
       /\ \E state \in {"exited", "failed"} : SetDocker(d, state)

\* An UPDATE or DELETE that finds no row is an error like any other.
Record(w) ==
    LET kind == KindOf(w) IN
    /\ workers[w].pc = "record"
    /\ \/ /\ Exists(ContainerOf(w))
          /\ RecordRow(w)
          /\ outbox' = IF kind = "delete" THEN OutboxWithout(ContainerOf(w))
                                          ELSE outbox
          /\ workers' = [workers EXCEPT
                ![w].pc = IF kind = "expose" THEN "target" ELSE "complete",
                ![w].newId = IF kind = "create" THEN None ELSE @]
          /\ UNCHANGED <<docker, faults>>
       \/ /\ IF Exists(ContainerOf(w)) THEN Fault("dbRecord") ELSE UNCHANGED faults
          /\ StopNew(w)
          /\ GotoFailing(w, IF kind = "create" THEN "removeNew" ELSE "failRow",
                         IF Exists(ContainerOf(w)) THEN "retry" ELSE "dead")
          /\ UNCHANGED <<rows, outbox>>
    /\ UNCHANGED <<ops, queue, publisher, callers, crashes>>

\* Expose gives the row back the status it had when the request came.
SetTarget(w) ==
    LET previous == OpOf(w).previous IN
    /\ workers[w].pc = "target"
    /\ \/ /\ Exists(ContainerOf(w))
          /\ SetRowStatus(w, IF previous = "exposing" THEN "created" ELSE previous)
          /\ Goto(w, "removeOld")
          /\ UNCHANGED faults
       \/ /\ IF Exists(ContainerOf(w)) THEN Fault("dbTarget") ELSE UNCHANGED faults
          /\ GotoFailing(w, "failRow",
                         IF Exists(ContainerOf(w)) THEN "retry" ELSE "dead")
          /\ UNCHANGED rows
    /\ UNCHANGED <<ops, outbox, queue, publisher, callers, docker, crashes>>

\* A removal whose error the caller ignores.
RemoveDocker(d) ==
    \/ (IF Here(d) THEN SetDocker(d, "removed") ELSE UNCHANGED docker)
       /\ UNCHANGED faults
    \/ Fault("docker") /\ UNCHANGED docker

\* Mutant: the old generation is looked up in the row after it was updated.
RemoveOldByRow(w) ==
    /\ workers[w].pc = "removeOld"
    /\ RemoveDocker(rows[ContainerOf(w)].dockerId)
    /\ workers' = [workers EXCEPT ![w].pc = "complete", ![w].newId = None]
    /\ UNCHANGED <<rows, ops, outbox, queue, publisher, callers, crashes>>

\* Expose removes the old generation; Create, which could not record its
\* container, removes that.
RemoveOld(w) ==
    /\ workers[w].pc = "removeOld"
    /\ RemoveDocker(workers[w].seen.dockerId)
    /\ workers' = [workers EXCEPT ![w].pc = "complete", ![w].newId = None]
    /\ UNCHANGED <<rows, ops, outbox, queue, publisher, callers, crashes>>

RemoveNew(w) ==
    /\ workers[w].pc = "removeNew"
    /\ RemoveDocker(workers[w].newId)
    /\ workers' = [workers EXCEPT ![w].pc = "failRow", ![w].newId = None]
    /\ UNCHANGED <<rows, ops, outbox, queue, publisher, callers, crashes>>

\* CompleteOperation is unconditional and its error is ignored.
Complete(w) ==
    /\ workers[w].pc = "complete"
    /\ \/ SetOp(w, "done") /\ UNCHANGED faults
       \/ Fault("dbComplete") /\ UNCHANGED ops
    /\ Settle(w, "ack")
    /\ UNCHANGED <<rows, outbox, publisher, callers, docker, crashes>>

MarkMissing(w) ==
    /\ workers[w].pc = "markMissing"
    /\ \/ /\ IF Exists(ContainerOf(w)) THEN SetRowStatus(w, "missing")
                                       ELSE UNCHANGED rows
          /\ UNCHANGED faults
       \/ Fault("dbFail") /\ UNCHANGED rows
    /\ GotoFailing(w, "failOp", "dead")
    /\ UNCHANGED <<ops, outbox, queue, publisher, callers, docker, crashes>>

\* Only a running operation goes back to pending; if it does not, it fails.
Requeue(w) ==
    /\ workers[w].pc = "requeue"
    /\ \/ /\ OpOf(w).status = "running"
          /\ ops' = RequeuedOps(w)
          /\ Leave(w, "retry")
          /\ UNCHANGED faults
       \/ /\ IF OpOf(w).status = "running" THEN Fault("dbRequeue")
                                           ELSE UNCHANGED faults
          /\ GotoFailing(w, "failRow", "retry")
          /\ UNCHANGED <<ops, queue>>
    /\ UNCHANGED <<rows, outbox, publisher, callers, docker, crashes>>

BusyStatuses == {"pending", "creating", "starting", "stopping", "exposing",
                 "deleting"}

RestoredStatus(w) ==
    IF KindOf(w) = "create" \/ OpOf(w).previous \in BusyStatuses
    THEN "error" ELSE OpOf(w).previous

\* failQueuedCreate and failQueuedLifecycle: the row, then the operation.
FailRow(w) ==
    /\ workers[w].pc = "failRow"
    /\ \/ /\ IF Exists(ContainerOf(w)) THEN SetRowStatus(w, RestoredStatus(w))
                                       ELSE UNCHANGED rows
          /\ UNCHANGED faults
       \/ Fault("dbFail") /\ UNCHANGED rows
    /\ Goto(w, "failOp")
    /\ UNCHANGED <<ops, outbox, queue, publisher, callers, docker, crashes>>

\* The errors of these writes are logged or ignored.
FailOp(w) ==
    /\ workers[w].pc = "failOp"
    /\ \/ SetOp(w, "failed") /\ UNCHANGED faults
       \/ Fault("dbFail") /\ UNCHANGED ops
    /\ Leave(w, workers[w].verdict)
    /\ UNCHANGED <<rows, outbox, publisher, callers, docker, crashes>>

\* The deferred function of Expose removes the generation it created.
Cleanup(w) ==
    /\ workers[w].pc = "cleanup"
    /\ RemoveDocker(workers[w].newId)
    /\ Settle(w, workers[w].verdict)
    /\ UNCHANGED <<rows, ops, outbox, publisher, callers, crashes>>

-----------------------------------------------------------------------------
(* Docker outside DCM, and restarts of Core *)

ContainerExits(d) ==
    /\ "exit" \in OutsideActs
    /\ docker[d].state = "running"
    /\ \E state \in {"exited", "failed"} : SetDocker(d, state)
    /\ UNCHANGED <<rows, ops, outbox, queue, publisher, workers, callers,
                   crashes, faults>>

RemovedOutside(d) ==
    /\ "remove" \in OutsideActs
    /\ Here(d)
    /\ SetDocker(d, "vanished")
    /\ UNCHANGED <<rows, ops, outbox, queue, publisher, workers, callers,
                   crashes, faults>>

RecoveredOp(op, skipped) ==
    LET phase == IF op.kind = "create" THEN "creates" ELSE "others" IN
    IF op.status # "running" \/ phase \in skipped THEN op
    ELSE [op EXCEPT !.status = IF op.kind = "create" THEN "pending" ELSE "failed"]

\* Core dies and restarts: the broker takes back unacknowledged deliveries;
\* interrupted creates become pending again and every pending create is
\* published again, other running operations fail.  A phase whose statement
\* fails is skipped.
CrashAndRecover ==
    /\ crashes < MaxCrashes
    /\ crashes' = crashes + 1
    /\ \E skipped \in SUBSET {"creates", "others"} :
          /\ IF skipped = {} THEN UNCHANGED faults ELSE Fault("dbRecover")
          /\ ops' = [o \in Operations |-> RecoveredOp(ops[o], skipped)]
          /\ outbox' = [o \in Operations |->
                IF /\ "creates" \notin skipped /\ outbox[o] # "none"
                   /\ ops'[o].kind = "create" /\ ops'[o].status = "pending"
                THEN "pending" ELSE outbox[o]]
    /\ queue' = [o \in Operations |-> Copies(o)]
    /\ publisher' = IdlePublisher
    /\ workers' = [w \in Workers |-> IdleWorker]
    /\ callers' = [k \in Callers |-> IdleCaller]
    /\ UNCHANGED <<rows, docker>>

-----------------------------------------------------------------------------

Api ==
    \/ \E c \in Containers, o \in Operations : CreateContainer(c, o)
    \/ \E k \in Callers, kind \in RequestKinds, c \in Containers :
          BeginRequest(k, kind, c)
    \/ \E k \in Callers : RejectRequest(k) \/ MarkUnprovisioned(k) \/ CancelCreate(k)
    \/ \E k \in Callers, o \in Operations : QueueOperation(k, o)

Publisher ==
    \/ \E o \in Operations : LeaseOutbox(o)
    \/ DiscardOutbox \/ PublishMessage \/ PublishFails \/ MarkPublished

\* What a consumer goroutine does of its own, once it has a delivery.
Proceed(w) ==
    \/ SetCreating(w) \/ Unclaim(w) \/ Load(w) \/ CheckRunning(w)
    \/ DockerTimesOut(w) \/ DockerRefuses(w) \/ CreateDocker(w) \/ CallDocker(w) \/ StartNew(w)
    \/ Record(w) \/ SetTarget(w) \/ RemoveOld(w) \/ RemoveNew(w) \/ Complete(w)
    \/ MarkMissing(w) \/ Requeue(w) \/ FailRow(w) \/ FailOp(w) \/ Cleanup(w)

Consume(w) == Proceed(w) \/ \E o \in Operations : Claim(w, o)

Outside == \E d \in DockerIds : ContainerExits(d) \/ RemovedOutside(d)

Next == Api \/ Publisher \/ (\E w \in Workers : Consume(w)) \/ Outside
        \/ CrashAndRecover

Spec == Init /\ [][Next]_vars

\* The outbox worker polls for ever, the broker delivers what is queued, a
\* handler runs under a deadline and so ends.
Fairness ==
    /\ WF_vars(Publisher)
    /\ \A w \in Workers : WF_vars(Proceed(w))
    /\ WF_vars(\E w \in Workers, o \in Operations : Claim(w, o))

FairSpec == Spec /\ Fairness

-----------------------------------------------------------------------------
(* Properties *)

\* Every table, queue and goroutine holds values the code can store there.
TypeOK ==
    /\ rows \in [Containers -> RowType]
    /\ ops \in [Operations -> OpType]
    /\ outbox \in [Operations -> OutboxStatuses]
    /\ queue \in [Operations -> Nat]
    /\ publisher \in [pc : {"idle", "publish", "mark"},
                      op : Operations \cup {None}]
    /\ workers \in [Workers -> WorkerType]
    /\ callers \in [Callers -> CallerType]
    /\ docker \in [DockerIds -> DockerType]
    /\ crashes \in Nat
    /\ faults \in Nat

\* Duplicate deliveries, redeliveries and restarts never make two handlers
\* execute operations of one container at the same time.
ExclusiveExecution ==
    \A v, w \in Workers :
        workers[v].claimed /\ workers[w].claimed /\ v # w
            => ContainerOf(v) # ContainerOf(w)

\* An accepted operation is never lost between the tables, the broker and the
\* goroutines: a pending one of a container that exists will be published, is
\* queued or is being delivered, a running one has the goroutine that runs it.
ActiveOperationIsCarried ==
    \A o \in Operations :
        /\ ops[o].status = "pending" /\ Exists(ops[o].container)
              => \/ outbox[o] \in {"pending", "publishing"}
                 \/ Copies(o) > 0
        /\ ops[o].status = "running"
              => \E w \in Workers : workers[w].op = o /\ workers[w].claimed

\* Every Docker container of a row is the one the row refers to, or some
\* goroutine still has its id and its operation is not over: Expose, which
\* owns two for a while, leaks neither on its success nor on its error paths.
NoGenerationLeaks ==
    \A d \in DockerIds :
        Here(d) /\ Exists(docker[d].container) =>
            \/ rows[docker[d].container].dockerId = d
            \/ \E w \in Workers : /\ workers[w].pc # "idle"
                                  /\ d \in {workers[w].newId, workers[w].seen.dockerId}

\* The container a row refers to is only removed by DCM in order to delete the
\* row: no cleanup, whoever runs it and however late, hits a live one.
OnlyDeleteRemovesCurrent ==
    [][\A c \in Containers :
          /\ Here(rows[c].dockerId)
          /\ docker'[rows[c].dockerId].state = "removed"
          => \/ rows'[c].dockerId # rows[c].dockerId
             \/ \E w \in Workers : /\ workers[w].claimed
                                   /\ ContainerOf(w) = c /\ KindOf(w) = "delete"]_vars

\* An operation that ended never becomes active again, and success is never
\* turned into failure, although CompleteOperation writes unconditionally.
FinishedIsFinal ==
    [][\A o \in Operations :
          /\ Finished(o) => Finished(o)'
          /\ ops[o].status = "done" => ops'[o].status = "done"]_vars

\* An accepted operation of a container that stays is done or failed in the
\* end, whatever timeouts, lost confirmations and restarts there are.
AcceptedOperationEnds ==
    \A o \in Operations, c \in Containers :
        ops[o].status = "pending" /\ ops[o].container = c
            ~> Finished(o) \/ ~Exists(c)

\* A row that stays missing, with no operation at work, has lost its Docker
\* container.
MissingMeansGone ==
    \A c \in Containers, d \in DockerIds :
        rows[c].status = "missing" /\ ~HasActive(c) /\ docker[d].container = c
            => ~Here(d)

\* A pending or creating row waits for a background handler: its create is
\* still active.
CreatingAwaitsHandler ==
    \A c \in Containers :
        rows[c].status \in {"pending", "creating"} => HasActive(c)

\* Once a container was deleted and no handler works on it any more, Docker has
\* no container of it either.
DeletedIsRemoved ==
    \A d \in DockerIds :
        LET c == docker[d].container IN
        Here(d) /\ ~Exists(c) =>
            \E w \in Workers : workers[w].pc # "idle" /\ ContainerOf(w) = c

\* The queue implements serial execution: a handler executes an operation from
\* its claim until it gives the operation up.
Serial == INSTANCE SerialExecution WITH
    Resources <- Containers,
    owner     <- [o \in Operations |-> ops[o].container],
    executing <- {workers[w].op : w \in {v \in Workers : workers[v].claimed}},
    finished  <- {o \in Operations : Finished(o)}

RefinesSerialExecution == Serial!Spec

=============================================================================
