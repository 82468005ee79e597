---------------------- MODULE ContainerLifecycleProofs ----------------------
(***************************************************************************)
(* Proofs about ContainerLifecycle, for every value of its constants:      *)
(* type correctness, exclusive execution, finality of finished operations, *)
(* the refinement of SerialExecution, that accepted operations are carried *)
(* and that no Docker container is forgotten.                              *)
(***************************************************************************)
EXTENDS ContainerLifecycle, FiniteSetTheorems, TLAPS

-----------------------------------------------------------------------------
(* The shape of the state: what TypeOK does not say of goroutines, handlers *)
(* and operations.                                                          *)

OpsShape ==
    \A o \in Operations : ops[o].status = "none" <=> ops[o].container = None

WorkersShape ==
    \A w \in Workers :
        /\ workers[w].pc # "idle" => /\ workers[w].op \in Operations
                                     /\ ops[workers[w].op].status # "none"
        /\ workers[w].claimed => workers[w].pc # "idle"
        /\ ~workers[w].claimed =>
              workers[w].pc \in {"idle", "failRow", "failOp", "cleanup"}

CallersShape ==
    \A k \in Callers : callers[k].pc = "act" =>
        callers[k].kind \in RequestKinds /\ callers[k].container \in Containers

Shape == TypeOK /\ OpsShape /\ WorkersShape /\ CallersShape

-----------------------------------------------------------------------------
(* What the helpers of the actions leave in the variables they write. *)

LEMMA NullTypes ==
    /\ NoRow \in RowType
    /\ NoOp \in OpType
    /\ NoDocker \in DockerType
    /\ IdleCaller \in CallerType
    /\ IdleWorker \in WorkerType
    /\ IdlePublisher \in [pc : {"idle", "publish", "mark"},
                          op : Operations \cup {None}]
<1>1. NoRow \in RowType BY DEF NoRow, RowType, RowStatuses
<1>2. NoOp \in OpType BY DEF NoOp, OpType, OpStatuses, Kinds, RowStatuses
<1>3. NoDocker \in DockerType BY DEF NoDocker, DockerType, DockerStates
<1>4. IdleCaller \in CallerType BY <1>1 DEF IdleCaller, CallerType, Kinds
<1>5. IdleWorker \in WorkerType BY <1>1 DEF IdleWorker, WorkerType, WorkerPcs
<1>6. IdlePublisher \in [pc : {"idle", "publish", "mark"},
                         op : Operations \cup {None}]
  BY DEF IdlePublisher
<1> QED BY <1>1, <1>2, <1>3, <1>4, <1>5, <1>6

LEMMA FaultType ==
    ASSUME TypeOK, NEW point, Fault(point)
    PROVE  faults' \in Nat
BY DEF TypeOK, Fault

LEMMA GotoType ==
    ASSUME TypeOK, NEW w \in Workers, NEW pc \in WorkerPcs, Goto(w, pc)
    PROVE  workers' \in [Workers -> WorkerType]
BY DEF TypeOK, Goto, WorkerType

LEMMA GotoFailingType ==
    ASSUME TypeOK, NEW w \in Workers, NEW pc \in WorkerPcs,
           NEW verdict \in {"ack", "dead", "retry"}, GotoFailing(w, pc, verdict)
    PROVE  workers' \in [Workers -> WorkerType]
<1> DEFINE moved == [workers EXCEPT ![w].pc = pc]
<1>1. moved \in [Workers -> WorkerType] BY DEF TypeOK, WorkerType
<1> HIDE DEF moved
<1>2. [moved EXCEPT ![w].verdict = verdict] \in [Workers -> WorkerType]
  BY <1>1 DEF WorkerType
<1> QED BY <1>2 DEF moved, GotoFailing

LEMMA SettleType ==
    ASSUME TypeOK, NEW w \in Workers, workers[w].op \in Operations,
           NEW verdict, Settle(w, verdict)
    PROVE  /\ workers' \in [Workers -> WorkerType]
           /\ queue' \in [Operations -> Nat]
<1>1. workers' \in [Workers -> WorkerType] BY NullTypes DEF TypeOK, Settle
<1>2. queue' \in [Operations -> Nat] BY DEF TypeOK, Settle
<1> QED BY <1>1, <1>2

LEMMA LeaveType ==
    ASSUME TypeOK, NEW w \in Workers, workers[w].op \in Operations,
           NEW verdict \in {"ack", "dead", "retry"}, Leave(w, verdict)
    PROVE  /\ workers' \in [Workers -> WorkerType]
           /\ queue' \in [Operations -> Nat]
<1>1. CASE workers[w].newId = None
  BY <1>1, SettleType DEF Leave
<1>2. CASE workers[w].newId # None
  BY <1>2 DEF TypeOK, Leave, WorkerType, WorkerPcs
<1> QED BY <1>1, <1>2

LEMMA SetOpType ==
    ASSUME TypeOK, NEW w \in Workers, NEW status \in OpStatuses, SetOp(w, status)
    PROVE  ops' \in [Operations -> OpType]
<1>1. CASE workers[w].op \in Operations
  <2>1. ops[workers[w].op] \in OpType BY <1>1 DEF TypeOK
  <2>2. [ops[workers[w].op] EXCEPT !.status = status] \in OpType
    BY <2>1 DEF OpType
  <2> QED BY <1>1, <2>2 DEF TypeOK, SetOp
<1>2. CASE workers[w].op \notin Operations BY <1>2 DEF TypeOK, SetOp
<1> QED BY <1>1, <1>2

LEMMA RequeuedOpsType ==
    ASSUME TypeOK, NEW w \in Workers
    PROVE  RequeuedOps(w) \in [Operations -> OpType]
<1>1. CASE workers[w].op \in Operations
  <2>1. ops[workers[w].op] \in OpType BY <1>1 DEF TypeOK
  <2>2. [ops[workers[w].op] EXCEPT !.status = "pending"] \in OpType
    BY <2>1 DEF OpType, OpStatuses
  <2> QED BY <1>1, <2>2 DEF TypeOK, RequeuedOps
<1>2. CASE workers[w].op \notin Operations BY <1>2 DEF TypeOK, RequeuedOps
<1> QED BY <1>1, <1>2

LEMMA SetRowStatusType ==
    ASSUME TypeOK, NEW w \in Workers, NEW status \in RowStatuses,
           SetRowStatus(w, status)
    PROVE  rows' \in [Containers -> RowType]
<1>1. CASE ContainerOf(w) \in Containers
  <2>1. rows[ContainerOf(w)] \in RowType BY <1>1 DEF TypeOK
  <2>2. [rows[ContainerOf(w)] EXCEPT !.status = status] \in RowType
    BY <2>1 DEF RowType
  <2> QED BY <1>1, <2>2 DEF TypeOK, SetRowStatus
<1>2. CASE ContainerOf(w) \notin Containers
  BY <1>2 DEF TypeOK, SetRowStatus
<1> QED BY <1>1, <1>2

LEMMA SetDockerType ==
    ASSUME TypeOK, NEW d, NEW state \in DockerStates, SetDocker(d, state)
    PROVE  docker' \in [DockerIds -> DockerType]
BY DEF TypeOK, SetDocker, DockerType

LEMMA RemoveDockerType ==
    ASSUME TypeOK, NEW d, RemoveDocker(d)
    PROVE  docker' \in [DockerIds -> DockerType] /\ faults' \in Nat
<1>1. docker' \in [DockerIds -> DockerType]
  BY SetDockerType DEF TypeOK, RemoveDocker, DockerStates
<1>2. faults' \in Nat BY FaultType DEF TypeOK, RemoveDocker
<1> QED BY <1>1, <1>2

LEMMA RepliedType ==
    ASSUME TypeOK, NEW w \in Workers, NEW pc \in WorkerPcs, Replied(w, pc)
    PROVE  workers' \in [Workers -> WorkerType] /\ faults' \in Nat
<1>1. workers' \in [Workers -> WorkerType]
  BY GotoType DEF Replied, WorkerPcs
<1>2. faults' \in Nat BY FaultType DEF TypeOK, Replied
<1> QED BY <1>1, <1>2

LEMMA SetOutboxType ==
    ASSUME TypeOK, NEW o, NEW status \in OutboxStatuses, SetOutbox(o, status)
    PROVE  outbox' \in [Operations -> OutboxStatuses]
BY DEF TypeOK, SetOutbox, OutboxStatuses

LEMMA CopiesType ==
    ASSUME TypeOK, NEW o \in Operations
    PROVE  Copies(o) \in Nat
<1>1. Cardinality({w \in Workers : workers[w].op = o}) \in Nat
  BY ConstantsAssumption, FS_Subset, FS_CardinalityType DEF ConstantsAssumption
<1> QED BY <1>1 DEF TypeOK, Copies

-----------------------------------------------------------------------------
(* Type correctness, one lemma per group of actions. *)

LEMMA CreateContainerType ==
    ASSUME Shape, NEW c \in Containers, NEW o \in Operations, CreateContainer(c, o)
    PROVE  TypeOK'
<1>1. rows' \in [Containers -> RowType]
  BY DEF Shape, TypeOK, CreateContainer, RowType, RowStatuses
<1>2. ops' \in [Operations -> OpType]
  BY DEF Shape, TypeOK, CreateContainer, InsertOperation, OpType, OpStatuses,
         Kinds, RowStatuses
<1>3. outbox' \in [Operations -> OutboxStatuses]
  BY DEF Shape, TypeOK, CreateContainer, InsertOperation, OutboxStatuses
<1> QED BY <1>1, <1>2, <1>3 DEF Shape, TypeOK, CreateContainer

LEMMA BeginRequestType ==
    ASSUME Shape, NEW k \in Callers, NEW kind \in RequestKinds,
           NEW c \in Containers, BeginRequest(k, kind, c)
    PROVE  TypeOK'
<1>1. kind \in Kinds BY ConstantsAssumption DEF ConstantsAssumption
<1>2. rows[c] \in RowType BY DEF Shape, TypeOK
<1>3. callers' \in [Callers -> CallerType]
  BY <1>1, <1>2 DEF Shape, TypeOK, BeginRequest, CallerType
<1> QED BY <1>3 DEF Shape, TypeOK, BeginRequest

LEMMA EndRequestType ==
    ASSUME Shape, NEW k \in Callers, EndRequest(k)
    PROVE  callers' \in [Callers -> CallerType]
BY NullTypes DEF Shape, TypeOK, EndRequest

LEMMA RejectRequestType ==
    ASSUME Shape, NEW k \in Callers, RejectRequest(k)
    PROVE  TypeOK'
BY EndRequestType DEF Shape, TypeOK, RejectRequest

LEMMA MarkUnprovisionedType ==
    ASSUME Shape, NEW k \in Callers, MarkUnprovisioned(k)
    PROVE  TypeOK'
<1>1. "missing" \in RowStatuses BY DEF RowStatuses
<1>2. \/ rows' = [rows EXCEPT ![callers[k].container].status = "missing"]
      \/ rows' = rows
  BY DEF MarkUnprovisioned
<1>3. rows' \in [Containers -> RowType]
  BY <1>1, <1>2 DEF Shape, TypeOK, RowType
<1> QED BY <1>3, EndRequestType DEF Shape, TypeOK, MarkUnprovisioned

LEMMA QueueOperationType ==
    ASSUME Shape, NEW k \in Callers, NEW o \in Operations, QueueOperation(k, o)
    PROVE  TypeOK'
<1> DEFINE c    == callers[k].container
           kind == callers[k].kind
           seen == callers[k].seen
<1>1. /\ kind \in Kinds \ {"create"}
      /\ seen.status \in RowStatuses /\ seen.desired \in RowStatuses
      /\ c \in Containers \cup {None}
  BY ConstantsAssumption
     DEF ConstantsAssumption, Shape, TypeOK, CallersShape, QueueOperation,
         CallerType, RowType
<1>2. BusyStatus(kind) \in RowStatuses
  BY <1>1 DEF BusyStatus, RowStatuses, Kinds
<1>3. DesiredAfter(kind, seen) \in RowStatuses
  BY <1>1 DEF DesiredAfter, RowStatuses, Kinds
<1>4. rows' \in [Containers -> RowType]
  <2> DEFINE row == [rows[c] EXCEPT !.status = BusyStatus(kind), !.desired = DesiredAfter(kind, seen)]
  <2>1. c \in Containers => rows[c] \in RowType
    BY DEF Shape, TypeOK
  <2>2. c \in Containers => row \in RowType
    BY <1>2, <1>3, <2>1 DEF RowType
  <2>3. rows' = [rows EXCEPT ![c] = row] /\ rows \in [Containers -> RowType]
    BY DEF Shape, TypeOK, QueueOperation
  <2> HIDE DEF row
  <2> QED BY <2>2, <2>3
<1>5. ops' \in [Operations -> OpType]
  <2> DEFINE op == [status |-> "pending", kind |-> kind, container |-> c, attempts |-> 0,
                    previous |-> seen.status]
  <2>1. op \in OpType
    BY <1>1 DEF OpType, OpStatuses
  <2>2. ops' = [ops EXCEPT ![o] = op]
    BY DEF QueueOperation, InsertOperation
  <2>3. ops \in [Operations -> OpType]
    BY DEF Shape, TypeOK
  <2> HIDE DEF op
  <2> QED BY <2>1, <2>2, <2>3
<1>6. outbox' \in [Operations -> OutboxStatuses]
  BY DEF Shape, TypeOK, QueueOperation, InsertOperation, OutboxStatuses
<1> QED BY <1>4, <1>5, <1>6, EndRequestType DEF Shape, TypeOK, QueueOperation

LEMMA OutboxWithoutType ==
    ASSUME TypeOK, NEW c
    PROVE  OutboxWithout(c) \in [Operations -> OutboxStatuses]
BY DEF TypeOK, OutboxWithout, OutboxStatuses

LEMMA CancelCreateType ==
    ASSUME Shape, NEW k \in Callers, CancelCreate(k)
    PROVE  TypeOK'
<1>1. rows' \in [Containers -> RowType]
  BY NullTypes DEF Shape, TypeOK, CancelCreate
<1>2. ops' \in [Operations -> OpType]
  BY DEF Shape, TypeOK, CancelCreate, OpType, OpStatuses
<1>3. outbox' \in [Operations -> OutboxStatuses]
  BY OutboxWithoutType DEF Shape, CancelCreate
<1> QED BY <1>1, <1>2, <1>3, EndRequestType DEF Shape, TypeOK, CancelCreate

LEMMA PublisherType ==
    ASSUME Shape, Publisher
    PROVE  TypeOK'
<1>1. ASSUME NEW o \in Operations, LeaseOutbox(o) PROVE TypeOK'
  BY <1>1 DEF Shape, TypeOK, LeaseOutbox, OutboxStatuses
<1>2. CASE DiscardOutbox
  <2>1. outbox' \in [Operations -> OutboxStatuses]
    BY <1>2, SetOutboxType DEF Shape, TypeOK, DiscardOutbox, OutboxStatuses
  <2>2. faults' \in Nat BY <1>2, FaultType DEF Shape, TypeOK, DiscardOutbox
  <2> QED BY <1>2, <2>1, <2>2, NullTypes DEF Shape, TypeOK, DiscardOutbox
<1>3. CASE PublishMessage
  <2>1. publisher.op \in Operations => queue' \in [Operations -> Nat]
    BY <1>3 DEF Shape, TypeOK, PublishMessage
  <2>2. publisher.op \notin Operations => queue' = queue
    BY <1>3 DEF Shape, TypeOK, PublishMessage
  <2> QED BY <1>3, <2>1, <2>2 DEF Shape, TypeOK, PublishMessage
<1>4. CASE PublishFails
  <2>1. publisher.op \in Operations => queue' \in [Operations -> Nat]
    BY <1>4 DEF Shape, TypeOK, PublishFails
  <2>2. publisher.op \notin Operations => queue' = queue
    BY <1>4 DEF Shape, TypeOK, PublishFails
  <2>3. outbox' \in [Operations -> OutboxStatuses]
    BY <1>4, SetOutboxType DEF Shape, PublishFails, OutboxStatuses
  <2>4. faults' \in Nat BY <1>4, FaultType DEF Shape, PublishFails
  <2> QED BY <1>4, <2>1, <2>2, <2>3, <2>4, NullTypes
          DEF Shape, TypeOK, PublishFails
<1>5. CASE MarkPublished
  <2>1. outbox' \in [Operations -> OutboxStatuses]
    BY <1>5, SetOutboxType DEF Shape, TypeOK, MarkPublished, OutboxStatuses
  <2>2. faults' \in Nat BY <1>5, FaultType DEF Shape, TypeOK, MarkPublished
  <2> QED BY <1>5, <2>1, <2>2, NullTypes DEF Shape, TypeOK, MarkPublished
<1> QED BY <1>1, <1>2, <1>3, <1>4, <1>5 DEF Publisher

LEMMA ClaimType ==
    ASSUME Shape, NEW w \in Workers, NEW o \in Operations, Claim(w, o)
    PROVE  TypeOK'
<1>1. queue' \in [Operations -> Nat] BY DEF Shape, TypeOK, Claim
<1>2. ops' \in [Operations -> OpType]
  BY DEF Shape, TypeOK, Claim, OpType, OpStatuses
<1>3. [IdleWorker EXCEPT !.pc = IF ops[o].kind = "create" THEN "creating"
                                                           ELSE "load",
                         !.op = o, !.claimed = TRUE] \in WorkerType
  BY NullTypes DEF WorkerType, WorkerPcs
<1>4. [IdleWorker EXCEPT !.pc = "failRow", !.op = o] \in WorkerType
  BY NullTypes DEF WorkerType, WorkerPcs
<1>5. workers' \in [Workers -> WorkerType]
  BY <1>3, <1>4 DEF Shape, TypeOK, Claim
<1> QED BY <1>1, <1>2, <1>5 DEF Shape, TypeOK, Claim

\* A goroutine that is not idle works on an operation of a container.
LEMMA WorkerFacts ==
    ASSUME Shape, NEW w \in Workers, workers[w].pc # "idle"
    PROVE  /\ workers[w].op \in Operations
           /\ ContainerOf(w) \in Containers
           /\ OpOf(w) \in OpType
           /\ KindOf(w) \in Kinds
           /\ OpOf(w).previous \in RowStatuses
           /\ workers[w] \in WorkerType
           /\ rows[ContainerOf(w)] \in RowType
BY DEF Shape, TypeOK, OpsShape, WorkersShape, ContainerOf, KindOf, OpOf, OpType,
       WorkerType

LEMMA SetCreatingType ==
    ASSUME Shape, NEW w \in Workers, SetCreating(w)
    PROVE  TypeOK'
<1> USE WorkerFacts DEF Shape
<1>1. rows' \in [Containers -> RowType]
  BY SetRowStatusType DEF TypeOK, SetCreating, RowStatuses
<1>2. workers' \in [Workers -> WorkerType]
  BY GotoType, GotoFailingType DEF SetCreating, WorkerPcs
<1>3. faults' \in Nat BY FaultType DEF TypeOK, SetCreating
<1> QED BY <1>1, <1>2, <1>3 DEF TypeOK, SetCreating

LEMMA UnclaimType ==
    ASSUME Shape, NEW w \in Workers, Unclaim(w)
    PROVE  TypeOK'
<1> USE WorkerFacts DEF Shape
<1>1. ops' \in [Operations -> OpType]
  BY RequeuedOpsType DEF TypeOK, Unclaim
<1>2. workers' \in [Workers -> WorkerType] /\ queue' \in [Operations -> Nat]
  BY SettleType DEF TypeOK, Unclaim
<1>3. faults' \in Nat BY FaultType DEF TypeOK, Unclaim
<1> QED BY <1>1, <1>2, <1>3 DEF TypeOK, Unclaim

LEMMA LoadType ==
    ASSUME Shape, NEW w \in Workers, Load(w)
    PROVE  TypeOK'
<1> USE WorkerFacts DEF Shape
<1>1. AfterLoad(KindOf(w), rows[ContainerOf(w)]) \in WorkerPcs
  BY DEF AfterLoad, WorkerPcs
<1>2. GotoFailing(w, "failOp", "dead") \/ GotoFailing(w, "failOp", "retry")
         => workers' \in [Workers -> WorkerType]
  BY GotoFailingType DEF WorkerPcs
<1>3. workers' \in [Workers -> WorkerType]
  BY <1>1, <1>2 DEF TypeOK, Load, WorkerType
<1>4. faults' \in Nat BY FaultType DEF TypeOK, Load
<1> QED BY <1>3, <1>4 DEF TypeOK, Load

LEMMA CheckRunningType ==
    ASSUME Shape, NEW w \in Workers, CheckRunning(w)
    PROVE  TypeOK'
<1> USE WorkerFacts DEF Shape
<1>1. workers' \in [Workers -> WorkerType]
  BY GotoType, SettleType DEF CheckRunning, WorkerPcs
<1>2. queue' \in [Operations -> Nat] BY SettleType DEF TypeOK, CheckRunning
<1>3. faults' \in Nat BY FaultType DEF TypeOK, CheckRunning
<1> QED BY <1>1, <1>2, <1>3 DEF TypeOK, CheckRunning

LEMMA DockerFailsType ==
    ASSUME Shape, NEW w \in Workers, DockerTimesOut(w) \/ DockerRefuses(w)
    PROVE  TypeOK'
<1>1. workers' \in [Workers -> WorkerType]
  BY GotoType, GotoFailingType
     DEF Shape, DockerTimesOut, DockerRefuses, WorkerPcs
<1>2. faults' \in Nat
  BY FaultType DEF Shape, DockerTimesOut, DockerRefuses
<1> QED BY <1>1, <1>2 DEF Shape, TypeOK, DockerTimesOut, DockerRefuses

LEMMA CreateDockerType ==
    ASSUME Shape, NEW w \in Workers, CreateDocker(w)
    PROVE  TypeOK'
<1> DEFINE gen == workers[w].seen.gen
                  + (IF KindOf(w) = "create" THEN 0 ELSE 1)
<1>1. workers[w].pc # "idle" BY DEF CreateDocker
<1>2. gen \in Nat BY <1>1, WorkerFacts DEF WorkerType, RowType
<1>3. ASSUME NEW d \in DockerIds
      PROVE  [state |-> "created", container |-> ContainerOf(w), gen |-> gen]
                \in DockerType
  BY <1>1, <1>2, WorkerFacts DEF DockerType, DockerStates
<1>4. docker' \in [DockerIds -> DockerType]
  BY <1>3 DEF Shape, TypeOK, CreateDocker
<1>5. ASSUME NEW d \in DockerIds, NEW pc \in {"record", "startNew"}
      PROVE  [workers EXCEPT ![w].newId = d, ![w].pc = pc]
                \in [Workers -> WorkerType]
  <2> DEFINE ws == [workers EXCEPT ![w].newId = d]
  <2>1. ws \in [Workers -> WorkerType] BY DEF Shape, TypeOK, WorkerType
  <2> HIDE DEF ws
  <2>2. [ws EXCEPT ![w].pc = pc] \in [Workers -> WorkerType]
    BY <2>1 DEF WorkerType, WorkerPcs
  <2> QED BY <2>2 DEF ws
<1>6. {"requeue", "failRow"} \subseteq WorkerPcs
  BY DEF WorkerPcs
<1>7. workers' \in [Workers -> WorkerType]
  <2>1. \/ GotoFailing(w, "failRow", "retry")
        \/ Goto(w, "requeue")
        \/ \E d \in DockerIds : \E pc \in {"record", "startNew"} :
              workers' = [workers EXCEPT ![w].newId = d, ![w].pc = pc]
    BY DEF CreateDocker
  <2>2. CASE GotoFailing(w, "failRow", "retry")
    BY <1>6, <2>2, GotoFailingType DEF Shape
  <2>3. CASE Goto(w, "requeue") BY <1>6, <2>3, GotoType DEF Shape
  <2>4. ASSUME NEW d \in DockerIds, NEW pc \in {"record", "startNew"},
               workers' = [workers EXCEPT ![w].newId = d, ![w].pc = pc]
        PROVE  workers' \in [Workers -> WorkerType]
    BY <1>5, <2>4
  <2> QED BY <2>1, <2>2, <2>3, <2>4
<1>8. faults' \in Nat BY FaultType DEF Shape, TypeOK, CreateDocker
<1> QED BY <1>4, <1>7, <1>8 DEF Shape, TypeOK, CreateDocker

LEMMA CallDockerType ==
    ASSUME Shape, NEW w \in Workers, CallDocker(w)
    PROVE  TypeOK'
<1>1. \A kind, state : state \in DockerStates =>
         Outcomes(kind, state) \subseteq DockerStates
  BY DEF Outcomes, DockerStates
<1>2. Here(workers[w].seen.dockerId) =>
         docker[workers[w].seen.dockerId].state \in DockerStates
  BY DEF Shape, TypeOK, Here, DockerType
<1>3. docker' \in [DockerIds -> DockerType]
  BY <1>1, <1>2, SetDockerType DEF Shape, TypeOK, CallDocker
<1>4. {"record", "markMissing", "createDocker"} \subseteq WorkerPcs
  BY DEF WorkerPcs
<1>5. workers' \in [Workers -> WorkerType]
  BY <1>4, GotoType, RepliedType DEF Shape, CallDocker
<1>6. faults' \in Nat
  BY <1>4, RepliedType DEF Shape, TypeOK, CallDocker
<1> QED BY <1>3, <1>5, <1>6 DEF Shape, TypeOK, CallDocker

LEMMA StartNewType ==
    ASSUME Shape, NEW w \in Workers, StartNew(w)
    PROVE  TypeOK'
<1>1. docker' \in [DockerIds -> DockerType]
  BY SetDockerType DEF Shape, TypeOK, StartNew, DockerStates
<1>2. {"record", "failRow"} \subseteq WorkerPcs
  BY DEF WorkerPcs
<1>3. workers' \in [Workers -> WorkerType]
  BY <1>2, GotoType, GotoFailingType, RepliedType DEF Shape, StartNew
<1>4. faults' \in Nat
  BY <1>2, RepliedType DEF Shape, TypeOK, StartNew
<1> QED BY <1>1, <1>3, <1>4 DEF Shape, TypeOK, StartNew

LEMMA RecordType ==
    ASSUME Shape, NEW w \in Workers, Record(w)
    PROVE  TypeOK'
<1> DEFINE kind == KindOf(w)
<1>1. workers[w].pc # "idle" BY DEF Record
<1>2. workers[w].newId \in DockerIds \cup {None} /\ workers[w].seen.gen + 1 \in Nat
  BY <1>1, WorkerFacts DEF WorkerType, RowType
<1>3. RecordRow(w) => rows' \in [Containers -> RowType]
  <2> SUFFICES ASSUME RecordRow(w) PROVE rows' \in [Containers -> RowType]
    OBVIOUS
  <2>1. CASE kind = "create"
    BY <1>2, <2>1 DEF Shape, TypeOK, RecordRow, RowType, RowStatuses
  <2>2. CASE kind \in {"start", "stop"}
    BY <2>2, SetRowStatusType DEF Shape, RecordRow, RowStatuses
  <2>3. CASE kind = "delete"
    BY <2>3, NullTypes DEF Shape, TypeOK, RecordRow
  <2>4. CASE kind = "expose"
    BY <1>2, <2>4 DEF Shape, TypeOK, RecordRow, RowType
  <2> QED BY <1>1, <2>1, <2>2, <2>3, <2>4, WorkerFacts DEF Kinds
<1>4. rows' \in [Containers -> RowType] BY <1>3 DEF Shape, TypeOK, Record
<1>5. outbox' \in [Operations -> OutboxStatuses]
  BY OutboxWithoutType DEF Shape, TypeOK, Record
<1>6. {"removeNew", "failRow"} \subseteq WorkerPcs BY DEF WorkerPcs
<1>7. [workers EXCEPT ![w].pc = IF kind = "expose" THEN "target" ELSE "complete",
                      ![w].newId = IF kind = "create" THEN None ELSE @]
         \in [Workers -> WorkerType]
  <2> SUFFICES ASSUME NEW pc \in WorkerPcs
               PROVE  [workers EXCEPT ![w].pc = pc,
                            ![w].newId = IF kind = "create" THEN None ELSE @]
                         \in [Workers -> WorkerType]
    BY DEF WorkerPcs
  <2> DEFINE ws == [workers EXCEPT ![w].pc = pc]
  <2>1. ws \in [Workers -> WorkerType]
    BY DEF Shape, TypeOK, WorkerType
  <2> HIDE DEF ws
  <2>2. [ws EXCEPT ![w].newId = IF kind = "create" THEN None ELSE @]
           \in [Workers -> WorkerType]
    BY <2>1 DEF WorkerType
  <2> QED BY <2>2 DEF ws
<1>8. workers' \in [Workers -> WorkerType]
  BY <1>6, <1>7, GotoFailingType DEF Shape, Record
<1>9. faults' \in Nat BY FaultType DEF Shape, TypeOK, Record
<1>10. docker' \in [DockerIds -> DockerType]
  <2>1. StopNew(w) => docker' \in [DockerIds -> DockerType]
    BY SetDockerType DEF Shape, TypeOK, StopNew, Here, DockerStates
  <2> QED BY <2>1 DEF Shape, TypeOK, Record
<1> QED BY <1>4, <1>5, <1>8, <1>9, <1>10 DEF Shape, TypeOK, Record

LEMMA SetTargetType ==
    ASSUME Shape, NEW w \in Workers, SetTarget(w)
    PROVE  TypeOK'
<1>1. workers[w].pc # "idle" BY DEF SetTarget
<1>2. "created" \in RowStatuses /\ OpOf(w).previous \in RowStatuses
  BY <1>1, WorkerFacts DEF RowStatuses
<1>3. rows' \in [Containers -> RowType]
  BY <1>2, SetRowStatusType DEF Shape, TypeOK, SetTarget
<1>4. workers' \in [Workers -> WorkerType]
  BY GotoType, GotoFailingType DEF Shape, SetTarget, WorkerPcs
<1>5. faults' \in Nat BY FaultType DEF Shape, TypeOK, SetTarget
<1> QED BY <1>3, <1>4, <1>5 DEF Shape, TypeOK, SetTarget

LEMMA RemoveOldNewType ==
    ASSUME Shape, NEW w \in Workers, RemoveOld(w) \/ RemoveNew(w)
    PROVE  TypeOK'
<1>1. docker' \in [DockerIds -> DockerType] /\ faults' \in Nat
  BY RemoveDockerType DEF Shape, RemoveOld, RemoveNew
<1>2. workers' \in [Workers -> WorkerType]
  BY DEF Shape, TypeOK, RemoveOld, RemoveNew, WorkerType, WorkerPcs
<1> QED BY <1>1, <1>2 DEF Shape, TypeOK, RemoveOld, RemoveNew

LEMMA CompleteType ==
    ASSUME Shape, NEW w \in Workers, Complete(w)
    PROVE  TypeOK'
<1> USE WorkerFacts DEF Shape
<1>1. ops' \in [Operations -> OpType]
  BY SetOpType DEF TypeOK, Complete, OpStatuses
<1>2. workers' \in [Workers -> WorkerType] /\ queue' \in [Operations -> Nat]
  BY SettleType DEF Complete
<1>3. faults' \in Nat BY FaultType DEF TypeOK, Complete
<1> QED BY <1>1, <1>2, <1>3 DEF TypeOK, Complete

LEMMA MarkMissingType ==
    ASSUME Shape, NEW w \in Workers, MarkMissing(w)
    PROVE  TypeOK'
<1>1. rows' \in [Containers -> RowType]
  BY SetRowStatusType DEF Shape, TypeOK, MarkMissing, RowStatuses
<1>2. workers' \in [Workers -> WorkerType]
  BY GotoFailingType DEF Shape, MarkMissing, WorkerPcs
<1>3. faults' \in Nat BY FaultType DEF Shape, TypeOK, MarkMissing
<1> QED BY <1>1, <1>2, <1>3 DEF Shape, TypeOK, MarkMissing

LEMMA RequeueType ==
    ASSUME Shape, NEW w \in Workers, Requeue(w)
    PROVE  TypeOK'
<1> USE WorkerFacts DEF Shape
<1>1. ops' \in [Operations -> OpType]
  BY RequeuedOpsType DEF TypeOK, Requeue
<1>2. workers' \in [Workers -> WorkerType]
  BY LeaveType, GotoFailingType DEF Requeue, WorkerPcs
<1>3. queue' \in [Operations -> Nat] BY LeaveType DEF TypeOK, Requeue
<1>4. faults' \in Nat BY FaultType DEF TypeOK, Requeue
<1> QED BY <1>1, <1>2, <1>3, <1>4 DEF TypeOK, Requeue

LEMMA FailRowType ==
    ASSUME Shape, NEW w \in Workers, FailRow(w)
    PROVE  TypeOK'
<1>1. RestoredStatus(w) \in RowStatuses
  BY WorkerFacts DEF FailRow, RestoredStatus, RowStatuses
<1>2. rows' \in [Containers -> RowType]
  BY <1>1, SetRowStatusType DEF Shape, TypeOK, FailRow
<1>3. workers' \in [Workers -> WorkerType]
  BY GotoType DEF Shape, FailRow, WorkerPcs
<1>4. faults' \in Nat BY FaultType DEF Shape, TypeOK, FailRow
<1> QED BY <1>2, <1>3, <1>4 DEF Shape, TypeOK, FailRow

LEMMA FailOpType ==
    ASSUME Shape, NEW w \in Workers, FailOp(w)
    PROVE  TypeOK'
<1> USE WorkerFacts DEF Shape
<1>1. ops' \in [Operations -> OpType]
  BY SetOpType DEF TypeOK, FailOp, OpStatuses
<1>2. workers[w].verdict \in {"ack", "dead", "retry"}
  BY DEF FailOp, WorkerType
<1>3. workers' \in [Workers -> WorkerType] /\ queue' \in [Operations -> Nat]
  BY <1>2, LeaveType DEF FailOp
<1>4. faults' \in Nat BY FaultType DEF TypeOK, FailOp
<1> QED BY <1>1, <1>3, <1>4 DEF TypeOK, FailOp

LEMMA CleanupType ==
    ASSUME Shape, NEW w \in Workers, Cleanup(w)
    PROVE  TypeOK'
<1> USE WorkerFacts DEF Shape
<1>1. docker' \in [DockerIds -> DockerType] /\ faults' \in Nat
  BY RemoveDockerType DEF Cleanup
<1>2. workers' \in [Workers -> WorkerType] /\ queue' \in [Operations -> Nat]
  BY SettleType DEF Cleanup
<1> QED BY <1>1, <1>2 DEF TypeOK, Cleanup

LEMMA OutsideType ==
    ASSUME Shape, Outside
    PROVE  TypeOK'
<1> USE DEF Shape
<1>1. ASSUME NEW d \in DockerIds, ContainerExits(d) PROVE TypeOK'
  <2>1. docker' \in [DockerIds -> DockerType]
    BY <1>1, SetDockerType DEF ContainerExits, DockerStates
  <2> QED BY <1>1, <2>1 DEF TypeOK, ContainerExits
<1>2. ASSUME NEW d \in DockerIds, RemovedOutside(d) PROVE TypeOK'
  <2>1. docker' \in [DockerIds -> DockerType]
    BY <1>2, SetDockerType DEF RemovedOutside, DockerStates
  <2> QED BY <1>2, <2>1 DEF TypeOK, RemovedOutside
<1> QED BY <1>1, <1>2 DEF Outside

LEMMA CrashType ==
    ASSUME Shape, CrashAndRecover
    PROVE  TypeOK'
<1> USE DEF Shape
<1>1. ops' \in [Operations -> OpType]
  <2>1. \A op \in OpType : \A skipped : RecoveredOp(op, skipped) \in OpType
    BY DEF RecoveredOp, OpType, OpStatuses
  <2> QED BY <2>1 DEF TypeOK, CrashAndRecover
<1>2. outbox' \in [Operations -> OutboxStatuses]
  BY DEF TypeOK, CrashAndRecover, OutboxStatuses
<1>3. queue' \in [Operations -> Nat] BY CopiesType DEF CrashAndRecover
<1>4. crashes' \in Nat BY DEF TypeOK, CrashAndRecover
<1>5. faults' \in Nat BY FaultType DEF TypeOK, CrashAndRecover
<1> QED BY <1>1, <1>2, <1>3, <1>4, <1>5, NullTypes DEF TypeOK, CrashAndRecover

-----------------------------------------------------------------------------
(***************************************************************************)
(* The inductive invariant.  ExclusiveExecution alone is not inductive:    *)
(* that a claim finds no other handler at work on the container follows    *)
(* from the partial unique index (OneActive), if handlers hold on to       *)
(* running operations (ClaimsHold).  An operation canceled under its       *)
(* handler is the exception; then the row is gone, and since keys are not  *)
(* reused nothing is queued for the container any more.  A handler that    *)
(* found the attempts used up writes the operation without having claimed  *)
(* it; ExhaustedHold says that nobody else ever will.                      *)
(***************************************************************************)

OneActive ==
    \A o, p \in Operations :
        Active(o) /\ Active(p) /\ ops[o].container = ops[p].container => o = p

ClaimsHold ==
    \A w \in Workers : workers[w].claimed =>
        \/ OpOf(w).status = "running"
        \/ /\ OpOf(w).status = "failed"
           /\ ~Exists(ContainerOf(w))
           /\ ~HasActive(ContainerOf(w))

ExhaustedHold ==
    \A x \in Workers :
        ~workers[x].claimed /\ workers[x].pc \in {"failRow", "failOp"} =>
            /\ OpOf(x).attempts >= MaxAttempts
            /\ OpOf(x).status \in {"pending", "failed"}
            /\ \A w \in Workers : workers[w].claimed =>
                   workers[w].op # workers[x].op

Ownership == OneActive /\ ClaimsHold /\ ExhaustedHold /\ ExclusiveExecution

IInv == Shape /\ Ownership

-----------------------------------------------------------------------------
(* What a step may do to the goroutines when it claims nothing. *)

Frame ==
    \A v \in Workers :
        /\ workers'[v].claimed => workers[v].claimed /\ workers'[v].pc # "idle"
        /\ workers'[v].pc # "idle" => /\ workers[v].pc # "idle"
                                      /\ workers'[v].op = workers[v].op
        /\ ~workers'[v].claimed =>
              \/ workers'[v].pc \in {"idle", "cleanup"}
              \/ /\ ~workers[v].claimed
                 /\ {workers[v].pc, workers'[v].pc} \subseteq {"failRow", "failOp"}

LEMMA UnchangedFrame ==
    ASSUME Shape, UNCHANGED workers
    PROVE  Frame
BY DEF Shape, WorkersShape, Frame

LEMMA MoveFrame ==
    ASSUME Shape, NEW w \in Workers, workers[w].claimed,
           workers'[w].pc # "idle", workers'[w].op = workers[w].op,
           workers'[w].claimed = workers[w].claimed,
           \A v \in Workers \ {w} : workers'[v] = workers[v]
    PROVE  Frame
BY DEF Shape, WorkersShape, Frame

LEMMA GotoFrame ==
    ASSUME Shape, NEW w \in Workers, NEW pc \in WorkerPcs \ {"idle"}, Goto(w, pc),
           \/ workers[w].claimed
           \/ workers[w].pc = "failRow" /\ pc = "failOp"
    PROVE  Frame
BY DEF Shape, TypeOK, WorkersShape, Frame, Goto, WorkerType

LEMMA GotoFailingFrame ==
    ASSUME Shape, NEW w \in Workers, NEW pc \in WorkerPcs \ {"idle"}, NEW verdict,
           GotoFailing(w, pc, verdict), workers[w].claimed
    PROVE  Frame
BY DEF Shape, TypeOK, WorkersShape, Frame, GotoFailing, WorkerType

LEMMA SettleFrame ==
    ASSUME Shape, NEW w \in Workers, NEW verdict, Settle(w, verdict)
    PROVE  Frame /\ workers'[w] = IdleWorker
BY DEF Shape, TypeOK, WorkersShape, Frame, Settle, IdleWorker

LEMMA LeaveFrame ==
    ASSUME Shape, NEW w \in Workers, workers[w].pc # "idle", NEW verdict,
           Leave(w, verdict)
    PROVE  /\ Frame
           /\ ~workers'[w].claimed
           /\ workers'[w].pc \in {"idle", "cleanup"}
<1>1. CASE workers[w].newId = None
  BY <1>1, SettleFrame DEF Leave, IdleWorker
<1>2. CASE workers[w].newId # None
  BY <1>2 DEF Shape, TypeOK, WorkersShape, Frame, Leave, WorkerType
<1> QED BY <1>1, <1>2

LEMMA FrameShape ==
    ASSUME Shape, Frame,
           \A o \in Operations : ops[o].status # "none" => ops'[o].status # "none"
    PROVE  WorkersShape'
BY DEF Shape, WorkersShape, Frame

-----------------------------------------------------------------------------
(* Ownership across a step that leaves the operations alone, ... *)

LEMMA QuietStep ==
    ASSUME IInv, Frame, UNCHANGED ops,
           \A c \in Containers : Exists(c)' => Exists(c)
    PROVE  Ownership'
<1> USE DEF IInv, Ownership, Shape
<1>1. \A w \in Workers : workers'[w].claimed =>
         /\ workers[w].claimed
         /\ workers'[w].op = workers[w].op
         /\ ContainerOf(w)' = ContainerOf(w) /\ OpOf(w)' = OpOf(w)
         /\ ContainerOf(w) \in Containers
  BY WorkerFacts DEF Frame, WorkersShape, ContainerOf, OpOf
<1>2. OneActive' BY DEF OneActive, Active
<1>3. ClaimsHold'
  BY <1>1 DEF ClaimsHold, HasActive, Active
<1>4. ExhaustedHold'
  BY <1>1 DEF ExhaustedHold, Frame, OpOf
<1>5. ExclusiveExecution' BY <1>1 DEF ExclusiveExecution
<1> QED BY <1>2, <1>3, <1>4, <1>5

(* ... and across one in which a handler gives its operation up. *)
LEMMA ReleaseStep ==
    ASSUME IInv, Frame, NEW w \in Workers, workers[w].pc # "idle",
           ~workers'[w].claimed, workers'[w].pc \in {"idle", "cleanup"},
           NEW status \in {"pending", "done", "failed"}, SetOp(w, status),
           \/ workers[w].claimed
           \/ workers[w].pc \in {"failRow", "failOp"} /\ status = "failed",
           status = "pending" => OpOf(w).status = "running",
           UNCHANGED rows
    PROVE  Ownership'
<1> USE DEF IInv, Ownership, Shape
<1>1. /\ workers[w].op \in Operations
      /\ ops' = [ops EXCEPT ![workers[w].op].status = status]
      /\ ops \in [Operations -> OpType]
  BY WorkerFacts DEF SetOp, TypeOK
<1>2. \A o \in Operations : /\ ops'[o].container = ops[o].container
                            /\ ops'[o].attempts = ops[o].attempts
                            /\ o # workers[w].op => ops'[o] = ops[o]
                            /\ Active(o)' => Active(o)
  BY <1>1 DEF OpType, Active, OpOf
<1>3. ops'[workers[w].op].status = status BY <1>1 DEF OpType
<1>4. \A v \in Workers : workers'[v].claimed =>
         /\ v # w
         /\ workers[v].claimed /\ workers'[v].op = workers[v].op
         /\ workers[v].op \in Operations
         /\ ContainerOf(v)' = ContainerOf(v)
  BY <1>2 DEF Frame, WorkersShape, ContainerOf, OpOf
<1>5. \A v \in Workers : workers'[v].claimed => workers[v].op # workers[w].op
  BY <1>4 DEF ExclusiveExecution, ExhaustedHold, ContainerOf, OpOf
<1>6. OneActive' BY <1>2 DEF OneActive
<1>7. ClaimsHold'
  <2> SUFFICES ASSUME NEW v \in Workers, workers'[v].claimed
               PROVE  \/ OpOf(v)'.status = "running"
                      \/ /\ OpOf(v)'.status = "failed"
                         /\ ~Exists(ContainerOf(v))'
                         /\ ~HasActive(ContainerOf(v))'
    BY DEF ClaimsHold
  <2>1. OpOf(v)' = OpOf(v) BY <1>2, <1>4, <1>5 DEF OpOf
  <2>2. Exists(ContainerOf(v))' = Exists(ContainerOf(v))
    BY <1>4 DEF Exists
  <2>3. HasActive(ContainerOf(v))' => HasActive(ContainerOf(v))
    BY <1>2, <1>4 DEF HasActive
  <2> QED BY <1>4, <2>1, <2>2, <2>3 DEF ClaimsHold
<1>8. ExhaustedHold'
  <2> SUFFICES ASSUME NEW x \in Workers, ~workers'[x].claimed,
                      workers'[x].pc \in {"failRow", "failOp"}
               PROVE  /\ OpOf(x)'.attempts >= MaxAttempts
                      /\ OpOf(x)'.status \in {"pending", "failed"}
                      /\ \A v \in Workers : workers'[v].claimed =>
                            workers'[v].op # workers'[x].op
    BY DEF ExhaustedHold
  <2>1. /\ ~workers[x].claimed /\ workers[x].pc \in {"failRow", "failOp"}
        /\ workers'[x].op = workers[x].op /\ workers[x].op \in Operations
    BY DEF Frame, WorkersShape
  <2>2. OpOf(x)'.attempts >= MaxAttempts
    BY <1>2, <2>1 DEF ExhaustedHold, OpOf
  <2>3. OpOf(x)'.status \in {"pending", "failed"}
    <3>1. CASE workers[x].op = workers[w].op
      BY <1>3, <2>1, <3>1 DEF ExhaustedHold, OpOf
    <3>2. CASE workers[x].op # workers[w].op
      BY <1>2, <2>1, <3>2 DEF ExhaustedHold, OpOf
    <3> QED BY <3>1, <3>2
  <2> QED BY <1>4, <2>1, <2>2, <2>3 DEF ExhaustedHold
<1>9. ExclusiveExecution' BY <1>4 DEF ExclusiveExecution
<1> QED BY <1>6, <1>7, <1>8, <1>9

-----------------------------------------------------------------------------
(* The invariant is preserved by every action. *)

LEMMA ApiStep ==
    ASSUME IInv, Api
    PROVE  IInv'
<1> USE DEF IInv, Ownership, Shape
<1>1. ASSUME NEW c \in Containers, NEW o \in Operations, CreateContainer(c, o)
      PROVE  IInv'
  <2>1. /\ ops' = [ops EXCEPT ![o] = [status |-> "pending", kind |-> "create",
                                     container |-> c, attempts |-> 0,
                                     previous |-> "absent"]]
        /\ ops[o].status = "none" /\ c # None
        /\ \A p \in Operations : ops[p].container # c
        /\ UNCHANGED <<workers, callers>>
    BY <1>1, ConstantsAssumption
       DEF CreateContainer, InsertOperation, Fresh, ConstantsAssumption
  <2>2. \A b \in Containers \ {c} : rows'[b] = rows[b]
    BY <1>1 DEF CreateContainer, TypeOK
  <2>3. OpsShape' BY <2>1 DEF OpsShape, TypeOK
  <2>4. WorkersShape' BY <2>1 DEF WorkersShape, TypeOK
  <2>5. CallersShape' BY <2>1 DEF CallersShape
  <2>6. \A w \in Workers : workers[w].pc # "idle" =>
           /\ workers[w].op \in Operations \ {o} /\ OpOf(w)' = OpOf(w)
           /\ ContainerOf(w) \in Containers \ {c}
           /\ ContainerOf(w)' = ContainerOf(w)
    BY <2>1, WorkerFacts DEF WorkersShape, OpOf, ContainerOf, TypeOK
  <2>7. OneActive' BY <2>1 DEF OneActive, Active, TypeOK
  <2>8. ClaimsHold'
    BY <2>1, <2>2, <2>6
       DEF ClaimsHold, WorkersShape, HasActive, Active, Exists, TypeOK
  <2>9. ExhaustedHold' BY <2>1, <2>6 DEF ExhaustedHold
  <2>10. ExclusiveExecution' BY <2>1, <2>6 DEF ExclusiveExecution, WorkersShape
  <2> QED BY <1>1, <2>3, <2>4, <2>5, <2>7, <2>8, <2>9, <2>10,
             CreateContainerType
<1>2. ASSUME NEW k \in Callers, NEW kind \in RequestKinds,
             NEW c \in Containers, BeginRequest(k, kind, c)
      PROVE  IInv'
  <2>1. UNCHANGED <<ops, rows, workers>> BY <1>2 DEF BeginRequest
  <2>2. OpsShape' BY <2>1 DEF OpsShape
  <2>3. CallersShape' BY <1>2 DEF CallersShape, BeginRequest, TypeOK, CallerType
  <2>4. WorkersShape' BY <2>1, UnchangedFrame, FrameShape
  <2>5. Ownership' BY <2>1, UnchangedFrame, QuietStep DEF Exists
  <2> QED BY <1>2, <2>2, <2>3, <2>4, <2>5, BeginRequestType
<1>3. ASSUME NEW k \in Callers, RejectRequest(k) \/ MarkUnprovisioned(k)
      PROVE  IInv'
  <2>1. /\ UNCHANGED <<ops, workers>>
        /\ callers' = [callers EXCEPT ![k] = IdleCaller]
    BY <1>3 DEF RejectRequest, MarkUnprovisioned, EndRequest
  <2>2. \A c \in Containers : Exists(c)' => Exists(c)
    BY <1>3 DEF RejectRequest, MarkUnprovisioned, Exists, TypeOK, RowType
  <2>3. OpsShape' BY <2>1 DEF OpsShape
  <2>4. CallersShape' BY <2>1 DEF CallersShape, IdleCaller, TypeOK
  <2>5. WorkersShape' BY <2>1, UnchangedFrame, FrameShape
  <2>6. Ownership' BY <2>1, <2>2, UnchangedFrame, QuietStep
  <2> QED BY <1>3, <2>3, <2>4, <2>5, <2>6, RejectRequestType,
             MarkUnprovisionedType
<1>4. ASSUME NEW k \in Callers, NEW o \in Operations, QueueOperation(k, o)
      PROVE  IInv'
  <2> DEFINE c == callers[k].container
  <2>1. /\ ops' = [ops EXCEPT ![o] = [status |-> "pending",
                                     kind |-> callers[k].kind,
                                     container |-> c, attempts |-> 0,
                                     previous |-> callers[k].seen.status]]
        /\ ops[o].status = "none" /\ c \in Containers /\ c # None
        /\ Exists(c) /\ ~HasActive(c)
        /\ UNCHANGED workers
        /\ callers' = [callers EXCEPT ![k] = IdleCaller]
    BY <1>4, ConstantsAssumption
       DEF QueueOperation, InsertOperation, Fresh, CallersShape, EndRequest,
           ConstantsAssumption
  <2>2. \A b \in Containers : Exists(b)' => Exists(b)
    BY <1>4, <2>1 DEF QueueOperation, TypeOK, Exists
  <2>3. OpsShape' BY <2>1 DEF OpsShape, TypeOK
  <2>4. CallersShape' BY <2>1 DEF CallersShape, IdleCaller, TypeOK
  <2>5. WorkersShape' BY <2>1 DEF WorkersShape, TypeOK
  <2>6. \A w \in Workers : workers[w].pc # "idle" =>
           /\ workers[w].op \in Operations \ {o} /\ OpOf(w)' = OpOf(w)
           /\ ContainerOf(w) \in Containers
           /\ ContainerOf(w)' = ContainerOf(w)
    BY <2>1, WorkerFacts DEF WorkersShape, OpOf, ContainerOf, TypeOK
  <2>7. OneActive' BY <2>1 DEF OneActive, HasActive, Active, TypeOK
  <2>8. ClaimsHold'
    <3> SUFFICES ASSUME NEW w \in Workers, workers[w].claimed,
                        OpOf(w).status # "running"
                 PROVE  /\ OpOf(w).status = "failed"
                        /\ ~Exists(ContainerOf(w))'
                        /\ ~HasActive(ContainerOf(w))'
      BY <2>1, <2>6 DEF ClaimsHold, WorkersShape
    <3>1. /\ OpOf(w).status = "failed"
          /\ ~Exists(ContainerOf(w)) /\ ~HasActive(ContainerOf(w))
      BY DEF ClaimsHold
    <3>2. ContainerOf(w) \in Containers \ {c}
          /\ ContainerOf(w)' = ContainerOf(w)
      BY <2>1, <2>6, <3>1 DEF WorkersShape
    <3>3. ~HasActive(ContainerOf(w))'
      BY <2>1, <3>1, <3>2 DEF HasActive, Active, TypeOK
    <3> QED BY <2>2, <3>1, <3>2, <3>3
  <2>9. ExhaustedHold' BY <2>1, <2>6 DEF ExhaustedHold
  <2>10. ExclusiveExecution' BY <2>1, <2>6 DEF ExclusiveExecution, WorkersShape
  <2> QED BY <1>4, <2>3, <2>4, <2>5, <2>7, <2>8, <2>9, <2>10,
             QueueOperationType
<1>5. ASSUME NEW k \in Callers, CancelCreate(k)
      PROVE  IInv'
  <2>0. PICK c \in Containers : c = callers[k].container
    BY <1>5 DEF CancelCreate, CallersShape
  <2> DEFINE canceled(o) == ops[o].container = c /\ ops[o].kind = "create"
                            /\ Active(o)
  <2>1. /\ \A o \in Operations :
              /\ ops'[o].container = ops[o].container
              /\ ops'[o].attempts = ops[o].attempts
              /\ ops'[o].status = IF canceled(o) THEN "failed"
                                                 ELSE ops[o].status
        /\ rows' = [rows EXCEPT ![c] = NoRow]
        /\ UNCHANGED workers
        /\ callers' = [callers EXCEPT ![k] = IdleCaller]
    BY <1>5, <2>0 DEF CancelCreate, EndRequest, TypeOK, OpType
  <2>2. ~Exists(c)' /\ \A b \in Containers : Exists(b)' => Exists(b)
    BY <2>1 DEF TypeOK, Exists, NoRow
  <2>3. OpsShape' BY <2>1 DEF OpsShape, Active
  <2>4. CallersShape' BY <2>1 DEF CallersShape, IdleCaller, TypeOK
  <2>5. WorkersShape' BY <2>1 DEF WorkersShape, Active
  <2>6. \A o \in Operations : Active(o)' => Active(o)
    BY <2>1 DEF Active
  <2>7. \A w \in Workers : workers[w].pc # "idle" =>
           /\ workers[w].op \in Operations
           /\ ContainerOf(w) \in Containers
           /\ ContainerOf(w)' = ContainerOf(w)
    BY <2>1, WorkerFacts DEF WorkersShape, OpOf, ContainerOf
  <2>8. OneActive' BY <2>1, <2>6 DEF OneActive
  <2>9. ClaimsHold'
    <3> SUFFICES ASSUME NEW w \in Workers, workers[w].claimed
                 PROVE  \/ OpOf(w)'.status = "running"
                        \/ /\ OpOf(w)'.status = "failed"
                           /\ ~Exists(ContainerOf(w))'
                           /\ ~HasActive(ContainerOf(w))'
      BY <2>1 DEF ClaimsHold
    <3>1. workers[w].pc # "idle" BY DEF WorkersShape
    <3>2. CASE canceled(workers[w].op)
      <4>1. ContainerOf(w) = c BY <3>2 DEF ContainerOf, OpOf
      <4>2. ~HasActive(c)'
        BY <2>1, <2>6, <2>7, <3>1, <3>2 DEF HasActive, OneActive, Active
      <4> QED BY <2>1, <2>2, <2>7, <3>1, <3>2, <4>1, <4>2 DEF OpOf
    <3>3. CASE ~canceled(workers[w].op)
      <4>1. OpOf(w)'.status = OpOf(w).status
        BY <2>1, <2>7, <3>1, <3>3 DEF OpOf
      <4>2. HasActive(ContainerOf(w))' => HasActive(ContainerOf(w))
        BY <2>1, <2>6, <2>7, <3>1 DEF HasActive
      <4> QED BY <2>2, <2>7, <3>1, <4>1, <4>2 DEF ClaimsHold
    <3> QED BY <3>2, <3>3
  <2>10. ExhaustedHold'
    BY <2>1, <2>7 DEF ExhaustedHold, OpOf, Active
  <2>11. ExclusiveExecution' BY <2>1, <2>7 DEF ExclusiveExecution, WorkersShape
  <2> QED BY <1>5, <2>3, <2>4, <2>5, <2>8, <2>9, <2>10, <2>11, CancelCreateType
<1> QED BY <1>1, <1>2, <1>3, <1>4, <1>5 DEF Api

\* The outbox worker and Docker's own changes touch none of it.
LEMMA PublisherOutsideStep ==
    ASSUME IInv, Publisher \/ Outside
    PROVE  IInv'
<1>1. UNCHANGED <<rows, ops, workers, callers>>
  BY DEF Publisher, Outside, LeaseOutbox, DiscardOutbox, PublishMessage,
         PublishFails, MarkPublished, ContainerExits, RemovedOutside
<1>2. TypeOK' BY PublisherType, OutsideType DEF IInv
<1>3. OpsShape' /\ CallersShape'
  BY <1>1 DEF IInv, Shape, OpsShape, CallersShape
<1>4. WorkersShape' BY <1>1, UnchangedFrame, FrameShape DEF IInv
<1>5. Ownership' BY <1>1, UnchangedFrame, QuietStep DEF IInv, Exists
<1> QED BY <1>2, <1>3, <1>4, <1>5 DEF IInv, Shape

LEMMA ClaimStep ==
    ASSUME IInv, NEW w \in Workers, NEW o \in Operations, Claim(w, o)
    PROVE  IInv'
<1> USE DEF IInv, Ownership, Shape
<1>1. /\ UNCHANGED <<rows, callers>>
      /\ workers[w].pc = "idle" /\ ~workers[w].claimed
      /\ \A v \in Workers \ {w} : workers'[v] = workers[v]
  BY DEF Claim, WorkersShape, TypeOK
<1>2. CallersShape' BY <1>1 DEF CallersShape
<1>3. \A v \in Workers : workers[v].pc # "idle" =>
         workers[v].op \in Operations
  BY DEF WorkersShape
<1>4. CASE ops[o].status = "pending" /\ ops[o].attempts < MaxAttempts
  <2>1. /\ ops' = [ops EXCEPT ![o].status = "running", ![o].attempts = @ + 1]
        /\ workers'[w].op = o /\ workers'[w].claimed
        /\ workers'[w].pc \in {"creating", "load"}
    <3>1. /\ ops' = [ops EXCEPT ![o].status = "running",
                                ![o].attempts = @ + 1]
          /\ workers' = [workers EXCEPT
                ![w] = [IdleWorker EXCEPT
                          !.pc = IF ops[o].kind = "create" THEN "creating"
                                                           ELSE "load",
                          !.op = o, !.claimed = TRUE]]
      BY <1>4, ConstantsAssumption
         DEF Claim, ConstantsAssumption, TypeOK, OpType
    <3>2. workers'[w] = [IdleWorker EXCEPT
                          !.pc = IF ops[o].kind = "create" THEN "creating"
                                                           ELSE "load",
                          !.op = o, !.claimed = TRUE]
      BY <3>1 DEF TypeOK
    <3>3. /\ workers'[w].op = o /\ workers'[w].claimed
          /\ workers'[w].pc \in {"creating", "load"}
      BY <3>2 DEF IdleWorker
    <3> QED BY <3>1, <3>3
  <2>2. /\ ops'[o].status = "running"
        /\ \A p \in Operations : /\ ops'[p].container = ops[p].container
                                 /\ p # o => ops'[p] = ops[p]
                                 /\ Active(p)' = Active(p)
    BY <1>4, <2>1 DEF TypeOK, OpType, Active
  <2>3. \A v \in Workers : workers[v].claimed =>
           /\ workers[v].op # o
           /\ OpOf(v)' = OpOf(v)
           /\ ContainerOf(v)' = ContainerOf(v)
           /\ ContainerOf(v) # ops[o].container
    <3> SUFFICES ASSUME NEW v \in Workers, workers[v].claimed
                 PROVE  /\ workers[v].op # o
                        /\ OpOf(v)' = OpOf(v)
                        /\ ContainerOf(v)' = ContainerOf(v)
                        /\ ContainerOf(v) # ops[o].container
      OBVIOUS
    <3>1. workers[v].op # o BY <1>4 DEF ClaimsHold, OpOf
    <3>2. workers'[v] = workers[v] BY <1>1
    <3>3. OpOf(v)' = OpOf(v) /\ ContainerOf(v)' = ContainerOf(v)
      BY <1>3, <2>2, <3>1, <3>2 DEF OpOf, ContainerOf, WorkersShape
    <3>4. ContainerOf(v) # ops[o].container
      BY <1>3, <1>4, <3>1
         DEF ClaimsHold, OneActive, HasActive, Active, ContainerOf, OpOf,
             WorkersShape
    <3> QED BY <3>1, <3>3, <3>4
  <2>4. OpsShape' BY <1>4, <2>2 DEF OpsShape
  <2>5. WorkersShape'
    <3>1. \A p \in Operations : ops[p].status # "none" =>
             ops'[p].status # "none"
      BY <2>2
    <3>2. \A v \in Workers \ {w} :
             /\ workers'[v].pc # "idle" => /\ workers'[v].op \in Operations
                                           /\ ops'[workers'[v].op].status # "none"
             /\ workers'[v].claimed => workers'[v].pc # "idle"
             /\ ~workers'[v].claimed =>
                   workers'[v].pc \in {"idle", "failRow", "failOp", "cleanup"}
      BY <1>1, <3>1 DEF WorkersShape
    <3> QED BY <2>1, <2>2, <3>2 DEF WorkersShape
  <2>6. OneActive' BY <2>2 DEF OneActive
  <2>7. ClaimsHold'
    <3>1. \A v \in Workers \ {w} : workers'[v].claimed =>
             workers[v].claimed
      BY <1>1
    <3>2. \A c : HasActive(c)' = HasActive(c) BY <2>2 DEF HasActive
    <3>3. \A c : Exists(c)' = Exists(c) BY <1>1 DEF Exists
    <3>4. OpOf(w)'.status = "running" BY <2>1, <2>2 DEF OpOf
    <3> QED BY <2>3, <3>1, <3>2, <3>3, <3>4 DEF ClaimsHold
  <2>8. ExhaustedHold'
    <3> SUFFICES ASSUME NEW x \in Workers, ~workers'[x].claimed,
                        workers'[x].pc \in {"failRow", "failOp"}
                 PROVE  /\ OpOf(x)'.attempts >= MaxAttempts
                        /\ OpOf(x)'.status \in {"pending", "failed"}
                        /\ \A v \in Workers : workers'[v].claimed =>
                              workers'[v].op # workers'[x].op
      BY DEF ExhaustedHold
    <3>1. x # w /\ workers'[x] = workers[x] BY <1>1, <2>1
    <3>2. workers[x].op \in Operations BY <1>3, <3>1
    <3>3. workers[x].op # o
      BY <1>4, <3>1, <3>2, ConstantsAssumption
         DEF ExhaustedHold, OpOf, TypeOK, OpType, ConstantsAssumption
    <3>4. OpOf(x)' = OpOf(x) BY <2>2, <3>1, <3>2, <3>3 DEF OpOf
    <3>5. \A v \in Workers \ {w} : workers'[v].claimed =>
             workers'[v].op # workers'[x].op
      BY <1>1, <3>1 DEF ExhaustedHold
    <3> QED BY <2>1, <3>1, <3>3, <3>4, <3>5 DEF ExhaustedHold
  <2>9. ExclusiveExecution'
    <3>1. ContainerOf(w)' = ops[o].container
      BY <2>1, <2>2 DEF ContainerOf, OpOf
    <3> QED BY <1>1, <2>3, <3>1 DEF ExclusiveExecution
  <2> QED BY <1>2, <2>4, <2>5, <2>6, <2>7, <2>8, <2>9, ClaimType
<1>5. CASE ~(ops[o].status = "pending" /\ ops[o].attempts < MaxAttempts)
  <2>1. /\ UNCHANGED ops
        /\ \/ UNCHANGED workers
           \/ /\ ops[o].status = "pending" /\ ops[o].attempts >= MaxAttempts
              /\ workers'[w].op = o /\ ~workers'[w].claimed
              /\ workers'[w].pc = "failRow"
    <3>1. CASE ops[o].status # "pending" BY <3>1 DEF Claim
    <3>2. CASE ops[o].status = "pending" /\ ops[o].attempts >= MaxAttempts
      <4>1. /\ UNCHANGED ops
            /\ workers' = [workers EXCEPT
                  ![w] = [IdleWorker EXCEPT !.pc = "failRow", !.op = o]]
        BY <1>5, <3>2 DEF Claim
      <4>2. workers'[w] = [IdleWorker EXCEPT !.pc = "failRow", !.op = o]
        BY <4>1 DEF TypeOK
      <4> QED BY <3>2, <4>1, <4>2 DEF IdleWorker
    <3> QED BY <1>5, <3>1, <3>2, ConstantsAssumption
            DEF TypeOK, OpType, ConstantsAssumption
  <2>2. \A v \in Workers : workers'[v].claimed =>
           workers[v].claimed /\ workers'[v] = workers[v]
    BY <1>1, <2>1
  <2>3. OpsShape' BY <2>1 DEF OpsShape
  <2>4. WorkersShape' BY <1>1, <2>1 DEF WorkersShape, OpsShape
  <2>5. OneActive' BY <2>1 DEF OneActive, Active
  <2>6. ClaimsHold'
    BY <1>1, <2>1, <2>2
       DEF ClaimsHold, HasActive, Active, Exists, OpOf, ContainerOf
  <2>7. ExhaustedHold'
    BY <1>1, <2>1, <2>2 DEF ExhaustedHold, ClaimsHold, OpOf
  <2>8. ExclusiveExecution'
    BY <2>1, <2>2 DEF ExclusiveExecution, ContainerOf, OpOf
  <2> QED BY <1>2, <2>3, <2>4, <2>5, <2>6, <2>7, <2>8, ClaimType
<1> QED BY <1>4, <1>5

\* Steps of a handler that leave its operation alone.
LEMMA QuietProceed ==
    ASSUME IInv, NEW w \in Workers,
           \/ SetCreating(w) \/ Load(w)
           \/ CheckRunning(w) \/ DockerTimesOut(w) \/ DockerRefuses(w)
           \/ CreateDocker(w) \/ CallDocker(w) \/ StartNew(w) \/ Record(w)
           \/ SetTarget(w) \/ RemoveOld(w) \/ RemoveNew(w) \/ MarkMissing(w)
           \/ FailRow(w) \/ Cleanup(w)
    PROVE  Frame /\ UNCHANGED <<ops, callers>>
           /\ \A c \in Containers : Exists(c)' => Exists(c)
<1> USE DEF IInv, Shape
<1> DEFINE Shrinks == \A c \in Containers : Exists(c)' => Exists(c)
<1>1. CASE CheckRunning(w)
  <2>1. Frame
    BY <1>1, GotoFrame, SettleFrame DEF CheckRunning, WorkersShape, WorkerPcs
  <2> QED BY <1>1, <2>1 DEF CheckRunning, Exists
<1>2. CASE DockerTimesOut(w) \/ DockerRefuses(w)
  <2>1. workers[w].claimed
    BY <1>2 DEF DockerTimesOut, DockerRefuses, CallsDocker, WorkersShape
  <2>2. Frame
    BY <1>2, <2>1, GotoFrame, GotoFailingFrame
       DEF DockerTimesOut, DockerRefuses, WorkerPcs
  <2> QED BY <1>2, <2>2 DEF DockerTimesOut, DockerRefuses, Exists
<1>3. CASE CreateDocker(w)
  <2>1. workers[w].claimed BY <1>3 DEF CreateDocker, WorkersShape
  <2>2. ASSUME NEW d \in DockerIds, NEW pc \in WorkerPcs \ {"idle"},
               workers' = [workers EXCEPT ![w].newId = d, ![w].pc = pc]
        PROVE  Frame
    BY <2>1, <2>2 DEF TypeOK, WorkersShape, Frame, WorkerType
  <2>3. {"record", "startNew", "requeue", "failRow"} \subseteq WorkerPcs \ {"idle"}
    BY DEF WorkerPcs
  <2>4. Frame
    BY <1>3, <2>1, <2>2, <2>3, GotoFrame, GotoFailingFrame DEF CreateDocker
  <2> QED BY <1>3, <2>4 DEF CreateDocker, Exists
<1>4. CASE CallDocker(w) \/ StartNew(w)
  <2>1. workers[w].claimed BY <1>4 DEF CallDocker, StartNew, WorkersShape
  <2>2. {"record", "markMissing", "createDocker", "requeue", "failRow"}
           \subseteq WorkerPcs \ {"idle"}
    BY DEF WorkerPcs
  <2>3. Frame
    BY <1>4, <2>1, <2>2, GotoFrame, GotoFailingFrame
       DEF CallDocker, StartNew, Replied
  <2> QED BY <1>4, <2>3 DEF CallDocker, StartNew, Exists
<1>5. CASE Record(w)
  <2>1. workers[w].claimed /\ workers[w].pc # "idle"
    BY <1>5 DEF Record, WorkersShape
  <2>3. {"target", "complete", "removeNew", "failRow"}
           \subseteq WorkerPcs \ {"idle"}
    BY DEF WorkerPcs
  <2>4. ASSUME workers' = [workers EXCEPT
                ![w].pc = IF KindOf(w) = "expose" THEN "target" ELSE "complete",
                ![w].newId = IF KindOf(w) = "create" THEN None ELSE @]
        PROVE  Frame
    <3>1. /\ workers'[w].pc # "idle" /\ workers'[w].op = workers[w].op
          /\ workers'[w].claimed = workers[w].claimed
          /\ \A v \in Workers \ {w} : workers'[v] = workers[v]
      BY <2>4 DEF TypeOK, WorkerType
    <3> QED BY <2>1, <3>1, MoveFrame
  <2>5. Frame BY <1>5, <2>1, <2>3, <2>4, GotoFailingFrame DEF Record
  <2>6. Shrinks
    <3>1. CASE UNCHANGED rows BY <3>1 DEF Exists
    <3>2. CASE RecordRow(w) /\ Exists(ContainerOf(w))
      <4>1. KindOf(w) \in Kinds BY <2>1, WorkerFacts
      <4>2. \A c \in Containers \ {ContainerOf(w)} : rows'[c] = rows[c]
        BY <3>2, <4>1 DEF RecordRow, SetRowStatus, TypeOK, Kinds
      <4> QED BY <3>2, <4>2 DEF Exists
    <3> QED BY <1>5, <3>1, <3>2 DEF Record
  <2> QED BY <1>5, <2>5, <2>6 DEF Record
<1>6. CASE SetTarget(w) \/ MarkMissing(w) \/ FailRow(w)
  <2>1. /\ workers[w].pc # "idle"
        /\ workers[w].claimed \/ workers[w].pc = "failRow"
    BY <1>6 DEF SetTarget, MarkMissing, FailRow, WorkersShape
  <2>2. Frame
    BY <1>6, <2>1, GotoFrame, GotoFailingFrame
       DEF SetTarget, MarkMissing, FailRow, WorkersShape, WorkerPcs
  <2>3. \/ UNCHANGED rows
        \/ /\ Exists(ContainerOf(w))
           /\ \E status : SetRowStatus(w, status)
    BY <1>6 DEF SetTarget, MarkMissing, FailRow
  <2>4. Shrinks BY <2>3 DEF Exists, SetRowStatus, TypeOK
  <2> QED BY <1>6, <2>2, <2>4 DEF SetTarget, MarkMissing, FailRow
<1>7. CASE RemoveOld(w) \/ RemoveNew(w)
  <2>1. workers[w].claimed BY <1>7 DEF RemoveOld, RemoveNew, WorkersShape
  <2>2. Frame
    BY <1>7, <2>1
       DEF RemoveOld, RemoveNew, TypeOK, WorkersShape, Frame, WorkerType
  <2> QED BY <1>7, <2>2 DEF RemoveOld, RemoveNew, Exists
<1>8. CASE Cleanup(w)
  <2>1. Frame BY <1>8, SettleFrame DEF Cleanup
  <2> QED BY <1>8, <2>1 DEF Cleanup, Exists
<1>9. CASE SetCreating(w)
  <2>1. workers[w].claimed BY <1>9 DEF SetCreating, WorkersShape
  <2>2. Frame
    BY <1>9, <2>1, GotoFrame, GotoFailingFrame DEF SetCreating, WorkerPcs
  <2>3. \/ UNCHANGED rows
        \/ Exists(ContainerOf(w)) /\ SetRowStatus(w, "creating")
    BY <1>9 DEF SetCreating
  <2>4. Shrinks BY <2>3 DEF Exists, SetRowStatus, TypeOK
  <2> QED BY <1>9, <2>2, <2>4 DEF SetCreating
<1>10. CASE Load(w)
  <2>1. workers[w].claimed BY <1>10 DEF Load, WorkersShape
  <2>2. ASSUME NEW verdict, GotoFailing(w, "failOp", verdict)
        PROVE  Frame
    BY <2>1, <2>2, GotoFailingFrame DEF WorkerPcs
  <2>3. ASSUME workers' = [workers EXCEPT
                 ![w].seen = rows[ContainerOf(w)],
                 ![w].pc = AfterLoad(KindOf(w), rows[ContainerOf(w)]),
                 ![w].verdict = IF AfterLoad(KindOf(w), rows[ContainerOf(w)])
                                   = "failRow" THEN "dead" ELSE "ack"]
        PROVE  Frame
    <3>1. /\ workers'[w].pc # "idle" /\ workers'[w].op = workers[w].op
          /\ workers'[w].claimed = workers[w].claimed
          /\ \A v \in Workers \ {w} : workers'[v] = workers[v]
      BY <2>3 DEF AfterLoad, TypeOK, WorkerType
    <3> QED BY <2>1, <3>1, MoveFrame
  <2>4. Frame BY <1>10, <2>2, <2>3 DEF Load
  <2> QED BY <1>10, <2>4 DEF Load, Exists
<1> QED BY <1>1, <1>2, <1>3, <1>4, <1>5, <1>6, <1>7, <1>8, <1>9, <1>10

\* What a handler may write into an operation.
Decision(w, status) ==
    /\ SetOp(w, status)
    /\ ~workers[w].claimed => workers[w].pc = "failOp" /\ status = "failed"
    /\ status = "pending" => OpOf(w).status = "running"

LEMMA DecisionFacts ==
    ASSUME Shape, NEW w \in Workers,
           \/ Unclaim(w) \/ Complete(w) \/ Requeue(w) \/ FailOp(w)
    PROVE  \/ UNCHANGED ops
           \/ \E status \in {"pending", "failed", "done"} : Decision(w, status)
<1> USE DEF Shape
<1>1. workers[w].claimed \/ FailOp(w)
  BY DEF Unclaim, Complete, Requeue, WorkersShape
<1>2. ops' = RequeuedOps(w) =>
         \/ UNCHANGED ops
         \/ SetOp(w, "pending") /\ OpOf(w).status = "running"
  BY DEF RequeuedOps, SetOp
<1>3. CASE Unclaim(w)
  BY <1>1, <1>2, <1>3 DEF Unclaim, Decision, FailOp
<1>4. CASE Requeue(w) BY <1>1, <1>2, <1>4 DEF Requeue, Decision, FailOp
<1>6. CASE Complete(w) BY <1>1, <1>6 DEF Complete, Decision, FailOp
<1>7. CASE FailOp(w) BY <1>7 DEF FailOp, Decision
<1> QED BY <1>3, <1>4, <1>6, <1>7

\* Steps in which a handler decides about its operation.
LEMMA DecidingProceed ==
    ASSUME IInv, NEW w \in Workers,
           \/ Unclaim(w) \/ Complete(w) \/ Requeue(w) \/ FailOp(w)
    PROVE  /\ Frame /\ Ownership' /\ UNCHANGED callers
           /\ \A o \in Operations :
                 /\ ops'[o].container = ops[o].container
                 /\ ops'[o].status = "none" <=> ops[o].status = "none"
<1> USE DEF IInv, Shape
<1>1. workers[w].pc # "idle" /\ workers[w].op \in Operations
  BY WorkerFacts DEF Unclaim, Complete, Requeue, FailOp
<1>2. UNCHANGED callers
  BY DEF Unclaim, Complete, Requeue, FailOp
<1>3. workers[w].claimed \/ FailOp(w)
  BY DEF Unclaim, Complete, Requeue, WorkersShape
<1>4. Frame
  <2>1. CASE Unclaim(w) BY <2>1, SettleFrame DEF Unclaim
  <2>3. CASE Complete(w) BY <2>3, SettleFrame DEF Complete
  <2>4. CASE Requeue(w)
    <3>1. workers[w].claimed BY <2>4 DEF Requeue, WorkersShape
    <3> QED BY <1>1, <2>4, <3>1, LeaveFrame, GotoFailingFrame
            DEF Requeue, WorkerPcs
  <2>5. CASE FailOp(w) BY <1>1, <2>5, LeaveFrame DEF FailOp
  <2> QED BY <2>1, <2>3, <2>4, <2>5
<1>5. \/ UNCHANGED ops
      \/ \E status \in {"pending", "failed", "done"} : Decision(w, status)
  BY DecisionFacts
<1>6. \A o \in Operations :
         /\ ops'[o].container = ops[o].container
         /\ ops'[o].status = "none" <=> ops[o].status = "none"
  <2>1. ops[workers[w].op].status # "none" BY <1>1 DEF WorkersShape
  <2>2. ASSUME NEW status \in {"pending", "failed", "done"}, SetOp(w, status)
        PROVE  \A o \in Operations :
                  /\ ops'[o].container = ops[o].container
                  /\ ops'[o].status = "none" <=> ops[o].status = "none"
    BY <1>1, <2>1, <2>2 DEF SetOp, TypeOK, OpType
  <2> QED BY <1>5, <2>2 DEF Decision
<1>7. ~UNCHANGED ops =>
         ~workers'[w].claimed /\ workers'[w].pc \in {"idle", "cleanup"}
  BY <1>1, SettleFrame, LeaveFrame
     DEF Unclaim, Complete, Requeue, FailOp, IdleWorker
<1>8. UNCHANGED rows
  BY DEF Unclaim, Complete, Requeue, FailOp
<1>9. \A c \in Containers : Exists(c)' => Exists(c)
  BY <1>8 DEF Exists
<1>10. Ownership'
  <2>1. CASE UNCHANGED ops BY <1>4, <1>9, <2>1, QuietStep
  <2>2. CASE ~UNCHANGED ops
    BY <1>1, <1>4, <1>5, <1>7, <1>8, <2>2, ReleaseStep DEF Decision
  <2> QED BY <2>1, <2>2
<1> QED BY <1>2, <1>4, <1>6, <1>10

LEMMA ProceedStep ==
    ASSUME IInv, NEW w \in Workers, Proceed(w)
    PROVE  IInv'
<1>1. TypeOK'
  BY SetCreatingType, UnclaimType, LoadType, CheckRunningType, DockerFailsType,
     CreateDockerType, CallDockerType, StartNewType, RecordType, SetTargetType,
     RemoveOldNewType, CompleteType, MarkMissingType, RequeueType, FailRowType,
     FailOpType, CleanupType
     DEF Proceed, IInv
<1>2. /\ Frame /\ Ownership' /\ UNCHANGED callers
      /\ \A o \in Operations :
            /\ ops'[o].container = ops[o].container
            /\ ops'[o].status = "none" <=> ops[o].status = "none"
  BY QuietProceed, DecidingProceed, QuietStep DEF Proceed
<1>3. OpsShape' BY <1>2 DEF IInv, Shape, OpsShape
<1>4. WorkersShape' BY <1>2, FrameShape DEF IInv
<1>5. CallersShape' BY <1>2 DEF IInv, Shape, CallersShape
<1> QED BY <1>1, <1>2, <1>3, <1>4, <1>5 DEF IInv, Shape

LEMMA CrashStep ==
    ASSUME IInv, CrashAndRecover
    PROVE  IInv'
<1> USE DEF IInv, Shape, Ownership
<1>1. /\ \A w \in Workers : workers'[w] = IdleWorker
      /\ \A k \in Callers : callers'[k] = IdleCaller
      /\ UNCHANGED rows
  BY DEF CrashAndRecover
<1>2. \A o \in Operations :
         /\ ops'[o].container = ops[o].container
         /\ ops'[o].status = "none" <=> ops[o].status = "none"
         /\ Active(o)' => Active(o)
  <2>1. ASSUME NEW op \in OpType, NEW skipped
        PROVE  /\ RecoveredOp(op, skipped).container = op.container
               /\ \/ RecoveredOp(op, skipped).status = op.status
                  \/ /\ op.status = "running"
                     /\ RecoveredOp(op, skipped).status \in {"pending", "failed"}
    <3>1. \/ RecoveredOp(op, skipped) = op
          \/ /\ op.status = "running"
             /\ \/ RecoveredOp(op, skipped) = [op EXCEPT !.status = "pending"]
                \/ RecoveredOp(op, skipped) = [op EXCEPT !.status = "failed"]
      BY DEF RecoveredOp
    <3> QED BY <3>1 DEF OpType
  <2> QED BY <2>1 DEF CrashAndRecover, TypeOK, Active
<1>3. OpsShape' BY <1>2 DEF OpsShape
<1>4. WorkersShape' BY <1>1 DEF WorkersShape, IdleWorker
<1>5. CallersShape' BY <1>1 DEF CallersShape, IdleCaller
<1>6. OneActive' BY <1>2 DEF OneActive
<1>7. ClaimsHold' /\ ExhaustedHold' /\ ExclusiveExecution'
  BY <1>1 DEF ClaimsHold, ExhaustedHold, ExclusiveExecution, IdleWorker
<1> QED BY <1>3, <1>4, <1>5, <1>6, <1>7, CrashType

LEMMA InvariantInit == Init => IInv
<1> SUFFICES ASSUME Init PROVE IInv
  OBVIOUS
<1>1. TypeOK BY NullTypes DEF Init, TypeOK, OutboxStatuses
<1>2. Shape
  BY <1>1, ConstantsAssumption
     DEF Init, Shape, OpsShape, WorkersShape, CallersShape, NoOp, IdleWorker,
         IdleCaller
<1>3. Ownership
  BY DEF Init, Ownership, OneActive, ClaimsHold, ExhaustedHold,
         ExclusiveExecution, Active, NoOp, IdleWorker
<1> QED BY <1>2, <1>3 DEF IInv

LEMMA InvariantStep == IInv /\ [Next]_vars => IInv'
<1> SUFFICES ASSUME IInv, [Next]_vars PROVE IInv'
  OBVIOUS
<1>1. CASE Next
  BY <1>1, ApiStep, PublisherOutsideStep, ClaimStep, ProceedStep, CrashStep
     DEF Next, Consume
<1>2. CASE UNCHANGED vars
  BY <1>2 DEF vars, IInv, Shape, Ownership, TypeOK, OpsShape, WorkersShape,
     CallersShape, OneActive, ClaimsHold, ExhaustedHold, ExclusiveExecution,
     Active, HasActive, Exists, OpOf, ContainerOf
<1> QED BY <1>1, <1>2

-----------------------------------------------------------------------------
(* The theorems. *)

\* The inductive invariant holds in every reachable state.
THEOREM Invariant == Spec => []IInv
BY InvariantInit, InvariantStep, PTL DEF Spec

\* Every table, queue and goroutine always holds values of its type.
THEOREM TypeCorrect == Spec => []TypeOK
<1>1. IInv => TypeOK BY DEF IInv, Shape
<1> QED BY <1>1, Invariant, PTL

\* However messages are duplicated and redelivered, and wherever Core crashes,
\* no two handlers ever execute operations of one container at a time.
THEOREM Exclusion == Spec => []ExclusiveExecution
<1>1. IInv => ExclusiveExecution BY DEF IInv, Ownership
<1> QED BY <1>1, Invariant, PTL

-----------------------------------------------------------------------------
(***************************************************************************)
(* What a step means to the users of the queue: it accepts an operation,   *)
(* begins one, or only ends some.  Finality of results and the refinement  *)
(* of SerialExecution both follow from this classification.                *)
(***************************************************************************)

Accepts(o, c) ==
    /\ UNCHANGED workers
    /\ ops[o].container = None
    /\ ops'[o].container = c /\ ops'[o].status = "pending"
    /\ \A p \in Operations \ {o} : ops'[p] = ops[p]

Begins(w, o) ==
    /\ ops[o].status = "pending" /\ ops'[o].status = "running"
    /\ ops'[o].container = ops[o].container
    /\ \A p \in Operations \ {o} : ops'[p] = ops[p]
    /\ workers'[w].claimed /\ workers'[w].op = o
    /\ ~workers[w].claimed
    /\ \A v \in Workers \ {w} : workers'[v] = workers[v]
    /\ \A v \in Workers : workers[v].claimed =>
          workers[v].op # o /\ ContainerOf(v) # ops[o].container

Ends ==
    /\ \A v \in Workers : workers'[v].claimed =>
          workers[v].claimed /\ workers'[v].op = workers[v].op
    /\ \A o \in Operations :
          /\ ops'[o].container = ops[o].container
          /\ Finished(o) => Finished(o)'
          /\ ops[o].status = "done" => ops'[o].status = "done"
          /\ ops[o].status = "none" => ops'[o].status = "none"

LEMMA UnchangedEnds ==
    ASSUME Shape, Frame, UNCHANGED ops
    PROVE  Ends
BY DEF Frame, Ends, Finished

LEMMA ApiEffect ==
    ASSUME IInv, Api
    PROVE  Ends \/ \E o \in Operations, c \in Containers : Accepts(o, c)
<1> USE DEF IInv, Shape
<1>1. ASSUME NEW o \in Operations, NEW c \in Containers, NEW kind, NEW previous,
             InsertOperation(o, c, kind, previous), UNCHANGED workers
      PROVE  Accepts(o, c)
  <2>1. ops[o].status = "none" BY <1>1 DEF InsertOperation, Fresh
  <2> QED BY <1>1, <2>1 DEF InsertOperation, Accepts, OpsShape, TypeOK
<1>2. ASSUME NEW c \in Containers, NEW o \in Operations, CreateContainer(c, o)
      PROVE  Accepts(o, c)
  BY <1>1, <1>2 DEF CreateContainer
<1>3. ASSUME NEW k \in Callers, NEW o \in Operations, QueueOperation(k, o)
      PROVE  \E c \in Containers : Accepts(o, c)
  <2>1. callers[k].container \in Containers
    BY <1>3 DEF QueueOperation, CallersShape
  <2> QED BY <1>1, <1>3, <2>1 DEF QueueOperation
<1>4. ASSUME NEW k \in Callers, CancelCreate(k)
      PROVE  Ends
  <2>0. PICK c : c = callers[k].container OBVIOUS
  <2>1. \A o \in Operations :
           \/ ops'[o] = ops[o]
           \/ Active(o) /\ ops'[o] = [ops[o] EXCEPT !.status = "failed"]
    BY <1>4, <2>0 DEF CancelCreate
  <2>2. Frame BY <1>4, UnchangedFrame DEF CancelCreate
  <2>3. \A o \in Operations :
           /\ ops'[o].container = ops[o].container
           /\ \/ ops'[o].status = ops[o].status
              \/ Active(o) /\ ops'[o].status = "failed"
    BY <2>1 DEF TypeOK, OpType
  <2> QED BY <2>2, <2>3 DEF Frame, Ends, Active, Finished
<1>5. ASSUME UNCHANGED <<ops, workers>>
      PROVE  Ends
  BY <1>5, UnchangedFrame, UnchangedEnds
<1> QED BY <1>2, <1>3, <1>4, <1>5
        DEF Api, BeginRequest, RejectRequest, MarkUnprovisioned

LEMMA ClaimEffect ==
    ASSUME IInv, NEW w \in Workers, NEW o \in Operations, Claim(w, o)
    PROVE  Ends \/ Begins(w, o)
<1> USE DEF IInv, Shape, Ownership
<1>1. /\ workers[w].pc = "idle" /\ ~workers[w].claimed
      /\ \A v \in Workers \ {w} : workers'[v] = workers[v]
  BY DEF Claim, WorkersShape, TypeOK
<1>2. CASE ops[o].status = "pending" /\ ops[o].attempts < MaxAttempts
  <2>1. /\ ops' = [ops EXCEPT ![o].status = "running", ![o].attempts = @ + 1]
        /\ workers' = [workers EXCEPT
              ![w] = [IdleWorker EXCEPT
                        !.pc = IF ops[o].kind = "create" THEN "creating"
                                                         ELSE "load",
                        !.op = o, !.claimed = TRUE]]
    BY <1>2, ConstantsAssumption
       DEF Claim, ConstantsAssumption, TypeOK, OpType
  <2>2. /\ ops'[o].status = "running" /\ ops'[o].container = ops[o].container
        /\ \A p \in Operations \ {o} : ops'[p] = ops[p]
    BY <2>1 DEF TypeOK, OpType
  <2>3. workers'[w].claimed /\ workers'[w].op = o
    <3>1. workers'[w] = [IdleWorker EXCEPT
                          !.pc = IF ops[o].kind = "create" THEN "creating"
                                                           ELSE "load",
                          !.op = o, !.claimed = TRUE]
      BY <2>1 DEF TypeOK
    <3> QED BY <3>1 DEF IdleWorker
  <2>4. \A v \in Workers : workers[v].claimed =>
           workers[v].op # o /\ ContainerOf(v) # ops[o].container
    <3> SUFFICES ASSUME NEW v \in Workers, workers[v].claimed
                 PROVE  workers[v].op # o /\ ContainerOf(v) # ops[o].container
      OBVIOUS
    <3>1. workers[v].op \in Operations BY DEF WorkersShape
    <3>2. workers[v].op # o BY <1>2, <3>1 DEF ClaimsHold, OpOf
    <3>3. ContainerOf(v) # ops[o].container
      BY <1>2, <3>1, <3>2
         DEF ClaimsHold, OneActive, HasActive, Active, ContainerOf, OpOf
    <3> QED BY <3>2, <3>3
  <2> QED BY <1>1, <1>2, <2>2, <2>3, <2>4 DEF Begins
<1>3. CASE ~(ops[o].status = "pending" /\ ops[o].attempts < MaxAttempts)
  <2>1. /\ UNCHANGED ops
        /\ \/ UNCHANGED workers
           \/ /\ workers'[w].op = o /\ ~workers'[w].claimed
              /\ workers'[w].pc = "failRow"
    <3>1. /\ UNCHANGED ops
          /\ \/ UNCHANGED workers
             \/ workers' = [workers EXCEPT
                  ![w] = [IdleWorker EXCEPT !.pc = "failRow", !.op = o]]
      BY <1>3 DEF Claim
    <3>2. ASSUME workers' = [workers EXCEPT
                    ![w] = [IdleWorker EXCEPT !.pc = "failRow", !.op = o]]
          PROVE  /\ workers'[w].op = o /\ ~workers'[w].claimed
                 /\ workers'[w].pc = "failRow"
      <4>1. workers'[w] = [IdleWorker EXCEPT !.pc = "failRow", !.op = o]
        BY <3>2 DEF TypeOK
      <4> QED BY <4>1 DEF IdleWorker
    <3> QED BY <3>1, <3>2
  <2>2. \A v \in Workers : workers'[v].claimed =>
           workers[v].claimed /\ workers'[v] = workers[v]
    BY <1>1, <2>1
  <2> QED BY <2>1, <2>2 DEF Ends, Finished
<1> QED BY <1>2, <1>3

LEMMA ProceedEffect ==
    ASSUME IInv, NEW w \in Workers, Proceed(w)
    PROVE  Ends
<1> USE DEF IInv, Shape
<1>1. CASE \/ Unclaim(w) \/ Complete(w) \/ Requeue(w) \/ FailOp(w)
  <2>1. /\ Frame
        /\ \A o \in Operations :
              /\ ops'[o].container = ops[o].container
              /\ ops'[o].status = "none" <=> ops[o].status = "none"
    BY <1>1, DecidingProceed
  <2>2. workers[w].op \in Operations
    BY <1>1, WorkerFacts DEF Unclaim, Complete, Requeue, FailOp
  <2>3. \/ UNCHANGED ops
        \/ \E status \in {"pending", "failed", "done"} : Decision(w, status)
    BY <1>1, DecisionFacts
  <2>4. ASSUME NEW status \in {"pending", "failed", "done"}, Decision(w, status)
        PROVE  \A o \in Operations :
                  /\ Finished(o) => Finished(o)'
                  /\ ops[o].status = "done" => ops'[o].status = "done"
    <3>1. OpOf(w).status # "done" /\ (status = "pending" => ~Finished(workers[w].op))
      BY <2>4 DEF Decision, Ownership, ClaimsHold, ExhaustedHold, Finished, OpOf
    <3>2. /\ ops'[workers[w].op].status = status
          /\ \A o \in Operations \ {workers[w].op} : ops'[o] = ops[o]
      BY <2>2, <2>4 DEF Decision, SetOp, TypeOK, OpType
    <3> QED BY <3>1, <3>2 DEF Finished, OpOf
  <2> QED BY <2>1, <2>3, <2>4 DEF Frame, Ends, Finished
<1>2. CASE ~(Unclaim(w) \/ Complete(w) \/ Requeue(w) \/ FailOp(w))
  <2>1. Frame /\ UNCHANGED ops BY <1>2, QuietProceed DEF Proceed
  <2> QED BY <2>1, UnchangedEnds
<1> QED BY <1>1, <1>2

LEMMA CrashEffect ==
    ASSUME IInv, CrashAndRecover
    PROVE  Ends
<1>1. \A v \in Workers : ~workers'[v].claimed
  BY DEF CrashAndRecover, IdleWorker
<1>2. \A o \in Operations :
         \/ ops'[o] = ops[o]
         \/ /\ ops[o].status = "running"
            /\ \/ ops'[o] = [ops[o] EXCEPT !.status = "pending"]
               \/ ops'[o] = [ops[o] EXCEPT !.status = "failed"]
  BY DEF CrashAndRecover, RecoveredOp
<1>3. \A o \in Operations :
         /\ ops'[o].container = ops[o].container
         /\ ops[o].status = "none" <=> ops'[o].status = "none"
         /\ ops[o].status \in {"done", "failed"} => ops'[o] = ops[o]
  <2> TAKE o \in Operations
  <2>1. ops[o] \in OpType BY DEF IInv, Shape, TypeOK
  <2> QED BY <1>2, <2>1 DEF OpType
<1> QED BY <1>1, <1>3 DEF Ends, Finished

LEMMA NextEffect ==
    ASSUME IInv, Next
    PROVE  \/ Ends
           \/ \E o \in Operations, c \in Containers : Accepts(o, c)
           \/ \E w \in Workers, o \in Operations : Begins(w, o)
<1>1. CASE Publisher \/ Outside
  <2>1. UNCHANGED <<ops, workers>>
    BY <1>1 DEF Publisher, Outside, LeaseOutbox, DiscardOutbox, PublishMessage,
                PublishFails, MarkPublished, ContainerExits, RemovedOutside
  <2> QED BY <2>1, UnchangedFrame, UnchangedEnds DEF IInv
<1> QED BY <1>1, ApiEffect, ClaimEffect, ProceedEffect, CrashEffect
        DEF Next, Consume

\* An operation that ended never becomes active again and success is never
\* turned into failure, although Complete and Fail write unconditionally: the
\* handler that writes still holds the operation.
THEOREM Finality == Spec => FinishedIsFinal
<1> DEFINE Final == \A o \in Operations :
                      /\ Finished(o) => Finished(o)'
                      /\ ops[o].status = "done" => ops'[o].status = "done"
<1>1. IInv /\ [Next]_vars => [Final]_vars
  <2> SUFFICES ASSUME IInv, Next PROVE Final
    OBVIOUS
  <2>1. CASE Ends BY <2>1 DEF Ends
  <2>2. ASSUME NEW o \in Operations, NEW c \in Containers, Accepts(o, c)
        PROVE  Final
    BY <2>2 DEF Accepts, Finished, IInv, Shape, OpsShape
  <2>3. ASSUME NEW w \in Workers, NEW o \in Operations, Begins(w, o)
        PROVE  Final
    BY <2>3 DEF Begins, Finished
  <2> QED BY <2>1, <2>2, <2>3, NextEffect
<1>2. Spec => [][Final]_vars BY <1>1, Invariant, PTL DEF Spec
<1> QED BY <1>2 DEF FinishedIsFinal

\* Every step of the queue is a step of SerialExecution or changes nothing of
\* it: an operation is accepted once, begins when no other of its container
\* executes, and never begins again once it is finished.
THEOREM Refinement == Spec => RefinesSerialExecution
<1> DEFINE
      owned     == [o \in Operations |-> ops[o].container]
      executes  == {workers[w].op : w \in {v \in Workers : workers[v].claimed}}
      concluded == {o \in Operations : Finished(o)}
<1>1. Init => Serial!Init
  BY DEF Init, Serial!Init, NoOp, IdleWorker, Finished
<1>2. ASSUME IInv, [Next]_vars
      PROVE  [Serial!Next]_(Serial!vars)
  <2>0. /\ \A o \in Operations : Finished(o) => ops[o].container # None
        /\ \A o \in Operations :
              o \in Serial!Accepted <=> ops[o].container # None
    BY <1>2 DEF Serial!Accepted, Finished, IInv, Shape, OpsShape
  <2>1. CASE UNCHANGED vars BY <2>1 DEF vars, Serial!vars, Finished
  <2>2. ASSUME Ends PROVE Serial!End
    <3>1. executes' \in SUBSET executes BY <2>2 DEF Ends
    <3>2. owned' = owned BY <2>2 DEF Ends
    <3>3. \E ended \in SUBSET (Serial!Accepted \ concluded) :
             concluded' = concluded \cup ended
      <4>1. concluded' \ concluded \in SUBSET (Serial!Accepted \ concluded)
        <5>1. \A o \in Operations : Finished(o)' => ops[o].status # "none"
          BY <2>2 DEF Ends, Finished
        <5>2. \A o \in Operations : Finished(o)' => o \in Serial!Accepted
          BY <1>2, <2>0, <5>1 DEF IInv, Shape, OpsShape
        <5> QED BY <5>2
      <4>2. concluded' = concluded \cup (concluded' \ concluded)
        BY <2>2 DEF Ends
      <4> QED BY <4>1, <4>2
    <3> QED BY <3>1, <3>2, <3>3 DEF Serial!End
  <2>3. ASSUME NEW o \in Operations, NEW c \in Containers, Accepts(o, c)
        PROVE  Serial!Accept(o, c)
    <3>1. owned[o] = None /\ owned' = [owned EXCEPT ![o] = c]
      BY <2>3 DEF Accepts
    <3>2. executes' = executes BY <2>3 DEF Accepts
    <3>3. concluded' = concluded
      <4>1. \A p \in Operations : Finished(p)' <=> Finished(p)
        BY <2>0, <2>3 DEF Accepts, Finished
      <4> QED BY <4>1
    <3>4. o \notin Serial!Accepted BY <2>0, <2>3 DEF Accepts
    <3> QED BY <3>1, <3>2, <3>3, <3>4 DEF Serial!Accept
  <2>4. ASSUME NEW w \in Workers, NEW o \in Operations, Begins(w, o)
        PROVE  Serial!Begin(o)
    <3>1. o \in Serial!Accepted
      BY <1>2, <2>0, <2>4 DEF Begins, IInv, Shape, OpsShape
    <3>2. o \notin concluded \cup executes BY <2>4 DEF Begins, Finished
    <3>3. \A p \in executes : owned[p] # owned[o]
      <4>1. ASSUME NEW v \in Workers, workers[v].claimed
            PROVE  /\ workers[v].op \in Operations
                   /\ ops[workers[v].op].container # ops[o].container
        BY <1>2, <2>4, <4>1
           DEF Begins, ContainerOf, OpOf, IInv, Shape, WorkersShape
      <4> QED BY <4>1
    <3>4. executes' = executes \cup {o} BY <2>4 DEF Begins
    <3>5. owned' = owned BY <2>4 DEF Begins
    <3>6. concluded' = concluded BY <2>4 DEF Begins, Finished
    <3> QED BY <3>1, <3>2, <3>3, <3>4, <3>5, <3>6 DEF Serial!Begin
  <2> QED BY <1>2, <2>1, <2>2, <2>3, <2>4, NextEffect DEF Serial!Next
<1> QED BY <1>1, <1>2, Invariant, PTL DEF Spec, RefinesSerialExecution, Serial!Spec

-----------------------------------------------------------------------------
(***************************************************************************)
(* Accepted operations are carried, as long as the database answers where  *)
(* the code goes on without an answer: every CompleteOperation, whether    *)
(* the operation succeeded or failed, and the requeue after a failing      *)
(* UpdateStatus, whose errors are ignored or only logged; the check of a   *)
(* running operation, whose error leaves it running; and the recovery at a *)
(* start, whose error is logged.  Every other call may fail.               *)
(***************************************************************************)

AnswersWhereIgnored ==
    FaultPoints \cap {"dbComplete", "dbFail", "dbUnclaim", "dbCheck", "dbRecover"} = {}

HasCopy(o) == queue[o] > 0 \/ \E w \in Workers : workers[w].op = o
Due(o) == ops[o].status = "pending" /\ Exists(ops[o].container)

\* The outbox and its worker know operations that were accepted.
PublicationShape ==
    /\ \A o \in Operations : outbox[o] # "none" => ops[o].status # "none"
    /\ publisher.pc # "idle" =>
          publisher.op \in Operations /\ ops[publisher.op].status # "none"

\* An idle handler holds no delivery.  One that has given up but for its cleanup
\* still does: it will put it back, or nobody needs it any more.
CleanupHold ==
    \A w \in Workers :
        /\ workers[w].pc = "idle" => workers[w].op = None
        /\ workers[w].pc = "cleanup" =>
              /\ ~workers[w].claimed
              /\ workers[w].verdict = "retry" \/ ~Active(workers[w].op)

PendingCarried ==
    /\ \A o \in Operations : Due(o) => outbox[o] \in {"pending", "publishing"} \/ HasCopy(o)
    /\ publisher.pc = "mark" /\ Due(publisher.op) => HasCopy(publisher.op)

RunningCarried ==
    \A o \in Operations : ops[o].status = "running" =>
        \E w \in Workers : workers[w].op = o /\ workers[w].claimed

CarriageInv == PublicationShape /\ CleanupHold /\ PendingCarried /\ RunningCarried

\* A create is requeued without its message only if its row is gone.
UnclaimHold ==
    \A w \in Workers : workers[w].pc = "unclaim" =>
        workers[w].verdict = "retry" \/ ~Exists(ContainerOf(w))

\* A key is not reused: a row that is gone does not come back.
LEMMA GoneForGood ==
    ASSUME IInv, Next, NEW c \in Containers, ~Exists(c),
           NEW p \in Operations, ops[p].container = c
    PROVE  ~Exists(c)'
<1>0. rows \in [Containers -> RowType]
  BY DEF IInv, Shape, TypeOK
<1>1. CASE Api
  <2>1. ASSUME NEW b, Exists(b), \A x \in Containers \ {b} : rows'[x] = rows[x]
        PROVE  ~Exists(c)'
    BY <2>1 DEF Exists
  <2>2. UNCHANGED rows => ~Exists(c)'
    BY DEF Exists
  <2>3. ASSUME NEW k \in Callers, MarkUnprovisioned(k) \/ CancelCreate(k)
        PROVE  ~Exists(c)'
    BY <1>0, <2>1, <2>2, <2>3 DEF MarkUnprovisioned, CancelCreate
  <2>4. ASSUME NEW k \in Callers, NEW o \in Operations, QueueOperation(k, o)
        PROVE  ~Exists(c)'
    BY <1>0, <2>1, <2>4 DEF QueueOperation
  <2>5. ASSUME NEW b \in Containers, NEW o \in Operations, CreateContainer(b, o)
        PROVE  ~Exists(c)'
    BY <1>0, <2>5 DEF CreateContainer, Exists
  <2> QED BY <1>1, <2>2, <2>3, <2>4, <2>5 DEF Api, BeginRequest, RejectRequest
<1>2. ASSUME NEW w \in Workers, Proceed(w)
      PROVE  ~Exists(c)'
  <2>1. CASE Unclaim(w) \/ Complete(w) \/ Requeue(w) \/ FailOp(w)
    BY <2>1 DEF Unclaim, Complete, Requeue, FailOp, Exists
  <2>2. CASE ~(Unclaim(w) \/ Complete(w) \/ Requeue(w) \/ FailOp(w))
    BY <1>2, <2>2, QuietProceed DEF Proceed
  <2> QED BY <2>1, <2>2
<1>3. CASE \/ Publisher \/ Outside \/ CrashAndRecover
           \/ \E w \in Workers, o \in Operations : Claim(w, o)
  <2>1. UNCHANGED rows
    BY <1>3 DEF Publisher, LeaseOutbox, DiscardOutbox, PublishMessage, PublishFails, MarkPublished,
                Outside, ContainerExits, RemovedOutside, CrashAndRecover, Claim
  <2> QED BY <2>1 DEF Exists
<1> QED BY <1>1, <1>2, <1>3 DEF Next, Consume

\* Only SetCreating makes a goroutine give a create back.
LEMMA UnclaimEntered ==
    ASSUME IInv, Next, NEW w \in Workers, workers'[w].pc = "unclaim"
    PROVE  workers'[w] = workers[w] \/ SetCreating(w)
<1>0. /\ workers \in [Workers -> WorkerType]
      /\ \A v \in Workers : workers[v] \in WorkerType
  BY DEF IInv, Shape, TypeOK
<1>1. ASSUME NEW v \in Workers, NEW pc, pc # "unclaim",
             \/ Goto(v, pc)
             \/ \E verdict : GotoFailing(v, pc, verdict)
             \/ \E verdict : Settle(v, verdict)
             \/ \E verdict : Leave(v, verdict)
      PROVE  workers'[w] = workers[w]
  <2>1. workers'[v].pc # "unclaim"
    BY <1>0, <1>1 DEF Goto, GotoFailing, Settle, Leave, IdleWorker, WorkerType
  <2>2. v # w
    BY <2>1
  <2> QED BY <1>0, <1>1, <2>2 DEF Goto, GotoFailing, Settle, Leave
<1>2. ASSUME NEW v \in Workers, v # w, SetCreating(v)
      PROVE  workers'[w] = workers[w]
  BY <1>0, <1>2 DEF SetCreating, Goto, GotoFailing
<1>3. ASSUME NEW v \in Workers, Load(v)
      PROVE  workers'[w] = workers[w]
  <2>1. CASE \E verdict : GotoFailing(v, "failOp", verdict)
    BY <1>1, <2>1
  <2>2. CASE workers' = [workers EXCEPT
                ![v].seen = rows[ContainerOf(v)],
                ![v].pc = AfterLoad(KindOf(v), rows[ContainerOf(v)]),
                ![v].verdict = IF AfterLoad(KindOf(v), rows[ContainerOf(v)]) = "failRow"
                               THEN "dead" ELSE "ack"]
    <3>1. workers'[v].pc # "unclaim"
      BY <1>0, <2>2 DEF AfterLoad, WorkerType
    <3> QED BY <1>0, <2>2, <3>1
  <2> QED BY <1>3, <2>1, <2>2 DEF Load
<1>4. ASSUME NEW v \in Workers,
             \/ Unclaim(v) \/ CheckRunning(v) \/ DockerTimesOut(v) \/ DockerRefuses(v)
             \/ Complete(v) \/ Requeue(v) \/ FailOp(v) \/ Cleanup(v)
      PROVE  workers'[w] = workers[w]
  <2>1. CASE Unclaim(v) \/ Complete(v) \/ Cleanup(v)
    BY <1>1, <2>1 DEF Unclaim, Complete, Cleanup
  <2>2. CASE CheckRunning(v)
    <3>1. \/ Goto(v, IF KindOf(v) = "create" THEN "createDocker" ELSE "docker")
          \/ \E verdict : Settle(v, verdict)
      BY <2>2 DEF CheckRunning
    <3> QED BY <1>1, <3>1
  <2>3. CASE DockerTimesOut(v) \/ DockerRefuses(v)
    BY <1>1, <2>3 DEF DockerTimesOut, DockerRefuses
  <2>4. CASE Requeue(v) \/ FailOp(v)
    BY <1>1, <2>4 DEF Requeue, FailOp
  <2> QED BY <1>4, <2>1, <2>2, <2>3, <2>4
<1>5. ASSUME NEW v \in Workers,
             CallDocker(v) \/ StartNew(v) \/ SetTarget(v) \/ MarkMissing(v) \/ FailRow(v)
      PROVE  workers'[w] = workers[w]
  BY <1>1, <1>5 DEF CallDocker, StartNew, Replied, SetTarget, MarkMissing, FailRow
<1>6. ASSUME NEW v \in Workers, NEW pc, pc # "unclaim", NEW d,
             \/ workers' = [workers EXCEPT ![v].newId = d, ![v].pc = pc]
             \/ workers' = [workers EXCEPT ![v].pc = pc, ![v].newId = d]
      PROVE  workers'[w] = workers[w]
  <2>1. workers'[v].pc # "unclaim"
    BY <1>0, <1>6 DEF WorkerType
  <2> QED BY <1>0, <1>6, <2>1
<1>7. ASSUME NEW v \in Workers, CreateDocker(v)
      PROVE  workers'[w] = workers[w]
  <2>1. \/ GotoFailing(v, "failRow", "retry") \/ Goto(v, "requeue")
        \/ \E d \in DockerIds, pc \in {"record", "startNew"} :
              workers' = [workers EXCEPT ![v].newId = d, ![v].pc = pc]
    BY <1>7 DEF CreateDocker
  <2> QED BY <1>1, <1>6, <2>1
<1>8. ASSUME NEW v \in Workers, RemoveOld(v) \/ RemoveNew(v)
      PROVE  workers'[w] = workers[w]
  <2>1. \E pc \in {"complete", "failRow"} :
           workers' = [workers EXCEPT ![v].pc = pc, ![v].newId = None]
    BY <1>8 DEF RemoveOld, RemoveNew
  <2> QED BY <1>6, <2>1
<1>9. ASSUME NEW v \in Workers, Record(v)
      PROVE  workers'[w] = workers[w]
  <2>1. CASE \E pc \in {"removeNew", "failRow"}, verdict \in {"retry", "dead"} :
                GotoFailing(v, pc, verdict)
    BY <1>1, <2>1
  <2>2. CASE workers' = [workers EXCEPT
                ![v].pc = IF KindOf(v) = "expose" THEN "target" ELSE "complete",
                ![v].newId = IF KindOf(v) = "create" THEN None ELSE @]
    <3>1. workers'[v].pc # "unclaim"
      BY <1>0, <2>2 DEF WorkerType
    <3> QED BY <1>0, <2>2, <3>1
  <2> QED BY <1>9, <2>1, <2>2 DEF Record
<1>10. ASSUME NEW v \in Workers, NEW o \in Operations, Claim(v, o)
       PROVE  workers'[w] = workers[w]
  <2>1. /\ \A u \in Workers \ {v} : workers'[u] = workers[u]
        /\ workers[v].pc = "idle"
        /\ workers' = workers \/ workers'[v].pc \in {"creating", "load", "failRow"}
    BY <1>0, <1>10 DEF Claim, IdleWorker
  <2> QED BY <2>1
<1>11. CASE Api \/ Publisher \/ Outside
  BY <1>11 DEF Api, CreateContainer, BeginRequest, RejectRequest, MarkUnprovisioned, CancelCreate,
               QueueOperation, Publisher, LeaseOutbox, DiscardOutbox, PublishMessage, PublishFails,
               MarkPublished, Outside, ContainerExits, RemovedOutside
<1>12. ~CrashAndRecover
  BY DEF CrashAndRecover, IdleWorker
<1> QED BY <1>2, <1>3, <1>4, <1>5, <1>7, <1>8, <1>9, <1>10, <1>11, <1>12
        DEF Next, Consume, Proceed

LEMMA UnclaimStep ==
    ASSUME IInv, UnclaimHold, Next
    PROVE  UnclaimHold'
<1> SUFFICES ASSUME NEW w \in Workers, workers'[w].pc = "unclaim", workers'[w].verdict # "retry"
             PROVE  ~Exists(ContainerOf(w))'
  BY DEF UnclaimHold
<1>0. workers \in [Workers -> WorkerType]
  BY DEF IInv, Shape, TypeOK
<1>1. CASE SetCreating(w)
  <2>1. /\ GotoFailing(w, "unclaim", "dead") /\ ~Exists(ContainerOf(w)) /\ UNCHANGED <<rows, ops>>
    BY <1>0, <1>1 DEF SetCreating, Goto, GotoFailing, WorkerType
  <2>2. workers'[w].op = workers[w].op
    BY <1>0, <2>1 DEF GotoFailing, WorkerType
  <2> QED BY <2>1, <2>2 DEF ContainerOf, OpOf, Exists
<1>2. CASE workers'[w] = workers[w]
  <2>1. /\ workers[w].op \in Operations /\ ops[workers[w].op].status # "none"
        /\ ContainerOf(w) \in Containers
    BY <1>2, WorkerFacts DEF IInv, Shape, WorkersShape
  <2>2. ~Exists(ContainerOf(w))
    BY <1>2 DEF UnclaimHold
  <2>3. ops'[workers[w].op].container = ops[workers[w].op].container
    <3>1. \/ Ends \/ \E o \in Operations, c \in Containers : Accepts(o, c)
          \/ \E v \in Workers, o \in Operations : Begins(v, o)
      BY NextEffect
    <3> QED BY <2>1, <3>1 DEF Ends, Accepts, Begins, IInv, Shape, OpsShape
  <2>4. PICK c \in Containers : c = ContainerOf(w)
    BY <2>1
  <2>5. ~Exists(c)'
    BY <2>1, <2>2, <2>4, GoneForGood DEF ContainerOf, OpOf
  <2>6. ContainerOf(w)' = c
    BY <1>2, <2>3, <2>4 DEF ContainerOf, OpOf
  <2> QED BY <2>5, <2>6 DEF Exists
<1> QED BY <1>1, <1>2, UnclaimEntered

\* The order of a create's two first calls in a goroutine (an invariant).
LEMMA Unclaiming == Spec => []UnclaimHold
<1>1. Init => UnclaimHold
  BY DEF Init, UnclaimHold, IdleWorker
<1>2. IInv /\ UnclaimHold /\ [Next]_vars => UnclaimHold'
  <2>1. CASE UNCHANGED vars
    BY <2>1 DEF vars, UnclaimHold, Exists, ContainerOf, OpOf
  <2> QED BY <2>1, UnclaimStep
<1> QED BY <1>1, <1>2, Invariant, PTL DEF Spec

LEMMA CopiesPositive ==
    ASSUME TypeOK, NEW o \in Operations
    PROVE  Copies(o) > 0 <=> HasCopy(o)
<1> DEFINE delivered == {w \in Workers : workers[w].op = o}
<1>1. IsFiniteSet(delivered)
  BY ConstantsAssumption, FS_Subset DEF ConstantsAssumption
<1>2. Cardinality(delivered) \in Nat /\ (Cardinality(delivered) = 0 <=> delivered = {})
  BY <1>1, FS_CardinalityType, FS_EmptySet
<1>3. queue[o] \in Nat
  BY DEF TypeOK
<1>4. Copies(o) = queue[o] + Cardinality(delivered)
  BY DEF Copies
<1>5. delivered # {} <=> \E w \in Workers : workers[w].op = o
  OBVIOUS
<1> HIDE DEF delivered
<1> QED BY <1>2, <1>3, <1>4, <1>5 DEF HasCopy

LEMMA CarriageSuffices ==
    ASSUME IInv, CarriageInv
    PROVE  ActiveOperationIsCarried
BY CopiesPositive DEF IInv, Shape, CarriageInv, PendingCarried, RunningCarried, Due,
   ActiveOperationIsCarried

\* A step that leaves the operations alone and takes no delivery away.
LEMMA QuietCarries ==
    ASSUME CarriageInv, UNCHANGED <<ops, publisher>>,
           \A o \in Operations : Due(o)' => Due(o) /\ outbox'[o] = outbox[o],
           \A o \in Operations : outbox'[o] # "none" => outbox[o] # "none",
           \A o \in Operations : HasCopy(o) => HasCopy(o)',
           \A w \in Workers :
              /\ workers[w].claimed => workers'[w].claimed /\ workers'[w].op = workers[w].op
              /\ workers'[w].pc \in {"idle", "cleanup"} => workers'[w] = workers[w]
    PROVE  CarriageInv'
<1> USE DEF CarriageInv
<1>1. PublicationShape'
  BY DEF PublicationShape
<1>2. CleanupHold'
  BY DEF CleanupHold, Active
<1>3. PendingCarried'
  BY DEF PendingCarried, PublicationShape
<1>4. RunningCarried'
  BY DEF RunningCarried
<1> QED BY <1>1, <1>2, <1>3, <1>4

\* A step in which a handler gives its operation up.
LEMMA GivesUp ==
    ASSUME IInv, CarriageInv, NEW w \in Workers, workers[w].pc # "idle",
           NEW verdict, Settle(w, verdict) \/ Leave(w, verdict),
           UNCHANGED <<rows, outbox, publisher>>,
           \A o \in Operations \ {workers[w].op} : ops'[o] = ops[o],
           ops'[workers[w].op].container = OpOf(w).container,
           ops'[workers[w].op].status # "none",
           ops'[workers[w].op].status \in {"pending", "running"} => Active(workers[w].op),
           ops'[workers[w].op].status = "running" => OpOf(w).status = "running",
           \/ verdict = "retry"
           \/ ops'[workers[w].op].status \notin {"pending", "running"}
           \/ Settle(w, verdict) /\ ~Exists(ContainerOf(w)),
           workers[w].claimed => ops'[workers[w].op].status # "running"
    PROVE  CarriageInv'
<1> USE DEF CarriageInv
<1>0. PICK p \in Operations : p = workers[w].op
  BY WorkerFacts DEF IInv
<1>1. /\ workers[w] \in WorkerType /\ queue \in [Operations -> Nat]
      /\ workers \in [Workers -> WorkerType]
  BY WorkerFacts DEF IInv, Shape, TypeOK
<1>2. \A v \in Workers \ {w} : workers'[v] = workers[v]
  BY <1>0, <1>1 DEF Settle, Leave
<1>3. \/ /\ Settle(w, verdict)
         /\ workers'[w].pc = "idle" /\ workers'[w].op = None
         /\ verdict = "retry" => queue'[p] > 0
      \/ /\ workers'[w].pc = "cleanup" /\ ~workers'[w].claimed
         /\ workers'[w].op = p /\ workers'[w].verdict = verdict
         /\ verdict = "retry" \/ ops'[p].status \notin {"pending", "running"}
  <2>1. CASE Settle(w, verdict)
    <3>1. workers'[w] = IdleWorker
      BY <1>0, <1>1, <2>1 DEF Settle
    <3>2. verdict = "retry" => queue'[p] = queue[p] + 1 /\ queue[p] \in Nat
      BY <1>0, <1>1, <2>1 DEF Settle
    <3> QED BY <2>1, <3>1, <3>2 DEF IdleWorker
  <2>2. CASE ~Settle(w, verdict)
    <3>1. workers' = [workers EXCEPT ![w].pc = "cleanup", ![w].claimed = FALSE,
                                     ![w].verdict = verdict]
      BY <2>2 DEF Leave
    <3>2. /\ workers'[w].pc = "cleanup" /\ ~workers'[w].claimed
          /\ workers'[w].op = p /\ workers'[w].verdict = verdict
      BY <1>0, <1>1, <3>1 DEF WorkerType
    <3> QED BY <1>0, <2>2, <3>2
  <2> QED BY <2>1, <2>2
<1>4. \A o \in Operations \ {p} : queue'[o] = queue[o]
  BY <1>0, <1>1 DEF Settle, Leave
<1>5. verdict = "retry" => HasCopy(p)'
  BY <1>0, <1>1, <1>3 DEF HasCopy
<1>6. \A o \in Operations \ {p} : HasCopy(o) => HasCopy(o)'
  BY <1>0, <1>2, <1>4 DEF HasCopy
<1>7. \A o \in Operations : Due(o)' => (Due(o) /\ o # p) \/ HasCopy(o)'
  <2>2. Due(p)' => HasCopy(p)'
    <3>1. CASE verdict = "retry"
      BY <1>5, <3>1
    <3>2. CASE ops'[p].status \notin {"pending", "running"}
      BY <1>0, <3>2 DEF Due
    <3>3. CASE ~Exists(ContainerOf(w))
      BY <1>0, <1>1, <3>3 DEF Due, ContainerOf, OpOf, Exists
    <3> QED BY <1>0, <3>1, <3>2, <3>3
  <2>3. \A o \in Operations \ {p} : Due(o)' => Due(o)
    BY <1>0 DEF Due, Exists
  <2> QED BY <2>2, <2>3
<1>8. PublicationShape'
  BY <1>0 DEF PublicationShape
<1>9. CleanupHold'
  <2>1. \A o \in Operations : Active(o)' => Active(o)
    BY <1>0 DEF Active
  <2>2. ASSUME NEW v \in Workers \ {w}, workers'[v].pc = "cleanup"
        PROVE  /\ ~workers'[v].claimed
               /\ workers'[v].verdict = "retry" \/ ops'[workers'[v].op].status \notin {"pending", "running"}
    <3>1. workers[v].op \in Operations
      BY <1>2, <2>2, WorkerFacts DEF IInv
    <3> QED BY <1>2, <2>1, <2>2, <3>1 DEF CleanupHold, Active
  <2>3. ASSUME workers'[w].pc = "cleanup"
        PROVE  /\ ~workers'[w].claimed
               /\ workers'[w].verdict = "retry" \/ ops'[workers'[w].op].status \notin {"pending", "running"}
    BY <1>0, <1>3, <2>3 DEF Active
  <2>4. \A v \in Workers : workers'[v].pc = "idle" => workers'[v].op = None
    BY <1>2, <1>3 DEF CleanupHold
  <2> QED BY <2>2, <2>3, <2>4 DEF CleanupHold, Active
<1>10. PendingCarried'
  BY <1>6, <1>7 DEF PendingCarried, PublicationShape
<1>11. RunningCarried'
  <2>1. ASSUME NEW o \in Operations, ops'[o].status = "running"
        PROVE  \E v \in Workers : workers'[v].op = o /\ workers'[v].claimed
    <3>1. CASE o # p
      <4>1. PICK v \in Workers : workers[v].op = o /\ workers[v].claimed
        BY <1>0, <2>1, <3>1 DEF RunningCarried
      <4> QED BY <1>0, <1>2, <3>1, <4>1
    <3>2. CASE o = p
      <4>1. ~workers[w].claimed /\ ops[p].status = "running"
        BY <1>0, <2>1, <3>2 DEF OpOf
      <4>2. PICK v \in Workers : workers[v].op = p /\ workers[v].claimed
        BY <1>0, <1>1, <4>1 DEF RunningCarried
      <4>3. v # w
        BY <4>1, <4>2
      <4> QED BY <1>0, <1>2, <3>2, <4>2, <4>3
    <3> QED BY <3>1, <3>2
  <2> QED BY <2>1 DEF RunningCarried
<1> QED BY <1>8, <1>9, <1>10, <1>11

\* A step in which a handler goes on.
Advances(w) ==
    /\ workers'[w].op = workers[w].op /\ workers'[w].claimed = workers[w].claimed
    /\ workers'[w].pc \notin {"idle", "cleanup"}
    /\ \A v \in Workers \ {w} : workers'[v] = workers[v]
    /\ UNCHANGED queue

LEMMA GotoAdvances ==
    ASSUME TypeOK, NEW w \in Workers, NEW pc \in WorkerPcs \ {"idle", "cleanup"}, UNCHANGED queue,
           \/ Goto(w, pc)
           \/ \E verdict : GotoFailing(w, pc, verdict)
    PROVE  Advances(w)
BY DEF TypeOK, Goto, GotoFailing, WorkerType, Advances

\* The container of a row that is deleted is due for nothing any more.
LEMMA AdvancesCarries ==
    ASSUME IInv, CarriageInv, NEW w \in Workers, Advances(w), UNCHANGED <<ops, publisher>>,
           \A c \in Containers : Exists(c)' => Exists(c),
           \/ UNCHANGED outbox
           \/ outbox' = OutboxWithout(ContainerOf(w)) /\ ~Exists(ContainerOf(w))'
    PROVE  CarriageInv'
<1>1. \A o \in Operations : ops[o].status # "none" => ops[o].container \in Containers
  BY DEF IInv, Shape, TypeOK, OpsShape, OpType
<1>2. outbox \in [Operations -> OutboxStatuses]
  BY DEF IInv, Shape, TypeOK
<1>4. \A o \in Operations : Due(o)' => Due(o) /\ outbox'[o] = outbox[o]
  <2> SUFFICES ASSUME NEW o \in Operations, Due(o)'
               PROVE  Due(o) /\ outbox'[o] = outbox[o]
    OBVIOUS
  <2>1. ops[o].container \in Containers /\ Due(o)
    BY <1>1 DEF Due
  <2>2. CASE outbox' = OutboxWithout(ContainerOf(w)) /\ ~Exists(ContainerOf(w))'
    <3>1. ContainerOf(w)' = ContainerOf(w)
      BY DEF Advances, ContainerOf, OpOf
    <3>2. ops[o].container # ContainerOf(w)
      BY <2>1, <2>2, <3>1 DEF Due, Exists
    <3> QED BY <2>1, <2>2, <3>2 DEF OutboxWithout
  <2> QED BY <2>1, <2>2
<1>5. \A o \in Operations : outbox'[o] # "none" => outbox[o] # "none"
  BY <1>2 DEF OutboxWithout
<1>6. \A o \in Operations : HasCopy(o) => HasCopy(o)'
  BY DEF Advances, HasCopy
<1>7. \A v \in Workers :
         /\ workers[v].claimed => workers'[v].claimed /\ workers'[v].op = workers[v].op
         /\ workers'[v].pc \in {"idle", "cleanup"} => workers'[v] = workers[v]
  BY DEF Advances
<1> QED BY <1>4, <1>5, <1>6, <1>7, QuietCarries

LEMMA QuietAdvances ==
    ASSUME IInv, CarriageInv, NEW w \in Workers,
           \/ DockerTimesOut(w) \/ DockerRefuses(w)
           \/ CreateDocker(w) \/ CallDocker(w) \/ StartNew(w) \/ Record(w)
           \/ SetTarget(w) \/ RemoveOld(w) \/ RemoveNew(w) \/ MarkMissing(w)
           \/ FailRow(w)
    PROVE  CarriageInv'
<1>0. TypeOK /\ workers \in [Workers -> WorkerType] /\ rows \in [Containers -> RowType]
  BY DEF IInv, Shape, TypeOK
<1>1. UNCHANGED ops /\ \A c \in Containers : Exists(c)' => Exists(c)
  BY QuietProceed
<1>2. UNCHANGED <<publisher, queue>>
  BY DEF DockerTimesOut, DockerRefuses, CreateDocker, CallDocker, StartNew, Record, SetTarget,
         RemoveOld, RemoveNew, MarkMissing, FailRow
<1>3. CASE ~Record(w)
  <2>1. UNCHANGED outbox
    BY <1>3 DEF DockerTimesOut, DockerRefuses, CreateDocker, CallDocker, StartNew, SetTarget,
         RemoveOld, RemoveNew, MarkMissing, FailRow
  <2>2. {"requeue", "failRow", "record", "markMissing", "createDocker", "removeOld", "failOp",
         "startNew", "complete"}
           \subseteq WorkerPcs \ {"idle", "cleanup"}
    BY DEF WorkerPcs
  <2>3. ASSUME NEW pc \in WorkerPcs \ {"idle", "cleanup"},
               Goto(w, pc) \/ \E verdict : GotoFailing(w, pc, verdict)
        PROVE  Advances(w)
    BY <1>0, <1>2, <2>3, GotoAdvances
  <2>4. ASSUME NEW d, NEW pc \in WorkerPcs \ {"idle", "cleanup"},
               workers' = [workers EXCEPT ![w].newId = d, ![w].pc = pc]
        PROVE  Advances(w)
    BY <1>0, <1>2, <2>4 DEF Advances, WorkerType
  <2>5. ASSUME NEW d, NEW pc \in WorkerPcs \ {"idle", "cleanup"},
               workers' = [workers EXCEPT ![w].pc = pc, ![w].newId = d]
        PROVE  Advances(w)
    BY <1>0, <1>2, <2>5 DEF Advances, WorkerType
  <2>6. Advances(w)
    <3>1. CASE DockerTimesOut(w) \/ DockerRefuses(w)
      BY <2>2, <2>3, <3>1 DEF DockerTimesOut, DockerRefuses
    <3>2. CASE CreateDocker(w)
      BY <2>2, <2>3, <2>4, <3>2 DEF CreateDocker
    <3>3. CASE CallDocker(w)
      BY <2>2, <2>3, <3>3 DEF CallDocker, Replied
    <3>6. CASE StartNew(w)
      <4>1. Goto(w, "record") \/ Goto(w, "requeue") \/ GotoFailing(w, "failRow", "retry")
        BY <3>6 DEF StartNew, Replied
      <4> QED BY <2>2, <2>3, <4>1
    <3>4. CASE SetTarget(w) \/ MarkMissing(w) \/ FailRow(w)
      BY <2>2, <2>3, <3>4 DEF SetTarget, MarkMissing, FailRow
    <3>5. CASE RemoveOld(w) \/ RemoveNew(w)
      BY <2>2, <2>5, <3>5 DEF RemoveOld, RemoveNew
    <3> QED BY <1>3, <3>1, <3>2, <3>3, <3>4, <3>5, <3>6
  <2> QED BY <1>1, <1>2, <2>1, <2>6, AdvancesCarries
<1>4. CASE Record(w)
  <2>1. CASE /\ RecordRow(w)
             /\ outbox' = IF KindOf(w) = "delete" THEN OutboxWithout(ContainerOf(w)) ELSE outbox
             /\ workers' = [workers EXCEPT
                   ![w].pc = IF KindOf(w) = "expose" THEN "target" ELSE "complete",
                   ![w].newId = IF KindOf(w) = "create" THEN None ELSE @]
    <3>1. Advances(w)
      BY <1>0, <1>2, <2>1 DEF Advances, WorkerType
    <3>2. KindOf(w) = "delete" => ~Exists(ContainerOf(w))'
      <4>1. ContainerOf(w)' = ContainerOf(w) /\ ContainerOf(w) \in Containers
        BY <1>1, <1>4, <3>1, WorkerFacts DEF Advances, ContainerOf, OpOf, Record, IInv
      <4> QED BY <1>0, <2>1, <4>1 DEF RecordRow, Exists, NoRow
    <3> QED BY <1>1, <1>2, <2>1, <3>1, <3>2, AdvancesCarries
  <2>2. CASE /\ UNCHANGED outbox
             /\ \E pc \in {"removeNew", "failRow"} : \E verdict : GotoFailing(w, pc, verdict)
    <3>1. {"removeNew", "failRow"} \subseteq WorkerPcs \ {"idle", "cleanup"}
      BY DEF WorkerPcs
    <3>2. Advances(w)
      BY <1>0, <1>2, <2>2, <3>1, GotoAdvances
    <3> QED BY <1>1, <1>2, <2>2, <3>2, AdvancesCarries
  <2> QED BY <1>4, <2>1, <2>2 DEF Record
<1> QED BY <1>3, <1>4

LEMMA ProceedCarries ==
    ASSUME IInv, CarriageInv, UnclaimHold, AnswersWhereIgnored, NEW w \in Workers, Proceed(w)
    PROVE  CarriageInv'
<1> DEFINE p == workers[w].op
<1>0. /\ TypeOK /\ workers \in [Workers -> WorkerType] /\ rows \in [Containers -> RowType]
      /\ ops \in [Operations -> OpType]
  BY DEF IInv, Shape, TypeOK
<1>1. ASSUME NEW point \in {"dbComplete", "dbFail", "dbUnclaim", "dbCheck", "dbRecover"},
             Fault(point)
      PROVE  FALSE
  BY <1>1 DEF Fault, AnswersWhereIgnored
<1>2. workers[w].pc # "idle" => /\ p \in Operations /\ ops[p].status # "none"
                               /\ ContainerOf(w) \in Containers
  BY WorkerFacts DEF IInv, Shape, WorkersShape
<1>3. workers[w].claimed => ops[p].status \in {"running", "failed"}
  BY DEF IInv, Ownership, ClaimsHold, OpOf
<1>4. workers[w].pc \notin {"idle", "failRow", "failOp", "cleanup"} => workers[w].claimed
  BY DEF IInv, Shape, WorkersShape
<1>5. ASSUME NEW status, SetOp(w, status), workers[w].pc # "idle"
      PROVE  /\ \A o \in Operations \ {p} : ops'[o] = ops[o]
             /\ ops'[p].container = ops[p].container /\ ops'[p].status = status
  BY <1>0, <1>2, <1>5 DEF SetOp, OpType
<1>6. CASE CheckRunning(w)
  <2>1. workers[w].claimed /\ workers[w].pc # "idle" /\ UNCHANGED <<rows, ops, outbox, publisher>>
    BY <1>4, <1>6 DEF CheckRunning
  <2>2. CASE OpOf(w).status = "running"
    <3>1. \E pc \in WorkerPcs \ {"idle", "cleanup"} : Goto(w, pc) /\ UNCHANGED queue
      BY <1>1, <1>6, <2>2 DEF CheckRunning, WorkerPcs
    <3>2. Advances(w)
      BY <1>0, <3>1, GotoAdvances
    <3> QED BY <2>1, <3>2, AdvancesCarries DEF Exists
  <2>3. CASE OpOf(w).status # "running"
    <3>1. Settle(w, "dead") /\ ops[p].status = "failed"
      BY <1>1, <1>3, <1>6, <2>1, <2>3 DEF CheckRunning, OpOf
    <3> QED BY <1>2, <2>1, <3>1, GivesUp DEF OpOf
  <2> QED BY <2>2, <2>3
<1>7. CASE Cleanup(w)
  <2>1. /\ Settle(w, workers[w].verdict) /\ workers[w].pc = "cleanup"
        /\ UNCHANGED <<rows, ops, outbox, publisher>>
    BY <1>7 DEF Cleanup
  <2>2. workers[w].verdict = "retry" \/ ~Active(p)
    BY <2>1 DEF CarriageInv, CleanupHold
  <2>3. ~workers[w].claimed
    BY <2>1 DEF CarriageInv, CleanupHold
  <2> QED BY <1>2, <2>1, <2>2, <2>3, GivesUp DEF OpOf, Active
<1>8. CASE SetCreating(w)
  <2>1. UNCHANGED <<ops, outbox, queue, publisher>> /\ \A c \in Containers : Exists(c)' => Exists(c)
    BY <1>8, QuietProceed DEF SetCreating
  <2>2. {"load", "unclaim"} \subseteq WorkerPcs \ {"idle", "cleanup"}
    BY DEF WorkerPcs
  <2>3. Advances(w)
    BY <1>0, <1>8, <2>1, <2>2, GotoAdvances DEF SetCreating
  <2> QED BY <2>1, <2>3, AdvancesCarries
<1>9. CASE Load(w)
  <2>1. /\ UNCHANGED <<rows, ops, outbox, queue, publisher>>
    BY <1>9 DEF Load
  <2> DEFINE row == rows[ContainerOf(w)]
             pc  == AfterLoad(KindOf(w), row)
  <2>2. CASE workers' = [workers EXCEPT ![w].seen = row, ![w].pc = pc,
                               ![w].verdict = IF pc = "failRow" THEN "dead" ELSE "ack"]
    <3>0. pc \notin {"idle", "cleanup"}
      BY DEF AfterLoad
    <3> HIDE DEF row, pc
    <3>1. Advances(w)
      BY <1>0, <2>1, <2>2, <3>0 DEF Advances, WorkerType
    <3> QED BY <2>1, <3>1, AdvancesCarries DEF Exists
  <2>3. CASE \E verdict : GotoFailing(w, "failOp", verdict)
    <3>1. Advances(w)
      BY <1>0, <2>1, <2>3, GotoAdvances DEF WorkerPcs
    <3> QED BY <2>1, <3>1, AdvancesCarries DEF Exists
  <2> QED BY <1>9, <2>2, <2>3 DEF Load
<1>13. CASE Unclaim(w)
  <2>1. /\ workers[w].claimed /\ workers[w].pc = "unclaim"
        /\ UNCHANGED <<rows, outbox, publisher>>
        /\ ops' = RequeuedOps(w) /\ Settle(w, workers[w].verdict)
    BY <1>1, <1>4, <1>13 DEF Unclaim
  <2>2. workers[w].verdict = "retry" \/ ~Exists(ContainerOf(w))
    BY <2>1 DEF UnclaimHold
  <2>3. /\ \A o \in Operations \ {p} : ops'[o] = ops[o]
        /\ ops'[p].container = ops[p].container
        /\ ops'[p].status = IF ops[p].status = "running" THEN "pending" ELSE ops[p].status
    BY <1>0, <1>2, <2>1 DEF RequeuedOps, OpOf, OpType
  <2>4. ops'[p].status \in {"pending", "running"} => Active(p)
    BY <2>3 DEF Active
  <2> QED BY <1>2, <2>1, <2>2, <2>3, <2>4, GivesUp DEF OpOf
<1>10. CASE Complete(w)
  <2>1. /\ workers[w].claimed /\ workers[w].pc # "idle" /\ UNCHANGED <<rows, outbox, publisher>>
        /\ SetOp(w, "done") /\ Settle(w, "ack")
    BY <1>1, <1>4, <1>10 DEF Complete
  <2> QED BY <1>2, <1>5, <2>1, GivesUp DEF OpOf
<1>11. CASE Requeue(w)
  <2>1. /\ workers[w].claimed /\ workers[w].pc # "idle" /\ UNCHANGED <<rows, outbox, publisher>>
    BY <1>4, <1>11 DEF Requeue
  <2>2. CASE OpOf(w).status = "running" /\ ops' = RequeuedOps(w) /\ Leave(w, "retry")
    <3>1. SetOp(w, "pending")
      BY <2>2 DEF RequeuedOps, SetOp
    <3> QED BY <1>2, <1>5, <2>1, <2>2, <3>1, GivesUp DEF OpOf, Active
  <2>3. CASE GotoFailing(w, "failRow", "retry") /\ UNCHANGED <<ops, queue>>
    <3>1. Advances(w)
      BY <1>0, <2>3, GotoAdvances DEF WorkerPcs
    <3> QED BY <2>1, <2>3, <3>1, AdvancesCarries DEF Exists
  <2> QED BY <1>11, <2>2, <2>3 DEF Requeue
<1>12. CASE FailOp(w)
  <2>1. /\ workers[w].pc # "idle" /\ UNCHANGED <<rows, outbox, publisher>>
        /\ SetOp(w, "failed") /\ Leave(w, workers[w].verdict)
    BY <1>1, <1>12 DEF FailOp
  <2> QED BY <1>2, <1>5, <2>1, GivesUp DEF OpOf
<1> QED BY <1>6, <1>7, <1>8, <1>9, <1>10, <1>11, <1>12, <1>13, QuietAdvances DEF Proceed

LEMMA ApiCarries ==
    ASSUME IInv, CarriageInv, Api
    PROVE  CarriageInv'
<1> USE DEF CarriageInv
<1>0. /\ ops \in [Operations -> OpType] /\ outbox \in [Operations -> OutboxStatuses]
      /\ rows \in [Containers -> RowType] /\ OpsShape /\ CallersShape
  BY DEF IInv, Shape, TypeOK
\* An operation is accepted, of a container that is there already or is new.
<1>1. ASSUME NEW o \in Operations, NEW c \in Containers, NEW kind, NEW previous,
             InsertOperation(o, c, kind, previous),
             UNCHANGED <<queue, publisher, workers>>,
             \A p \in Operations, b \in Containers :
                ops[p].container = b /\ Exists(b)' => Exists(b)
      PROVE  CarriageInv'
  <2>1. /\ ops[o].status = "none" /\ ops'[o].status = "pending"
        /\ \A p \in Operations \ {o} : ops'[p] = ops[p] /\ outbox'[p] = outbox[p]
        /\ outbox'[o] = "pending"
    BY <1>0, <1>1 DEF InsertOperation, Fresh
  <2>2. \A p \in Operations \ {o} : Due(p)' => Due(p)
    <3>1. ASSUME NEW p \in Operations \ {o}, Due(p)'
          PROVE  Due(p)
      <4>1. ops'[p] = ops[p] /\ ops[p].status = "pending" /\ ops[p].container \in Containers
        BY <1>0, <2>1, <3>1 DEF Due, OpsShape, OpType
      <4> QED BY <1>1, <3>1, <4>1 DEF Due, Exists
    <3> QED BY <3>1
  <2>3. PublicationShape'
    BY <1>1, <2>1 DEF PublicationShape
  <2>4. CleanupHold'
    <3>1. \A w \in Workers : workers[w].pc # "idle" => workers[w].op \in Operations \ {o}
      BY <2>1 DEF IInv, Shape, WorkersShape
    <3> QED BY <1>1, <2>1, <3>1 DEF CleanupHold, Active
  <2>5. PendingCarried'
    BY <1>1, <2>1, <2>2 DEF PendingCarried, PublicationShape, HasCopy
  <2>6. RunningCarried'
    BY <1>1, <2>1 DEF RunningCarried
  <2> QED BY <2>3, <2>4, <2>5, <2>6
<1>2. ASSUME NEW c \in Containers, NEW o \in Operations, CreateContainer(c, o)
      PROVE  CarriageInv'
  <2>1. \A p \in Operations, b \in Containers : ops[p].container = b /\ Exists(b)' => Exists(b)
    BY <1>0, <1>2 DEF CreateContainer, Exists
  <2> QED BY <1>1, <1>2, <2>1 DEF CreateContainer
<1>3. ASSUME NEW k \in Callers, NEW o \in Operations, QueueOperation(k, o)
      PROVE  CarriageInv'
  <2>1. callers[k].container \in Containers
    BY <1>0, <1>3 DEF QueueOperation, CallersShape
  <2>2. \A p \in Operations, b \in Containers : ops[p].container = b /\ Exists(b)' => Exists(b)
    BY <1>0, <1>3 DEF QueueOperation, Exists
  <2> QED BY <1>1, <1>3, <2>1, <2>2 DEF QueueOperation
\* Nothing is accepted.
<1>4. ASSUME NEW k \in Callers, CancelCreate(k)
      PROVE  CarriageInv'
  <2>0. PICK c \in Containers : c = callers[k].container
    BY <1>0, <1>4 DEF CancelCreate, CallersShape
  <2>1. /\ \A o \in Operations : \/ ops'[o] = ops[o]
                                 \/ /\ ops[o].container = c /\ Active(o)
                                    /\ ops'[o].container = c /\ ops'[o].status = "failed"
        /\ \A o \in Operations : outbox'[o] = IF ops[o].container = c THEN "none" ELSE outbox[o]
        /\ rows' = [rows EXCEPT ![c] = NoRow]
        /\ UNCHANGED <<queue, publisher, workers>>
    <3>1. \A o \in Operations : ops'[o] =
             IF ops[o].container = c /\ ops[o].kind = "create" /\ Active(o)
             THEN [ops[o] EXCEPT !.status = "failed"] ELSE ops[o]
      BY <1>4, <2>0 DEF CancelCreate
    <3>2. \A o \in Operations : LET r == [ops[o] EXCEPT !.status = "failed"] IN
             r.status = "failed" /\ r.container = ops[o].container
      BY <1>0 DEF OpType
    <3> QED BY <1>4, <2>0, <3>1, <3>2 DEF CancelCreate, OutboxWithout
  <2>2. \A o \in Operations : Due(o)' => Due(o) /\ outbox'[o] = outbox[o]
    BY <1>0, <2>1 DEF Due, Exists, NoRow
  <2>3. PublicationShape'
    BY <2>1 DEF PublicationShape
  <2>4. CleanupHold'
    <3>1. \A w \in Workers : workers[w].pc # "idle" => workers[w].op \in Operations
      BY DEF IInv, Shape, WorkersShape
    <3> QED BY <2>1, <3>1 DEF CleanupHold, Active
  <2>5. PendingCarried'
    BY <2>1, <2>2 DEF PendingCarried, PublicationShape, HasCopy
  <2>6. RunningCarried'
    BY <2>1 DEF RunningCarried
  <2> QED BY <2>3, <2>4, <2>5, <2>6
<1>5. ASSUME NEW k \in Callers,
             \/ RejectRequest(k) \/ MarkUnprovisioned(k)
             \/ \E kind \in RequestKinds, c \in Containers : BeginRequest(k, kind, c)
      PROVE  CarriageInv'
  <2>1. UNCHANGED <<ops, outbox, queue, publisher, workers>>
    BY <1>5 DEF RejectRequest, MarkUnprovisioned, BeginRequest
  <2>2. \A c \in Containers : Exists(c)' => Exists(c)
    BY <1>0, <1>5 DEF RejectRequest, MarkUnprovisioned, BeginRequest, Exists
  <2>3. \A o \in Operations : Due(o)' => Due(o)
    <3>1. \A o \in Operations : ops[o].status = "pending" => ops[o].container \in Containers
      BY <1>0 DEF OpsShape, OpType
    <3> QED BY <2>1, <2>2, <3>1 DEF Due, Exists
  <2> QED BY <2>1, <2>3, QuietCarries DEF HasCopy
<1> QED BY <1>2, <1>3, <1>4, <1>5 DEF Api

LEMMA PublisherCarries ==
    ASSUME IInv, CarriageInv, Publisher
    PROVE  CarriageInv'
<1> USE DEF CarriageInv
<1>0. /\ outbox \in [Operations -> OutboxStatuses] /\ queue \in [Operations -> Nat]
      /\ publisher \in [pc : {"idle", "publish", "mark"}, op : Operations \cup {None}]
  BY DEF IInv, Shape, TypeOK
<1>1. UNCHANGED <<rows, ops, workers>>
  BY DEF Publisher, LeaseOutbox, DiscardOutbox, PublishMessage, PublishFails, MarkPublished
<1>2. CleanupHold' /\ RunningCarried' /\ \A o \in Operations : Due(o)' <=> Due(o)
  BY <1>1 DEF CleanupHold, RunningCarried, Active, Due, Exists
<1>3. ASSUME NEW o \in Operations, LeaseOutbox(o)
      PROVE  CarriageInv'
  <2>1. /\ publisher'.pc = "publish" /\ publisher'.op = o /\ queue' = queue
        /\ outbox[o] # "none" /\ outbox'[o] = "publishing"
        /\ \A q \in Operations \ {o} : outbox'[q] = outbox[q]
    BY <1>0, <1>3 DEF LeaseOutbox
  <2> QED BY <1>1, <1>2, <2>1 DEF PublicationShape, PendingCarried, HasCopy
<1>4. CASE publisher.pc # "idle"
  <2>0. PICK o \in Operations : o = publisher.op
    BY <1>4 DEF PublicationShape
  <2>1. ops[o].status # "none"
    BY <1>4, <2>0 DEF PublicationShape
  <2>2. ASSUME NEW status \in OutboxStatuses, SetOutbox(o, status)
        PROVE  /\ \A q \in Operations \ {o} : outbox'[q] = outbox[q]
               /\ outbox'[o] = IF outbox[o] = "none" THEN "none" ELSE status
    BY <1>0, <2>2 DEF SetOutbox
  <2>3. {"discarded", "pending", "published"} \subseteq OutboxStatuses
    BY DEF OutboxStatuses
  <2>4. CASE DiscardOutbox
    <3>1. ~Due(o)
      BY <2>0, <2>4 DEF DiscardOutbox, Due
    <3>2. publisher'.pc = "idle" /\ queue' = queue
          /\ \A q \in Operations \ {o} : outbox'[q] = outbox[q]
      BY <2>0, <2>2, <2>3, <2>4 DEF DiscardOutbox, IdlePublisher
    <3> QED BY <1>1, <1>2, <2>1, <3>1, <3>2 DEF PublicationShape, PendingCarried, HasCopy
  <2>5. CASE PublishMessage
    <3>1. /\ queue'[o] > 0 /\ \A q \in Operations \ {o} : queue'[q] = queue[q]
          /\ publisher'.op = o /\ outbox' = outbox
      BY <1>0, <2>0, <2>5 DEF PublishMessage
    <3> QED BY <1>1, <1>2, <2>1, <3>1 DEF PublicationShape, PendingCarried, HasCopy
  <2>6. CASE PublishFails
    <3>1. /\ publisher'.pc = "idle"
          /\ \A q \in Operations \ {o} : outbox'[q] = outbox[q]
          /\ outbox'[o] = IF outbox[o] = "none" THEN "none" ELSE "pending"
      BY <2>0, <2>2, <2>3, <2>6 DEF PublishFails, IdlePublisher
    <3>2. \/ queue' = queue
          \/ queue' = [queue EXCEPT ![o] = @ + 1]
      BY <2>0, <2>6 DEF PublishFails
    <3>3. \A q \in Operations : queue[q] > 0 => queue'[q] > 0
      BY <1>0, <3>2
    <3>4. \A q \in Operations : HasCopy(q) => HasCopy(q)'
      BY <1>1, <3>3 DEF HasCopy
    <3> QED BY <1>1, <1>2, <2>1, <3>1, <3>4 DEF PublicationShape, PendingCarried
  <2>7. CASE MarkPublished
    <3>1. publisher'.pc = "idle" /\ queue' = queue
          /\ \A q \in Operations \ {o} : outbox'[q] = outbox[q]
      BY <2>0, <2>2, <2>3, <2>7 DEF MarkPublished, IdlePublisher
    <3>2. Due(o) => HasCopy(o)
      BY <2>0, <2>7 DEF MarkPublished, PendingCarried
    <3> QED BY <1>1, <1>2, <2>1, <3>1, <3>2 DEF PublicationShape, PendingCarried, HasCopy
  <2> QED BY <1>3, <1>4, <2>4, <2>5, <2>6, <2>7 DEF Publisher
<1> QED BY <1>3, <1>4
        DEF Publisher, DiscardOutbox, PublishMessage, PublishFails, MarkPublished

LEMMA ClaimCarries ==
    ASSUME IInv, CarriageInv, NEW w \in Workers, NEW o \in Operations, Claim(w, o)
    PROVE  CarriageInv'
<1> USE DEF CarriageInv
<1>0. /\ ops \in [Operations -> OpType] /\ queue \in [Operations -> Nat]
      /\ workers \in [Workers -> WorkerType] /\ MaxAttempts \in Nat
      /\ \A p \in Operations : ops[p].attempts \in Nat
  BY ConstantsAssumption DEF IInv, Shape, TypeOK, OpType, ConstantsAssumption
<1>1. /\ workers[w].pc = "idle" /\ ~workers[w].claimed
      /\ \A v \in Workers \ {w} : workers'[v] = workers[v]
      /\ UNCHANGED <<rows, outbox, publisher>>
      /\ \A p \in Operations \ {o} : queue'[p] = queue[p]
  BY <1>0 DEF Claim, IInv, Shape, WorkersShape
<1>2. \A v \in Workers : workers[v].pc # "idle" => v # w /\ workers[v].op \in Operations
  BY <1>1 DEF IInv, Shape, WorkersShape
<1>3. CASE ops[o].status = "pending"
  <2> DEFINE begun == [IdleWorker EXCEPT
                         !.pc = IF ops[o].kind = "create" THEN "creating" ELSE "load",
                         !.op = o, !.claimed = TRUE]
             given == [IdleWorker EXCEPT !.pc = "failRow", !.op = o]
  <2>1. /\ begun.op = o /\ begun.claimed /\ begun.pc \notin {"idle", "cleanup"}
        /\ given.op = o /\ given.pc \notin {"idle", "cleanup"}
    BY DEF IdleWorker
  <2>2. \/ /\ ops' = [ops EXCEPT ![o].status = "running", ![o].attempts = @ + 1]
           /\ workers' = [workers EXCEPT ![w] = begun]
        \/ ops' = ops /\ workers' = [workers EXCEPT ![w] = given]
    BY <1>3 DEF Claim
  <2> HIDE DEF begun, given
  <2>3. /\ workers'[w].op = o /\ workers'[w].pc \notin {"idle", "cleanup"}
        /\ \A p \in Operations \ {o} : ops'[p] = ops[p]
        /\ ops'[o].container = ops[o].container
        /\ \/ ops'[o].status = "running" /\ workers'[w].claimed
           \/ ops' = ops
    <3>1. CASE ops' = [ops EXCEPT ![o].status = "running", ![o].attempts = @ + 1]
               /\ workers' = [workers EXCEPT ![w] = begun]
      BY <1>0, <2>1, <3>1 DEF OpType
    <3>2. CASE ops' = ops /\ workers' = [workers EXCEPT ![w] = given]
      BY <1>0, <2>1, <3>2
    <3> QED BY <2>2, <3>1, <3>2
  <2>4. \A p \in Operations : /\ HasCopy(p) => HasCopy(p)'
                              /\ Due(p)' => Due(p)
                              /\ Active(p)' => Active(p)
                              /\ ops'[p].status # "none" <=> ops[p].status # "none"
    <3>1. HasCopy(o)'
      BY <2>3 DEF HasCopy
    <3>2. \A p \in Operations : HasCopy(p) => HasCopy(p)'
      BY <1>1, <1>2, <3>1, ConstantsAssumption DEF HasCopy, CleanupHold, ConstantsAssumption
    <3> QED BY <1>1, <1>3, <2>3, <3>2 DEF Due, Active, Exists
  <2>5. PublicationShape'
    BY <1>1, <2>4 DEF PublicationShape
  <2>6. CleanupHold'
    BY <1>1, <1>2, <2>3, <2>4 DEF CleanupHold, Active
  <2>7. PendingCarried'
    BY <1>1, <2>4 DEF PendingCarried, PublicationShape
  <2>8. RunningCarried'
    BY <1>1, <1>2, <2>3 DEF RunningCarried
  <2> QED BY <2>5, <2>6, <2>7, <2>8
<1>4. CASE ops[o].status # "pending"
  <2>1. UNCHANGED <<ops, workers>>
    BY <1>4 DEF Claim
  <2>2. \A p \in Operations : Due(p)' => Due(p) /\ p # o
    BY <1>1, <1>4, <2>1 DEF Due, Exists
  <2>3. \A p \in Operations \ {o} : HasCopy(p) => HasCopy(p)'
    BY <1>1, <2>1 DEF HasCopy
  <2>4. PublicationShape' /\ CleanupHold' /\ RunningCarried'
    BY <1>1, <2>1 DEF PublicationShape, CleanupHold, RunningCarried, Active
  <2>5. PendingCarried'
    BY <1>1, <2>2, <2>3 DEF PendingCarried, PublicationShape
  <2> QED BY <2>4, <2>5
<1> QED BY <1>3, <1>4

LEMMA CrashCarries ==
    ASSUME IInv, CarriageInv, AnswersWhereIgnored, CrashAndRecover
    PROVE  CarriageInv'
<1> USE DEF CarriageInv
<1>0. TypeOK /\ ops \in [Operations -> OpType] /\ outbox \in [Operations -> OutboxStatuses]
  BY DEF IInv, Shape, TypeOK
<1>1. /\ UNCHANGED rows /\ publisher'.pc = "idle"
      /\ queue' = [o \in Operations |-> Copies(o)]
      /\ \A w \in Workers : workers'[w].pc = "idle" /\ workers'[w].op = None
  BY DEF CrashAndRecover, IdlePublisher, IdleWorker
<1>2. /\ ops' = [o \in Operations |-> RecoveredOp(ops[o], {})]
      /\ \A o \in Operations : outbox'[o] \in {outbox[o], "pending"} /\ (outbox[o] = "none" => outbox'[o] = "none")
  <2>1. PICK skipped \in SUBSET {"creates", "others"} :
           /\ IF skipped = {} THEN UNCHANGED faults ELSE Fault("dbRecover")
           /\ ops' = [o \in Operations |-> RecoveredOp(ops[o], skipped)]
           /\ outbox' = [o \in Operations |->
                 IF /\ "creates" \notin skipped /\ outbox[o] # "none"
                    /\ ops'[o].kind = "create" /\ ops'[o].status = "pending"
                 THEN "pending" ELSE outbox[o]]
    BY DEF CrashAndRecover
  <2>2. skipped = {}
    BY <2>1 DEF Fault, AnswersWhereIgnored
  <2> QED BY <2>1, <2>2
<1>3. \A o \in Operations :
         /\ ops'[o].container = ops[o].container
         /\ \/ ops'[o].status = ops[o].status /\ ops[o].status # "running"
            \/ ops'[o].status \in {"pending", "failed"} /\ ops[o].status = "running"
  <2> TAKE o \in Operations
  <2>1. \/ ops'[o] = ops[o] /\ ops[o].status # "running"
        \/ /\ ops[o].status = "running"
           /\ \/ ops'[o] = [ops[o] EXCEPT !.status = "pending"]
              \/ ops'[o] = [ops[o] EXCEPT !.status = "failed"]
    BY <1>2 DEF RecoveredOp
  <2> QED BY <1>0, <2>1 DEF OpType
<1>4. \A o \in Operations : HasCopy(o) => HasCopy(o)'
  BY <1>0, <1>1, CopiesPositive DEF HasCopy
<1>5. \A o \in Operations : Due(o)' => outbox'[o] \in {"pending", "publishing"} \/ HasCopy(o)'
  <2> SUFFICES ASSUME NEW o \in Operations, Due(o)'
               PROVE  outbox'[o] \in {"pending", "publishing"} \/ HasCopy(o)'
    OBVIOUS
  <2>1. CASE ops[o].status = "running"
    BY <1>4, <2>1 DEF RunningCarried, HasCopy
  <2>2. CASE ops[o].status # "running"
    <3>1. Due(o)
      BY <1>1, <1>3, <2>2 DEF Due, Exists
    <3> QED BY <1>2, <1>4, <3>1 DEF PendingCarried
  <2> QED BY <2>1, <2>2
<1>6. PublicationShape'
  BY <1>1, <1>2, <1>3 DEF PublicationShape
<1>7. CleanupHold' /\ RunningCarried' /\ PendingCarried'
  BY <1>1, <1>3, <1>5 DEF CleanupHold, RunningCarried, PendingCarried
<1> QED BY <1>6, <1>7

LEMMA OutsideCarries ==
    ASSUME CarriageInv, Outside \/ UNCHANGED vars
    PROVE  CarriageInv'
<1>1. UNCHANGED <<rows, ops, outbox, queue, publisher, workers>>
  BY DEF Outside, ContainerExits, RemovedOutside, vars
<1> QED
  BY <1>1 DEF CarriageInv, PublicationShape, CleanupHold, PendingCarried, RunningCarried,
             HasCopy, Due, Active, Exists

\* An accepted operation is never lost between the tables, the broker and the
\* goroutines, whatever calls fail and wherever Core crashes, as long as the
\* database answers the calls whose failure the code ignores or only logs.
THEOREM Carriage ==
    ASSUME AnswersWhereIgnored
    PROVE  Spec => []ActiveOperationIsCarried
<1>1. Init => CarriageInv
  BY DEF Init, CarriageInv, PublicationShape, CleanupHold, PendingCarried, RunningCarried,
         Due, NoOp, IdlePublisher, IdleWorker
<1>2. IInv /\ UnclaimHold /\ CarriageInv /\ [Next]_vars => CarriageInv'
  BY ApiCarries, PublisherCarries, ClaimCarries, ProceedCarries, CrashCarries, OutsideCarries
     DEF Next, Consume
<1>3. IInv /\ CarriageInv => ActiveOperationIsCarried
  BY CarriageSuffices
<1> QED BY <1>1, <1>2, <1>3, Invariant, Unclaiming, PTL DEF Spec

-----------------------------------------------------------------------------
(***************************************************************************)
(* No Docker container is forgotten, as long as Core does not die, Docker  *)
(* does what it is told and its answers arrive, and the database takes the *)
(* status that Expose restores.  What the row does not refer to is held by *)
(* the handler that created it, until it recorded or removed it, or is the *)
(* old generation of an Expose that has recorded the new one.              *)
(***************************************************************************)

NothingSlips ==
    MaxCrashes = 0 /\ FaultPoints \cap {"lostReply", "docker", "dbTarget"} = {}

\* Docker knows containers of accepted operations only.
Known ==
    \A d \in DockerIds :
        /\ docker[d].state = "none" <=> docker[d].container = None
        /\ docker[d].container # None =>
              \E o \in Operations : ops[o].container = docker[d].container

Owning == {"startNew", "record", "target", "removeOld", "removeNew", "requeue",
           "failRow", "failOp", "cleanup"}
Working == {"check", "createDocker", "docker", "startNew", "record"}
Replacing == {"target", "removeOld"}

HoldsNew(w) ==
    /\ workers[w].newId # None =>
          /\ workers[w].pc \in Owning
          /\ KindOf(w) \in {"create", "expose"}
          /\ docker[workers[w].newId].container = ContainerOf(w)
    /\ workers[w].pc = "createDocker" => KindOf(w) \in {"create", "expose"}

\* The copy of the row that a handler works on has the Docker id of the row.
CopyCurrent(w) ==
    workers[w].claimed /\ Exists(ContainerOf(w)) =>
        /\ workers[w].pc \in Working =>
              /\ rows[ContainerOf(w)].dockerId = workers[w].seen.dockerId
              /\ KindOf(w) = "create" => workers[w].seen.dockerId = None
        /\ workers[w].pc \in Replacing =>
              rows[ContainerOf(w)].dockerId = workers[w].newId

Holds(w, d) ==
    /\ ContainerOf(w) = docker[d].container
    /\ \/ workers[w].newId = d
       \/ /\ workers[w].claimed /\ workers[w].pc \in Replacing
          /\ workers[w].seen.dockerId = d

Owned ==
    \A d \in DockerIds : Here(d) /\ Exists(docker[d].container) =>
        \/ rows[docker[d].container].dockerId = d
        \/ \E w \in Workers : Holds(w, d)

GenerationInv ==
    /\ Known
    /\ \A w \in Workers : HoldsNew(w) /\ CopyCurrent(w)
    /\ Owned

LEMMA GenerationSuffices ==
    ASSUME GenerationInv
    PROVE  NoGenerationLeaks
<1>1. ASSUME NEW d \in DockerIds, NEW w \in Workers, Holds(w, d), None \notin DockerIds
      PROVE  /\ workers[w].pc # "idle"
             /\ d \in {workers[w].newId, workers[w].seen.dockerId}
  BY <1>1 DEF GenerationInv, HoldsNew, Holds, Owning, Replacing
<1> QED BY <1>1, ConstantsAssumption
        DEF GenerationInv, Owned, NoGenerationLeaks, ConstantsAssumption

\* Operations keep what they are about.
OpsKeep ==
    \A o \in Operations : ops[o].status # "none" =>
        ops'[o].container = ops[o].container /\ ops'[o].kind = ops[o].kind

LEMMA HandlersKeep ==
    ASSUME Shape, OpsKeep, NEW w \in Workers, workers[w].pc # "idle",
           workers'[w].op = workers[w].op
    PROVE  /\ ContainerOf(w)' = ContainerOf(w) /\ KindOf(w)' = KindOf(w)
           /\ ContainerOf(w) \in Containers /\ ContainerOf(w) # None
BY WorkerFacts, ConstantsAssumption
DEF Shape, WorkersShape, OpsKeep, ContainerOf, KindOf, OpOf, ConstantsAssumption

\* Docker forgets no container and moves none to another row.
DockerKeeps(d) ==
    /\ docker'[d].container = docker[d].container
    /\ Here(d)' => Here(d)
    /\ docker'[d].state = "none" <=> docker[d].state = "none"

LEMMA KnownKeeps ==
    ASSUME Shape, Known, OpsKeep,
           \A d \in DockerIds : \/ DockerKeeps(d)
                                \/ /\ docker'[d].state # "none"
                                   /\ docker'[d].container # None
                                   /\ \E o \in Operations :
                                         docker'[d].container = ops[o].container
    PROVE  Known'
<1>1. \A o \in Operations : ops[o].container # None => ops[o].status # "none"
  BY DEF Shape, OpsShape
<1> QED BY <1>1 DEF Known, OpsKeep, DockerKeeps

\* A step that no handler makes.
LEMMA OthersStep ==
    ASSUME IInv, GenerationInv, OpsKeep, UNCHANGED workers,
           \A d \in DockerIds : DockerKeeps(d),
           \A c \in Containers : Exists(c)' =>
              \/ Exists(c) /\ rows'[c].dockerId = rows[c].dockerId
              \/ \A o \in Operations : ops[o].container # c
    PROVE  GenerationInv'
<1> USE DEF IInv
<1>0. /\ workers \in [Workers -> WorkerType] /\ docker \in [DockerIds -> DockerType]
      /\ None \notin Containers \cup DockerIds
  BY ConstantsAssumption DEF Shape, TypeOK, ConstantsAssumption
<1>1. Known'
  BY KnownKeeps DEF GenerationInv
<1>2. ASSUME NEW w \in Workers
      PROVE  HoldsNew(w)' /\ CopyCurrent(w)'
  <2>1. CASE workers[w].pc = "idle"
    <3>1. workers[w].newId = None /\ ~workers[w].claimed
      BY <2>1 DEF GenerationInv, HoldsNew, Owning, Shape, WorkersShape
    <3> QED BY <2>1, <3>1 DEF HoldsNew, CopyCurrent
  <2>2. CASE workers[w].pc # "idle"
    <3>1. /\ ContainerOf(w)' = ContainerOf(w) /\ KindOf(w)' = KindOf(w)
          /\ ContainerOf(w) \in Containers /\ ContainerOf(w) # None
      BY <2>2, HandlersKeep
    <3>2. \E o \in Operations : ops[o].container = ContainerOf(w)
      BY <2>2, WorkerFacts DEF ContainerOf, OpOf
    <3>3. HoldsNew(w)'
      BY <1>0, <3>1 DEF GenerationInv, HoldsNew, DockerKeeps, WorkerType
    <3>4. CopyCurrent(w)'
      BY <3>1, <3>2 DEF GenerationInv, CopyCurrent, Exists
    <3> QED BY <3>3, <3>4
  <2> QED BY <2>1, <2>2
<1>3. ASSUME NEW d \in DockerIds, Here(d)', Exists(docker[d].container)'
      PROVE  \/ rows'[docker'[d].container].dockerId = d
             \/ \E w \in Workers : Holds(w, d)'
  <2>1. PICK c : c = docker[d].container
    OBVIOUS
  <2>2. Here(d) /\ docker'[d].container = c
    BY <1>3, <2>1 DEF DockerKeeps
  <2>3. c \in Containers /\ \E o \in Operations : ops[o].container = c
    BY <1>0, <2>1, <2>2 DEF GenerationInv, Known, DockerType, Here, Present
  <2>4. Exists(c) /\ rows'[c].dockerId = rows[c].dockerId
    BY <1>3, <2>2, <2>3 DEF Exists
  <2>5. CASE rows[c].dockerId = d
    BY <2>2, <2>4, <2>5
  <2>6. CASE \E w \in Workers : Holds(w, d)
    <3>1. PICK w \in Workers : Holds(w, d)
      BY <2>6
    <3>2. workers[w].pc # "idle"
      BY <1>0, <3>1 DEF Holds, GenerationInv, HoldsNew, Owning, Replacing
    <3> QED BY <2>1, <2>2, <3>1, <3>2, HandlersKeep DEF Holds
  <2> QED BY <2>1, <2>2, <2>4, <2>5, <2>6 DEF GenerationInv, Owned
<1> QED BY <1>1, <1>2, <1>3 DEF GenerationInv, Owned

\* A step of one handler.
LEMMA HandlerStep ==
    ASSUME IInv, GenerationInv, OpsKeep, NEW w \in Workers,
           \A v \in Workers \ {w} : workers'[v] = workers[v],
           \A d \in DockerIds :
              \/ DockerKeeps(d)
              \/ /\ docker[d].state = "none" /\ docker'[d].state # "none"
                 /\ workers[w].pc # "idle"
                 /\ docker'[d].container = ContainerOf(w)
                 /\ Holds(w, d)',
           \A c \in Containers : Exists(c)' =>
              /\ Exists(c)
              /\ \/ rows'[c].dockerId = rows[c].dockerId
                 \/ workers[w].claimed /\ c = ContainerOf(w),
           HoldsNew(w)', CopyCurrent(w)',
           \A d \in DockerIds :
              LET c == docker[d].container IN
              /\ Here(d) /\ Here(d)' /\ Exists(c)'
              /\ (rows[c].dockerId = d /\ c = ContainerOf(w)) \/ Holds(w, d)
              => rows'[c].dockerId = d \/ Holds(w, d)'
    PROVE  GenerationInv'
<1> USE DEF IInv
<1>0. /\ workers \in [Workers -> WorkerType] /\ docker \in [DockerIds -> DockerType]
      /\ None \notin Containers \cup DockerIds
  BY ConstantsAssumption DEF Shape, TypeOK, ConstantsAssumption
<1>1. Known'
  <2>1. workers[w].pc # "idle" => /\ ContainerOf(w) # None
                                 /\ \E o \in Operations : ContainerOf(w) = ops[o].container
    BY <1>0, WorkerFacts DEF ContainerOf, OpOf
  <2> QED BY <2>1, KnownKeeps DEF GenerationInv
<1>2. ASSUME NEW v \in Workers \ {w}
      PROVE  HoldsNew(v)' /\ CopyCurrent(v)'
  <2>1. CASE workers[v].pc = "idle"
    <3>1. workers[v].newId = None /\ ~workers[v].claimed
      BY <2>1 DEF GenerationInv, HoldsNew, Owning, Shape, WorkersShape
    <3> QED BY <2>1, <3>1 DEF HoldsNew, CopyCurrent
  <2>2. CASE workers[v].pc # "idle"
    <3>0. workers'[v] = workers[v]
      OBVIOUS
    <3>1. /\ ContainerOf(v)' = ContainerOf(v) /\ KindOf(v)' = KindOf(v)
          /\ ContainerOf(v) \in Containers /\ ContainerOf(v) # None
      BY <2>2, <3>0, HandlersKeep
    <3>2. PICK c \in Containers : c = ContainerOf(v)
      BY <3>1
    <3>3. HoldsNew(v)'
      <4>1. ASSUME workers[v].newId # None
            PROVE  docker'[workers[v].newId].container = c
        <5>1. PICK d \in DockerIds : d = workers[v].newId
          BY <1>0, <4>1 DEF WorkerType
        <5>2. docker[d].container = c /\ docker[d].state # "none"
          BY <3>1, <3>2, <4>1, <5>1 DEF GenerationInv, HoldsNew, Known
        <5> QED BY <5>1, <5>2 DEF DockerKeeps
      <4> QED BY <3>0, <3>1, <3>2, <4>1 DEF GenerationInv, HoldsNew
    <3>4. CopyCurrent(v)'
      <4>1. ASSUME workers[v].claimed, Exists(c)'
            PROVE  Exists(c) /\ rows'[c].dockerId = rows[c].dockerId
        BY <3>2, <4>1 DEF Ownership, ExclusiveExecution
      <4> QED BY <3>0, <3>1, <3>2, <4>1 DEF GenerationInv, CopyCurrent
    <3> QED BY <3>3, <3>4
  <2> QED BY <2>1, <2>2
<1>3. ASSUME NEW d \in DockerIds, Here(d)', Exists(docker[d].container)'
      PROVE  \/ rows'[docker'[d].container].dockerId = d
             \/ \E v \in Workers : Holds(v, d)'
  <2>1. CASE ~DockerKeeps(d)
    BY <2>1
  <2>2. CASE DockerKeeps(d)
    <3>1. PICK c : c = docker[d].container
      OBVIOUS
    <3>2. Here(d) /\ docker'[d].container = c
      BY <1>3, <2>2, <3>1 DEF DockerKeeps
    <3>3. c \in Containers
      BY <1>0, <3>1, <3>2 DEF GenerationInv, Known, DockerType, Here, Present
    <3>4. /\ Exists(c) /\ Exists(c)'
          /\ c # ContainerOf(w) => rows'[c].dockerId = rows[c].dockerId
      BY <1>3, <3>2, <3>3 DEF Exists
    <3>5. CASE rows[c].dockerId = d
      BY <1>3, <3>1, <3>2, <3>4, <3>5
    <3>6. CASE \E v \in Workers : Holds(v, d)
      <4>1. PICK v \in Workers : Holds(v, d)
        BY <3>6
      <4>2. CASE v = w
        BY <1>3, <3>1, <3>2, <3>4, <4>1, <4>2
      <4>3. CASE v # w
        <5>1. workers[v].pc # "idle" /\ workers'[v] = workers[v]
          BY <1>0, <4>1, <4>3 DEF Holds, GenerationInv, HoldsNew, Owning, Replacing
        <5>2. ContainerOf(v)' = ContainerOf(v)
          BY <5>1, HandlersKeep
        <5> QED BY <3>1, <3>2, <4>1, <5>1, <5>2 DEF Holds
      <4> QED BY <4>2, <4>3
    <3> QED BY <3>1, <3>2, <3>4, <3>5, <3>6 DEF GenerationInv, Owned
  <2> QED BY <2>1, <2>2
<1> QED BY <1>1, <1>2, <1>3 DEF GenerationInv, Owned

LEMMA ProceedKeepsOps ==
    ASSUME IInv, NEW w \in Workers, Proceed(w)
    PROVE  OpsKeep
<1>1. ASSUME NEW status, SetOp(w, status), workers[w].pc # "idle"
      PROVE  OpsKeep
  BY <1>1, WorkerFacts DEF SetOp, OpsKeep, IInv, Shape, TypeOK, OpType
<1>2. workers[w].pc # "idle"
  BY DEF Proceed, SetCreating, Unclaim, Load, CheckRunning, DockerTimesOut, DockerRefuses, CallsDocker,
         CreateDocker, CallDocker, StartNew, Record, SetTarget, RemoveOld, RemoveNew, Complete,
         MarkMissing, Requeue, FailRow, FailOp, Cleanup
<1>3. CASE Unclaim(w) \/ Complete(w) \/ Requeue(w) \/ FailOp(w)
  BY <1>1, <1>2, <1>3, DecisionFacts DEF Decision, OpsKeep, IInv
<1>4. CASE UNCHANGED ops
  BY <1>4 DEF OpsKeep
<1> QED BY <1>3, <1>4, QuietProceed DEF Proceed

\* Where a handler may go on to with what it holds.
MayMove(w, pc) ==
    /\ pc # "idle"
    /\ pc \in Working => workers[w].pc \in Working
    /\ workers[w].pc \in Owning => pc \in Owning
    /\ pc = "createDocker" => KindOf(w) \in {"create", "expose"}
    /\ pc \in Replacing => workers[w].pc \in Replacing
    /\ workers[w].pc \in Replacing /\ Exists(ContainerOf(w)) => pc \in Replacing

Moved(w) ==
    /\ \A v \in Workers \ {w} : workers'[v] = workers[v]
    /\ workers'[w].op = workers[w].op /\ workers'[w].claimed = workers[w].claimed
    /\ workers'[w].seen = workers[w].seen /\ workers'[w].newId = workers[w].newId

RowsKeep ==
    \A c \in Containers : Exists(c)' => Exists(c) /\ rows'[c].dockerId = rows[c].dockerId

LEMMA GotoMoves ==
    ASSUME TypeOK, NEW w \in Workers, NEW pc,
           \/ Goto(w, pc)
           \/ \E verdict : GotoFailing(w, pc, verdict)
    PROVE  Moved(w) /\ workers'[w].pc = pc
BY DEF TypeOK, Goto, GotoFailing, WorkerType, Moved

\* A handler goes on and keeps what it holds.
LEMMA MoveStep ==
    ASSUME IInv, GenerationInv, OpsKeep, NEW w \in Workers, workers[w].pc # "idle",
           Moved(w), NEW pc, MayMove(w, pc), workers'[w].pc = pc,
           RowsKeep, \A d \in DockerIds : DockerKeeps(d)
    PROVE  GenerationInv'
<1>0. PICK c \in Containers : c = ContainerOf(w)
  BY WorkerFacts DEF IInv
<1>1. /\ ContainerOf(w)' = c /\ KindOf(w)' = KindOf(w) /\ c # None
  BY <1>0, HandlersKeep DEF IInv, Moved
<1>2. /\ workers[w] \in WorkerType /\ docker \in [DockerIds -> DockerType]
  BY WorkerFacts DEF IInv, Shape, TypeOK
<1>3. HoldsNew(w)'
  <2>1. ASSUME workers[w].newId # None
        PROVE  docker'[workers[w].newId].container = c
    BY <1>0, <1>2, <2>1 DEF GenerationInv, HoldsNew, DockerKeeps, WorkerType
  <2> QED BY <1>1, <2>1 DEF GenerationInv, HoldsNew, Moved, MayMove
<1>4. CopyCurrent(w)'
  <2>1. SUFFICES ASSUME workers[w].claimed, Exists(c)'
                 PROVE  /\ pc \in Working =>
                              /\ rows'[c].dockerId = workers[w].seen.dockerId
                              /\ KindOf(w) = "create" => workers[w].seen.dockerId = None
                        /\ pc \in Replacing => rows'[c].dockerId = workers[w].newId
    BY <1>1 DEF CopyCurrent, Moved
  <2>2. Exists(c) /\ rows'[c].dockerId = rows[c].dockerId
    BY <2>1 DEF RowsKeep
  <2>3. /\ workers[w].pc \in Working =>
              /\ rows[c].dockerId = workers[w].seen.dockerId
              /\ KindOf(w) = "create" => workers[w].seen.dockerId = None
        /\ workers[w].pc \in Replacing => rows[c].dockerId = workers[w].newId
    BY <1>0, <2>1, <2>2 DEF GenerationInv, CopyCurrent
  <2> QED BY <2>2, <2>3 DEF MayMove
<1>5. ASSUME NEW d \in DockerIds, Here(d), Here(d)', Exists(docker[d].container)',
             (rows[docker[d].container].dockerId = d /\ docker[d].container = c) \/ Holds(w, d)
      PROVE  rows'[docker[d].container].dockerId = d \/ Holds(w, d)'
  <2>1. docker'[d].container = docker[d].container /\ docker[d].container = c
    BY <1>0, <1>5 DEF DockerKeeps, Holds
  <2>2. Exists(c) /\ rows'[c].dockerId = rows[c].dockerId
    BY <1>5, <2>1 DEF RowsKeep, Exists
  <2> QED BY <1>0, <1>1, <1>5, <2>1, <2>2 DEF Holds, Moved, MayMove
<1>6. \A d \in DockerIds :
         LET cc == docker[d].container IN
         /\ Here(d) /\ Here(d)' /\ Exists(cc)'
         /\ (rows[cc].dockerId = d /\ cc = ContainerOf(w)) \/ Holds(w, d)
         => rows'[cc].dockerId = d \/ Holds(w, d)'
  BY <1>0, <1>5 DEF DockerKeeps
<1> QED BY <1>0, <1>3, <1>4, <1>6, HandlerStep DEF Moved, RowsKeep

\* A handler ends, or has only its cleanup left.
LEMMA EndStep ==
    ASSUME IInv, GenerationInv, OpsKeep, NEW w \in Workers, workers[w].pc # "idle",
           NEW verdict,
           \/ /\ Settle(w, verdict)
              /\ \A d \in DockerIds : d = workers[w].newId => ~Here(d)'
           \/ Leave(w, verdict),
           workers[w].pc \notin Replacing,
           RowsKeep, \A d \in DockerIds : DockerKeeps(d)
    PROVE  GenerationInv'
<1>0. PICK c \in Containers : c = ContainerOf(w)
  BY WorkerFacts DEF IInv
<1>1. /\ workers[w] \in WorkerType /\ docker \in [DockerIds -> DockerType]
      /\ workers \in [Workers -> WorkerType]
      /\ None \notin DockerIds
  BY WorkerFacts, ConstantsAssumption DEF IInv, Shape, TypeOK, ConstantsAssumption
<1>2. \A v \in Workers \ {w} : workers'[v] = workers[v]
  BY <1>1 DEF Settle, Leave
<1>3. \/ /\ workers'[w] = IdleWorker
         /\ \A d \in DockerIds : d = workers[w].newId => ~Here(d)'
      \/ /\ workers'[w].pc = "cleanup" /\ ~workers'[w].claimed
         /\ workers'[w].op = workers[w].op /\ workers'[w].newId = workers[w].newId
  BY <1>1 DEF Settle, Leave, WorkerType
<1>4. /\ ~workers'[w].claimed /\ workers'[w].pc \in {"idle", "cleanup"}
      /\ workers'[w].newId # None =>
            /\ workers'[w].op = workers[w].op /\ workers'[w].newId = workers[w].newId
            /\ workers'[w].pc = "cleanup"
  BY <1>3 DEF IdleWorker
<1>5. workers'[w].op = workers[w].op => ContainerOf(w)' = c /\ KindOf(w)' = KindOf(w)
  BY <1>0, HandlersKeep DEF IInv
<1>6. HoldsNew(w)'
  <2>1. ASSUME workers[w].newId # None
        PROVE  docker'[workers[w].newId].container = c
    BY <1>0, <1>1, <2>1 DEF GenerationInv, HoldsNew, DockerKeeps, WorkerType
  <2> QED BY <1>4, <1>5, <2>1 DEF GenerationInv, HoldsNew, Owning
<1>7. CopyCurrent(w)'
  BY <1>4 DEF CopyCurrent
<1>8. ASSUME NEW d \in DockerIds, Here(d), Here(d)', Exists(docker[d].container)',
             (rows[docker[d].container].dockerId = d /\ docker[d].container = c) \/ Holds(w, d)
      PROVE  rows'[docker[d].container].dockerId = d \/ Holds(w, d)'
  <2>1. docker'[d].container = docker[d].container /\ docker[d].container = c
    BY <1>0, <1>8 DEF DockerKeeps, Holds
  <2>2. Exists(c) /\ rows'[c].dockerId = rows[c].dockerId
    BY <1>8, <2>1 DEF RowsKeep, Exists
  <2>3. Holds(w, d) => workers[w].newId = d
    BY DEF Holds
  <2>4. CASE Holds(w, d)
    <3>1. workers[w].newId = d
      BY <2>3, <2>4
    <3>2. /\ workers'[w].op = workers[w].op /\ workers'[w].newId = workers[w].newId
      BY <1>3, <1>8, <3>1
    <3> QED BY <1>5, <2>1, <3>1, <3>2 DEF Holds
  <2> QED BY <1>8, <2>1, <2>2, <2>4
<1>9. \A d \in DockerIds :
         LET cc == docker[d].container IN
         /\ Here(d) /\ Here(d)' /\ Exists(cc)'
         /\ (rows[cc].dockerId = d /\ cc = ContainerOf(w)) \/ Holds(w, d)
         => rows'[cc].dockerId = d \/ Holds(w, d)'
  BY <1>0, <1>8 DEF DockerKeeps
<1> QED BY <1>2, <1>6, <1>7, <1>9, HandlerStep DEF RowsKeep

\* Changes of Docker's state but for the creation of a container.
LEMMA SetDockerKeeps ==
    ASSUME TypeOK, NEW d, NEW state \in DockerStates,
           docker' = docker \/ (Here(d) /\ SetDocker(d, state) /\ state # "none")
    PROVE  \A e \in DockerIds : DockerKeeps(e)
BY DEF TypeOK, DockerType, Here, SetDocker, DockerKeeps, Present

LEMMA SetRowKeeps ==
    ASSUME TypeOK, NEW w \in Workers, NEW status,
           rows' = rows \/ (Exists(ContainerOf(w)) /\ SetRowStatus(w, status) /\ status # "absent")
    PROVE  RowsKeep
BY DEF TypeOK, RowType, SetRowStatus, RowsKeep, Exists

\* The removals of a handler succeed.
LEMMA RemovalKeeps ==
    ASSUME TypeOK, NothingSlips, NEW d, d = None \/ d \in DockerIds, RemoveDocker(d)
    PROVE  /\ \A e \in DockerIds : DockerKeeps(e)
           /\ ~Here(d)'
<1>1. None \notin DockerIds
  BY ConstantsAssumption DEF ConstantsAssumption
<1>2. IF Here(d) THEN SetDocker(d, "removed") ELSE UNCHANGED docker
  BY DEF RemoveDocker, Fault, NothingSlips
<1>3. \A e \in DockerIds : DockerKeeps(e)
  BY <1>2, SetDockerKeeps DEF DockerStates
<1>4. d \in DockerIds => docker'[d].state \notin Present
  BY <1>2 DEF TypeOK, DockerType, Here, SetDocker, Present
<1> QED BY <1>3, <1>4 DEF Here

\* The steps in which a handler goes on with what it holds, or ends.
LEMMA ProceedOrEnd ==
    ASSUME IInv, GenerationInv, NothingSlips, NEW w \in Workers,
           \/ SetCreating(w) \/ Unclaim(w) \/ CheckRunning(w) \/ DockerTimesOut(w)
           \/ DockerRefuses(w) \/ CallDocker(w) \/ StartNew(w) \/ SetTarget(w) \/ Complete(w) \/ MarkMissing(w)
           \/ Requeue(w) \/ FailRow(w) \/ FailOp(w) \/ Cleanup(w)
    PROVE  GenerationInv'
<1>0. /\ TypeOK /\ OpsKeep /\ None \notin DockerIds
      /\ GenerationInv => (workers[w].newId # None => workers[w].pc \in Owning)
  BY ProceedKeepsOps, ConstantsAssumption
     DEF Proceed, IInv, Shape, GenerationInv, HoldsNew, ConstantsAssumption
<1>1. ~Fault("lostReply") /\ ~Fault("docker") /\ ~Fault("dbTarget")
  BY DEF NothingSlips, Fault
<1>2. ASSUME NEW pc, workers[w].pc # "idle", MayMove(w, pc),
             Goto(w, pc) \/ \E verdict : GotoFailing(w, pc, verdict),
             RowsKeep, \A d \in DockerIds : DockerKeeps(d)
      PROVE  GenerationInv'
  BY <1>0, <1>2, GotoMoves, MoveStep
<1>3. ASSUME NEW verdict, Settle(w, verdict), workers[w].pc # "idle", workers[w].pc \notin Owning,
             RowsKeep, \A d \in DockerIds : DockerKeeps(d)
      PROVE  GenerationInv'
  BY <1>0, <1>3, EndStep DEF Owning, Replacing
<1>4. UNCHANGED rows => RowsKeep
  BY DEF RowsKeep, Exists
<1>5. UNCHANGED docker => \A d \in DockerIds : DockerKeeps(d)
  BY DEF DockerKeeps, Here
<1>6. CASE SetCreating(w)
  <2>1. workers[w].pc = "creating" /\ UNCHANGED docker
    BY <1>6 DEF SetCreating
  <2>2. CASE Exists(ContainerOf(w)) /\ SetRowStatus(w, "creating") /\ Goto(w, "load")
    <3>1. RowsKeep
      BY <1>0, <2>2, SetRowKeeps
    <3>2. MayMove(w, "load")
      BY <2>1 DEF MayMove, Working, Owning, Replacing
    <3> QED BY <1>2, <1>5, <2>1, <2>2, <3>1, <3>2
  <2>3. CASE UNCHANGED rows /\ \E verdict : GotoFailing(w, "unclaim", verdict)
    <3>1. MayMove(w, "unclaim")
      BY <2>1 DEF MayMove, Working, Owning, Replacing
    <3> QED BY <1>2, <1>4, <1>5, <2>1, <2>3, <3>1
  <2> QED BY <1>6, <2>2, <2>3 DEF SetCreating
<1>7. CASE CheckRunning(w)
  <2>1. workers[w].pc = "check" /\ UNCHANGED <<docker, rows>>
    BY <1>7 DEF CheckRunning
  <2>2. CASE \E verdict : Settle(w, verdict)
    BY <1>3, <1>4, <1>5, <2>1, <2>2 DEF Owning
  <2>3. CASE Goto(w, IF KindOf(w) = "create" THEN "createDocker" ELSE "docker")
    <3>1. MayMove(w, IF KindOf(w) = "create" THEN "createDocker" ELSE "docker")
      BY <2>1 DEF MayMove, Working, Owning, Replacing
    <3> QED BY <1>2, <1>4, <1>5, <2>1, <2>3, <3>1
  <2> QED BY <1>7, <2>2, <2>3 DEF CheckRunning
<1>8. CASE DockerTimesOut(w) \/ DockerRefuses(w)
  <2>1. /\ workers[w].pc \in {"createDocker", "docker", "startNew"} /\ UNCHANGED <<docker, rows>>
        /\ Goto(w, "requeue")
    BY <1>1, <1>8 DEF DockerTimesOut, DockerRefuses, CallsDocker
  <2>2. MayMove(w, "requeue")
    BY <2>1 DEF MayMove, Working, Owning, Replacing
  <2> QED BY <1>2, <1>4, <1>5, <2>1, <2>2
<1>9. CASE CallDocker(w)
  <2>1. workers[w].pc = "docker" /\ UNCHANGED rows
    BY <1>9 DEF CallDocker
  <2>2. \A d \in DockerIds : DockerKeeps(d)
    <3>1. \A kind \in Kinds, state \in Present :
             Outcomes(kind, state) \subseteq DockerStates \ {"none"}
      BY DEF Outcomes, DockerStates, Present
    <3>2. KindOf(w) \in Kinds
      BY <2>1, WorkerFacts DEF IInv
    <3> QED BY <1>0, <1>5, <1>9, <3>1, <3>2, SetDockerKeeps DEF CallDocker, Here
  <2>3. PICK pc \in {"record", "markMissing", "createDocker"} :
           Goto(w, pc) /\ (pc = "createDocker" => KindOf(w) = "expose")
    BY <1>1, <1>9 DEF CallDocker, Replied
  <2>4. MayMove(w, pc)
    BY <2>1, <2>3 DEF MayMove, Working, Owning, Replacing
  <2> QED BY <1>2, <1>4, <2>1, <2>2, <2>3, <2>4
<1>10. CASE StartNew(w)
  <2>1. workers[w].pc = "startNew" /\ UNCHANGED rows
    BY <1>10 DEF StartNew
  <2>2. \A d \in DockerIds : DockerKeeps(d)
    BY <1>0, <1>5, <1>10, SetDockerKeeps DEF StartNew, DockerStates
  <2>3. PICK pc \in {"record", "failRow"} : Goto(w, pc) \/ \E verdict : GotoFailing(w, pc, verdict)
    BY <1>1, <1>10 DEF StartNew, Replied
  <2>4. MayMove(w, pc)
    BY <2>1, <2>3 DEF MayMove, Working, Owning, Replacing
  <2> QED BY <1>2, <1>4, <2>1, <2>2, <2>3, <2>4
<1>11. CASE SetTarget(w)
  <2>1. workers[w].pc = "target" /\ UNCHANGED docker
    BY <1>11 DEF SetTarget
  <2>2. CASE ~Exists(ContainerOf(w)) /\ UNCHANGED rows /\ \E verdict : GotoFailing(w, "failRow", verdict)
    <3>1. MayMove(w, "failRow")
      BY <2>1, <2>2 DEF MayMove, Working, Owning, Replacing
    <3> QED BY <1>2, <1>4, <1>5, <2>1, <2>2, <3>1
  <2>3. CASE Exists(ContainerOf(w)) /\ Goto(w, "removeOld")
             /\ \E status : SetRowStatus(w, status)
    <3>1. MayMove(w, "removeOld")
      BY <2>1 DEF MayMove, Working, Owning, Replacing
    <3>2. RowsKeep
      BY <1>0, <2>3 DEF TypeOK, RowType, SetRowStatus, RowsKeep, Exists
    <3> QED BY <1>2, <1>5, <2>1, <2>3, <3>1, <3>2
  <2> QED BY <1>1, <1>11, <2>2, <2>3 DEF SetTarget
<1>12. CASE Complete(w) \/ Unclaim(w)
  BY <1>3, <1>4, <1>5, <1>12 DEF Complete, Unclaim, Owning
<1>13. CASE MarkMissing(w)
  <2>1. workers[w].pc = "markMissing" /\ UNCHANGED docker /\ GotoFailing(w, "failOp", "dead")
    BY <1>13 DEF MarkMissing
  <2>2. MayMove(w, "failOp")
    BY <2>1 DEF MayMove, Working, Owning, Replacing
  <2>3. RowsKeep
    BY <1>0, <1>4, <1>13, SetRowKeeps DEF MarkMissing
  <2> QED BY <1>2, <1>5, <2>1, <2>2, <2>3
<1>14. CASE FailRow(w)
  <2>1. workers[w].pc = "failRow" /\ UNCHANGED docker /\ Goto(w, "failOp")
    BY <1>14 DEF FailRow
  <2>2. MayMove(w, "failOp")
    BY <2>1 DEF MayMove, Working, Owning, Replacing
  <2>3. rows' = rows \/ (Exists(ContainerOf(w)) /\ \E status : SetRowStatus(w, status))
    BY <1>14 DEF FailRow
  <2>4. RowsKeep
    BY <1>0, <1>4, <2>3 DEF TypeOK, RowType, SetRowStatus, RowsKeep, Exists
  <2> QED BY <1>2, <1>5, <2>1, <2>2, <2>4
<1>15. CASE Requeue(w)
  <2>1. workers[w].pc = "requeue" /\ UNCHANGED <<rows, docker>>
    BY <1>15 DEF Requeue
  <2>2. CASE Leave(w, "retry")
    BY <1>0, <1>4, <1>5, <2>1, <2>2, EndStep DEF Replacing
  <2>3. CASE GotoFailing(w, "failRow", "retry")
    <3>1. MayMove(w, "failRow")
      BY <2>1 DEF MayMove, Working, Owning, Replacing
    <3> QED BY <1>2, <1>4, <1>5, <2>1, <2>3, <3>1
  <2> QED BY <1>15, <2>2, <2>3 DEF Requeue
<1>16. CASE FailOp(w)
  BY <1>0, <1>4, <1>5, <1>16, EndStep DEF FailOp, Replacing
<1>17. CASE Cleanup(w)
  <2>1. /\ workers[w].pc = "cleanup" /\ UNCHANGED rows
        /\ RemoveDocker(workers[w].newId) /\ Settle(w, workers[w].verdict)
    BY <1>17 DEF Cleanup
  <2>2. PICK d : d = workers[w].newId
    OBVIOUS
  <2>3. d = None \/ d \in DockerIds
    BY <2>1, <2>2, WorkerFacts DEF IInv, WorkerType
  <2>4. (\A e \in DockerIds : DockerKeeps(e)) /\ ~Here(d)'
    BY <1>0, <2>1, <2>2, <2>3, RemovalKeeps
  <2> QED BY <1>0, <1>4, <2>1, <2>2, <2>4, EndStep DEF Replacing
<1> QED BY <1>6, <1>7, <1>8, <1>9, <1>10, <1>11, <1>12, <1>13, <1>14, <1>15, <1>16, <1>17

LEMMA LoadGenerations ==
    ASSUME IInv, GenerationInv, NothingSlips, NEW w \in Workers, Load(w)
    PROVE  GenerationInv'
<1>0. /\ TypeOK /\ OpsKeep /\ None \notin DockerIds
      /\ workers[w].pc = "load" /\ workers[w].newId = None
      /\ UNCHANGED <<rows, docker>>
  BY ProceedKeepsOps, ConstantsAssumption
     DEF Proceed, Load, IInv, Shape, GenerationInv, HoldsNew, Owning, ConstantsAssumption
<1>1. RowsKeep /\ \A d \in DockerIds : DockerKeeps(d)
  BY <1>0 DEF RowsKeep, Exists, DockerKeeps, Here
<1>2. CASE \E verdict : GotoFailing(w, "failOp", verdict)
  <2>1. MayMove(w, "failOp")
    BY <1>0 DEF MayMove, Working, Owning, Replacing
  <2> QED BY <1>0, <1>1, <1>2, <2>1, GotoMoves, MoveStep
<1>3. CASE ~\E verdict : GotoFailing(w, "failOp", verdict)
  <2> DEFINE row == rows[ContainerOf(w)]
             pc  == AfterLoad(KindOf(w), row)
  <2>1. workers' = [workers EXCEPT ![w].seen = row, ![w].pc = pc,
                       ![w].verdict = IF pc = "failRow" THEN "dead" ELSE "ack"]
    BY <1>3 DEF Load
  <2>2. /\ pc \in {"check", "complete", "failRow"}
        /\ pc = "check" /\ KindOf(w) = "create" => row.dockerId = None
    BY DEF AfterLoad
  <2>3. /\ \A v \in Workers \ {w} : workers'[v] = workers[v]
        /\ workers'[w].op = workers[w].op /\ workers'[w].newId = None
        /\ workers'[w].pc = pc /\ workers'[w].seen = row
    <3> HIDE DEF row, pc
    <3> QED BY <1>0, <2>1 DEF TypeOK, WorkerType
  <2>4. ContainerOf(w)' = ContainerOf(w) /\ KindOf(w)' = KindOf(w)
    BY <1>0, <2>3, HandlersKeep DEF IInv
  <2>5. HoldsNew(w)' /\ CopyCurrent(w)'
    BY <1>0, <2>2, <2>3, <2>4 DEF HoldsNew, CopyCurrent, Working, Replacing
  <2>6. \A d \in DockerIds : ~Holds(w, d)
    BY <1>0 DEF Holds, Replacing
  <2>7. \A d \in DockerIds :
           LET cc == docker[d].container IN
           /\ Here(d) /\ Here(d)' /\ Exists(cc)'
           /\ (rows[cc].dockerId = d /\ cc = ContainerOf(w)) \/ Holds(w, d)
           => rows'[cc].dockerId = d \/ Holds(w, d)'
    BY <1>0, <2>6
  <2> QED BY <1>0, <1>1, <2>3, <2>5, <2>7, HandlerStep DEF RowsKeep
<1> QED BY <1>2, <1>3

LEMMA CreateGenerations ==
    ASSUME IInv, GenerationInv, NothingSlips, NEW w \in Workers, CreateDocker(w)
    PROVE  GenerationInv'
<1>0. /\ TypeOK /\ OpsKeep /\ None \notin DockerIds
      /\ workers[w].pc = "createDocker" /\ workers[w].newId = None
      /\ KindOf(w) \in {"create", "expose"}
      /\ UNCHANGED rows /\ ~Fault("lostReply")
  BY ProceedKeepsOps, ConstantsAssumption
     DEF Proceed, CreateDocker, IInv, Shape, GenerationInv, HoldsNew, Owning,
         ConstantsAssumption, NothingSlips, Fault
<1>1. RowsKeep
  BY <1>0 DEF RowsKeep, Exists
<1>2. CASE UNCHANGED docker /\ GotoFailing(w, "failRow", "retry")
  <2>1. MayMove(w, "failRow")
    BY <1>0 DEF MayMove, Working, Owning, Replacing
  <2>2. \A d \in DockerIds : DockerKeeps(d)
    BY <1>2 DEF DockerKeeps, Here
  <2> QED BY <1>0, <1>1, <1>2, <2>1, <2>2, GotoMoves, MoveStep
<1>3. CASE \E d \in DockerIds : \E gen :
              /\ docker[d].state = "none"
              /\ docker' = [docker EXCEPT ![d] =
                    [state |-> "created", container |-> ContainerOf(w), gen |-> gen]]
              /\ workers' = [workers EXCEPT
                    ![w].newId = d,
                    ![w].pc = IF KindOf(w) = "create" THEN "record" ELSE "startNew"]
  <2>1. PICK d \in DockerIds : \E gen :
           /\ docker[d].state = "none"
           /\ docker' = [docker EXCEPT ![d] =
                 [state |-> "created", container |-> ContainerOf(w), gen |-> gen]]
           /\ workers' = [workers EXCEPT
                 ![w].newId = d,
                 ![w].pc = IF KindOf(w) = "create" THEN "record" ELSE "startNew"]
    BY <1>3
  <2>2. /\ \A v \in Workers \ {w} : workers'[v] = workers[v]
        /\ workers'[w].op = workers[w].op /\ workers'[w].newId = d
        /\ workers'[w].pc \in {"record", "startNew"}
        /\ workers'[w].seen = workers[w].seen /\ workers'[w].claimed = workers[w].claimed
    BY <1>0, <2>1 DEF TypeOK, WorkerType
  <2>3. ContainerOf(w)' = ContainerOf(w) /\ KindOf(w)' = KindOf(w) /\ ContainerOf(w) \in Containers
    BY <1>0, <2>2, HandlersKeep DEF IInv
  <2>4. /\ docker'[d].state = "created" /\ docker'[d].container = ContainerOf(w)
        /\ \A e \in DockerIds \ {d} : docker'[e] = docker[e]
    BY <1>0, <2>1 DEF TypeOK
  <2>5. HoldsNew(w)'
    BY <1>0, <2>2, <2>3, <2>4 DEF HoldsNew, Owning
  <2>6. CopyCurrent(w)'
    BY <1>0, <2>2, <2>3 DEF GenerationInv, CopyCurrent, Working, Replacing, Exists
  <2>7. \A e \in DockerIds \ {d} : DockerKeeps(e)
    BY <2>4 DEF DockerKeeps, Here
  <2>8. Holds(w, d)'
    BY <2>2, <2>3, <2>4 DEF Holds
  <2>9. \A e \in DockerIds : ~Holds(w, e)
    BY <1>0 DEF Holds, Replacing
  <2>10. ~Here(d)
    BY <2>1 DEF Here, Present
  <2>11. \A e \in DockerIds :
           LET cc == docker[e].container IN
           /\ Here(e) /\ Here(e)' /\ Exists(cc)'
           /\ (rows[cc].dockerId = e /\ cc = ContainerOf(w)) \/ Holds(w, e)
           => rows'[cc].dockerId = e \/ Holds(w, e)'
    BY <1>0, <2>4, <2>9, <2>10
  <2> QED BY <1>0, <1>1, <2>1, <2>2, <2>4, <2>5, <2>6, <2>7, <2>8, <2>11, HandlerStep DEF RowsKeep
<1> QED BY <1>0, <1>2, <1>3 DEF CreateDocker

LEMMA RemoveGenerations ==
    ASSUME IInv, GenerationInv, NothingSlips, NEW w \in Workers, RemoveOld(w) \/ RemoveNew(w)
    PROVE  GenerationInv'
<1>0. /\ TypeOK /\ OpsKeep /\ None \notin DockerIds
      /\ workers[w].pc \in {"removeOld", "removeNew"}
      /\ UNCHANGED rows
      /\ workers[w].claimed /\ WorkersShape
  BY ProceedKeepsOps, ConstantsAssumption
     DEF Proceed, RemoveOld, RemoveNew, IInv, Shape, WorkersShape, ConstantsAssumption
<1>1. RowsKeep
  BY <1>0 DEF RowsKeep, Exists
<1>2. PICK r : /\ r = IF workers[w].pc = "removeOld" THEN workers[w].seen.dockerId ELSE workers[w].newId
               /\ RemoveDocker(r)
  BY DEF RemoveOld, RemoveNew
<1>3. r = None \/ r \in DockerIds
  BY <1>0, <1>2, WorkerFacts DEF IInv, WorkerType, RowType
<1>4. (\A e \in DockerIds : DockerKeeps(e)) /\ ~Here(r)'
  BY <1>0, <1>2, <1>3, RemovalKeeps
<1>5. /\ \A v \in Workers \ {w} : workers'[v] = workers[v]
      /\ workers'[w].op = workers[w].op /\ workers'[w].newId = None
      /\ workers'[w].pc \in {"complete", "failRow"}
  BY <1>0 DEF TypeOK, WorkerType, RemoveOld, RemoveNew
<1>6. HoldsNew(w)' /\ CopyCurrent(w)'
  BY <1>5 DEF HoldsNew, CopyCurrent, Working, Replacing
<1>7. ASSUME NEW d \in DockerIds, Here(d), Here(d)', Exists(docker[d].container)',
             (rows[docker[d].container].dockerId = d /\ docker[d].container = ContainerOf(w))
                \/ Holds(w, d)
      PROVE  rows'[docker'[d].container].dockerId = d
  <2>1. PICK c : c = docker[d].container
    OBVIOUS
  <2>2. docker'[d].container = c /\ Exists(c) /\ rows' = rows
    BY <1>0, <1>4, <1>7, <2>1 DEF DockerKeeps, Exists
  <2>3. r # d
    BY <1>4, <1>7
  <2>4. CASE Holds(w, d)
    <3>1. workers[w].pc = "removeOld" /\ workers[w].newId = d /\ c = ContainerOf(w)
      BY <1>0, <1>2, <2>1, <2>3, <2>4 DEF Holds, Replacing
    <3> QED BY <1>0, <2>2, <3>1 DEF GenerationInv, CopyCurrent, Replacing
  <2> QED BY <1>7, <2>1, <2>2, <2>4
<1>8. \A d \in DockerIds :
         LET cc == docker[d].container IN
         /\ Here(d) /\ Here(d)' /\ Exists(cc)'
         /\ (rows[cc].dockerId = d /\ cc = ContainerOf(w)) \/ Holds(w, d)
         => rows'[cc].dockerId = d \/ Holds(w, d)'
  BY <1>0, <1>4, <1>7 DEF DockerKeeps
<1> QED BY <1>0, <1>1, <1>4, <1>5, <1>6, <1>8, HandlerStep DEF RowsKeep

\* A handler writes the row: the generation that it owns becomes the current
\* one, and the old one its own.
LEMMA RecordGenerations ==
    ASSUME IInv, GenerationInv, NothingSlips, NEW w \in Workers, Record(w)
    PROVE  GenerationInv'
<1>0. /\ TypeOK /\ OpsKeep /\ None \notin DockerIds
      /\ workers[w].pc = "record" /\ workers[w].claimed
  BY ProceedKeepsOps, ConstantsAssumption
     DEF Proceed, Record, IInv, Shape, WorkersShape, ConstantsAssumption
<1>1. CASE /\ RowsKeep /\ StopNew(w)
           /\ \E pc \in {"removeNew", "failRow"} : \E verdict : GotoFailing(w, pc, verdict)
  <2>1. PICK pc \in {"removeNew", "failRow"} : \E verdict : GotoFailing(w, pc, verdict)
    BY <1>1
  <2>2. MayMove(w, pc)
    BY <1>0 DEF MayMove, Working, Owning, Replacing
  <2>3. \A d \in DockerIds : DockerKeeps(d)
    BY <1>0, <1>1, SetDockerKeeps DEF StopNew, DockerStates
  <2> QED BY <1>0, <1>1, <2>1, <2>2, <2>3, GotoMoves, MoveStep
<1>2. CASE /\ Exists(ContainerOf(w)) /\ RecordRow(w) /\ UNCHANGED docker
           /\ workers' = [workers EXCEPT
                 ![w].pc = IF KindOf(w) = "expose" THEN "target" ELSE "complete",
                 ![w].newId = IF KindOf(w) = "create" THEN None ELSE @]
  <2>0. PICK c \in Containers : c = ContainerOf(w)
    BY <1>0, WorkerFacts DEF IInv
  <2>1. /\ \A v \in Workers \ {w} : workers'[v] = workers[v]
        /\ workers'[w].op = workers[w].op /\ workers'[w].seen = workers[w].seen
        /\ workers'[w].claimed
        /\ workers'[w].pc = IF KindOf(w) = "expose" THEN "target" ELSE "complete"
        /\ workers'[w].newId = IF KindOf(w) = "create" THEN None ELSE workers[w].newId
    BY <1>0, <1>2 DEF TypeOK, WorkerType
  <2>2. ContainerOf(w)' = c /\ KindOf(w)' = KindOf(w) /\ KindOf(w) \in Kinds
    BY <1>0, <2>0, <2>1, HandlersKeep, WorkerFacts DEF IInv
  <2>3. /\ workers[w].newId # None =>
              /\ KindOf(w) \in {"create", "expose"}
              /\ docker[workers[w].newId].container = c
        /\ rows[c].dockerId = workers[w].seen.dockerId
        /\ KindOf(w) = "create" => rows[c].dockerId = None
    BY <1>0, <1>2, <2>0 DEF GenerationInv, HoldsNew, CopyCurrent, Working
  <2>4. /\ \A x \in Containers \ {c} : rows'[x] = rows[x]
        /\ KindOf(w) \in {"create", "expose"} => rows'[c].dockerId = workers[w].newId
        /\ KindOf(w) \in {"start", "stop"} => rows'[c].dockerId = rows[c].dockerId
        /\ KindOf(w) = "delete" => rows'[c] = NoRow
    <3>0. rows \in [Containers -> RowType]
      BY <1>0 DEF TypeOK
    <3>1. CASE KindOf(w) = "create"
      <4>1. rows' = [rows EXCEPT ![c].dockerId = workers[w].newId, ![c].status = "created",
                                 ![c].desired = "created"]
        BY <1>2, <2>0, <3>1 DEF RecordRow
      <4> QED BY <2>0, <3>0, <3>1, <4>1 DEF RowType
    <3>2. CASE KindOf(w) \in {"start", "stop"}
      <4>1. \E status : rows' = [rows EXCEPT ![c].status = status]
        BY <1>2, <2>0, <3>2 DEF RecordRow, SetRowStatus
      <4> QED BY <2>0, <3>0, <3>2, <4>1 DEF RowType
    <3>3. CASE KindOf(w) = "delete"
      <4>1. rows' = [rows EXCEPT ![c] = NoRow]
        BY <1>2, <2>0, <3>3 DEF RecordRow
      <4> QED BY <2>0, <3>0, <3>3, <4>1
    <3>4. CASE KindOf(w) = "expose"
      <4>1. rows' = [rows EXCEPT ![c].dockerId = workers[w].newId,
                                 ![c].gen = workers[w].seen.gen + 1]
        BY <1>2, <2>0, <3>4 DEF RecordRow
      <4> QED BY <2>0, <3>0, <3>4, <4>1 DEF RowType
    <3> QED BY <2>2, <3>1, <3>2, <3>3, <3>4 DEF Kinds
  <2>5. \A d \in DockerIds : DockerKeeps(d)
    BY <1>2 DEF DockerKeeps, Here
  <2>6. HoldsNew(w)'
    BY <1>2, <2>1, <2>2, <2>3 DEF HoldsNew, Owning, Kinds
  <2>7. CopyCurrent(w)'
    BY <2>1, <2>2, <2>4 DEF CopyCurrent, Working, Replacing
  <2>8. ASSUME NEW d \in DockerIds, Here(d), Exists(docker[d].container)',
               (rows[docker[d].container].dockerId = d /\ docker[d].container = c) \/ Holds(w, d)
        PROVE  rows'[docker'[d].container].dockerId = d \/ Holds(w, d)'
    <3>1. docker' = docker /\ docker[d].container = c
      BY <1>2, <2>0, <2>8 DEF Holds
    <3>2. KindOf(w) # "delete"
      BY <2>4, <2>8, <3>1 DEF Exists, NoRow
    <3>3. CASE workers[w].newId = d
      BY <1>0, <2>3, <2>4, <3>1, <3>3
    <3>4. CASE rows[c].dockerId = d
      <4>1. CASE KindOf(w) \in {"start", "stop"}
        BY <2>4, <3>1, <3>4, <4>1
      <4>2. CASE KindOf(w) = "expose"
        BY <2>1, <2>2, <2>3, <3>1, <3>4, <4>2 DEF Holds, Replacing
      <4> QED BY <1>0, <2>2, <2>3, <3>2, <3>4, <4>1, <4>2 DEF Kinds
    <3> QED BY <1>0, <2>8, <3>1, <3>3, <3>4 DEF Holds, Replacing
  <2>9. \A d \in DockerIds :
           LET cc == docker[d].container IN
           /\ Here(d) /\ Here(d)' /\ Exists(cc)'
           /\ (rows[cc].dockerId = d /\ cc = ContainerOf(w)) \/ Holds(w, d)
           => rows'[cc].dockerId = d \/ Holds(w, d)'
    BY <1>2, <2>0, <2>8
  <2>10. \A x \in Containers : Exists(x)' =>
            /\ Exists(x)
            /\ \/ rows'[x].dockerId = rows[x].dockerId
               \/ workers[w].claimed /\ x = ContainerOf(w)
    BY <1>0, <1>2, <2>0, <2>4 DEF Exists
  <2> QED BY <1>0, <2>1, <2>5, <2>6, <2>7, <2>9, <2>10, HandlerStep
<1>3. UNCHANGED rows => RowsKeep
  BY DEF RowsKeep, Exists
<1> QED BY <1>1, <1>2, <1>3 DEF Record

LEMMA ClaimGenerations ==
    ASSUME IInv, GenerationInv, NEW w \in Workers, NEW o \in Operations, Claim(w, o)
    PROVE  GenerationInv'
<1>0. /\ TypeOK /\ UNCHANGED <<rows, docker>>
      /\ workers[w].pc = "idle" /\ workers[w].newId = None
  BY DEF Claim, IInv, Shape, GenerationInv, HoldsNew, Owning
<1>1. OpsKeep
  <2>1. CASE UNCHANGED ops
    BY <2>1 DEF OpsKeep
  <2>2. CASE ops' = [ops EXCEPT ![o].status = "running", ![o].attempts = @ + 1]
    BY <1>0, <2>2 DEF OpsKeep, TypeOK, OpType
  <2> QED BY <2>1, <2>2 DEF Claim
<1>2. RowsKeep /\ \A d \in DockerIds : DockerKeeps(d)
  BY <1>0 DEF RowsKeep, Exists, DockerKeeps, Here
<1>3. CASE UNCHANGED workers
  BY <1>1, <1>2, <1>3, OthersStep DEF RowsKeep
<1>4. CASE ~UNCHANGED workers
  <2>1. \/ workers' = [workers EXCEPT
               ![w] = [IdleWorker EXCEPT
                         !.pc = IF ops[o].kind = "create" THEN "creating" ELSE "load",
                         !.op = o, !.claimed = TRUE]]
        \/ workers' = [workers EXCEPT ![w] = [IdleWorker EXCEPT !.pc = "failRow", !.op = o]]
    BY <1>4 DEF Claim
  <2>2. /\ \A v \in Workers \ {w} : workers'[v] = workers[v]
        /\ workers'[w].pc \in {"creating", "load", "failRow"} /\ workers'[w].newId = None
    <3>0. workers \in [Workers -> WorkerType]
      BY <1>0 DEF TypeOK
    <3>1. PICK r : r.newId = None /\ r.pc \in {"creating", "load", "failRow"}
                   /\ workers' = [workers EXCEPT ![w] = r]
      BY <2>1 DEF IdleWorker
    <3> QED BY <3>0, <3>1
  <2>3. HoldsNew(w)' /\ CopyCurrent(w)'
    BY <2>2 DEF HoldsNew, CopyCurrent, Working, Replacing
  <2>4. None \notin DockerIds
    BY ConstantsAssumption DEF ConstantsAssumption
  <2>5. \A d \in DockerIds : ~Holds(w, d)
    BY <1>0, <2>4 DEF Holds, Replacing
  <2>6. \A d \in DockerIds :
           LET cc == docker[d].container IN
           /\ Here(d) /\ Here(d)' /\ Exists(cc)'
           /\ (rows[cc].dockerId = d /\ cc = ContainerOf(w)) \/ Holds(w, d)
           => rows'[cc].dockerId = d \/ Holds(w, d)'
    BY <1>0, <2>5
  <2> QED BY <1>1, <1>2, <2>2, <2>3, <2>6, HandlerStep DEF RowsKeep
<1> QED BY <1>3, <1>4

LEMMA ApiGenerations ==
    ASSUME IInv, GenerationInv, Api
    PROVE  GenerationInv'
<1>0. /\ TypeOK /\ OpsShape /\ UNCHANGED <<docker, workers>>
  BY DEF Api, CreateContainer, BeginRequest, RejectRequest, MarkUnprovisioned, QueueOperation,
         CancelCreate, IInv, Shape
<1>1. OpsKeep
  <2>1. ASSUME NEW o \in Operations, NEW c, NEW kind, NEW previous, InsertOperation(o, c, kind, previous)
        PROVE  OpsKeep
    BY <1>0, <2>1 DEF InsertOperation, Fresh, OpsKeep, TypeOK
  <2>2. ASSUME NEW k \in Callers, CancelCreate(k)
        PROVE  OpsKeep
    BY <1>0, <2>2 DEF CancelCreate, OpsKeep, TypeOK, OpType
  <2>3. UNCHANGED ops => OpsKeep
    BY DEF OpsKeep
  <2> QED BY <2>1, <2>2, <2>3 DEF Api, CreateContainer, BeginRequest, RejectRequest,
                                  MarkUnprovisioned, QueueOperation
<1>2. \A d \in DockerIds : DockerKeeps(d)
  BY <1>0 DEF DockerKeeps, Here
<1>3. \A x \in Containers : Exists(x)' =>
         \/ Exists(x) /\ rows'[x].dockerId = rows[x].dockerId
         \/ \A o \in Operations : ops[o].container # x
  <2>1. ASSUME NEW c \in Containers, NEW o \in Operations, CreateContainer(c, o)
        PROVE  \A x \in Containers : x # c => rows'[x] = rows[x]
    BY <1>0, <2>1 DEF CreateContainer, TypeOK
  <2>2. ASSUME NEW c, Exists(c),
               \/ \E status : rows' = [rows EXCEPT ![c].status = status]
               \/ \E status, desired :
                     rows' = [rows EXCEPT ![c].status = status, ![c].desired = desired]
        PROVE  RowsKeep
    <3>1. CASE \E status : rows' = [rows EXCEPT ![c].status = status]
      BY <1>0, <2>2, <3>1 DEF TypeOK, RowType, RowsKeep, Exists
    <3>2. CASE \E status, desired : rows' = [rows EXCEPT ![c].status = status, ![c].desired = desired]
      <4>1. PICK status, desired : rows' = [rows EXCEPT ![c].status = status, ![c].desired = desired]
        BY <3>2
      <4>2. \A x \in Containers : rows'[x].dockerId = rows[x].dockerId /\ (x # c => rows'[x] = rows[x])
        BY <1>0, <4>1 DEF TypeOK, RowType
      <4> QED BY <2>2, <4>2 DEF RowsKeep, Exists
    <3> QED BY <2>2, <3>1, <3>2
  <2>3. ASSUME NEW k \in Callers, CancelCreate(k)
        PROVE  RowsKeep
    BY <1>0, <2>3 DEF CancelCreate, RowsKeep, TypeOK, Exists, NoRow
  <2>4. UNCHANGED rows => RowsKeep
    BY DEF RowsKeep, Exists
  <2>5. ASSUME NEW k \in Callers, MarkUnprovisioned(k)
        PROVE  RowsKeep
    BY <2>2, <2>4, <2>5 DEF MarkUnprovisioned
  <2>6. ASSUME NEW k \in Callers, NEW o \in Operations, QueueOperation(k, o)
        PROVE  RowsKeep
    BY <2>2, <2>6 DEF QueueOperation
  <2>7. RowsKeep \/ \E c \in Containers, o \in Operations : CreateContainer(c, o)
    BY <2>3, <2>4, <2>5, <2>6 DEF Api, BeginRequest, RejectRequest
  <2>8. ASSUME NEW c \in Containers, NEW o \in Operations, CreateContainer(c, o)
        PROVE  \A x \in Containers : Exists(x)' =>
                 \/ Exists(x) /\ rows'[x].dockerId = rows[x].dockerId
                 \/ \A p \in Operations : ops[p].container # x
    BY <2>1, <2>8 DEF CreateContainer, Exists
  <2> QED BY <2>7, <2>8 DEF RowsKeep
<1> QED BY <1>0, <1>1, <1>2, <1>3, OthersStep

LEMMA QuietGenerations ==
    ASSUME IInv, GenerationInv, Publisher \/ Outside
    PROVE  GenerationInv'
<1>0. TypeOK /\ UNCHANGED <<rows, ops, workers>>
  BY DEF Publisher, LeaseOutbox, DiscardOutbox, PublishMessage, PublishFails, MarkPublished,
         Outside, ContainerExits, RemovedOutside, IInv, Shape
<1>1. OpsKeep /\ RowsKeep
  BY <1>0 DEF OpsKeep, RowsKeep, Exists
<1>2. \A d \in DockerIds : DockerKeeps(d)
  <2>1. UNCHANGED docker \/ \E e \in DockerIds, state \in {"exited", "failed", "vanished"} :
                               Here(e) /\ SetDocker(e, state)
    BY DEF Publisher, LeaseOutbox, DiscardOutbox, PublishMessage, PublishFails, MarkPublished,
           Outside, ContainerExits, RemovedOutside, Here, Present
  <2>2. {"exited", "failed", "vanished"} \subseteq DockerStates \ {"none"}
    BY DEF DockerStates
  <2> QED BY <1>0, <2>1, <2>2, SetDockerKeeps
<1> QED BY <1>0, <1>1, <1>2, OthersStep DEF RowsKeep

LEMMA GenerationInit == Init => GenerationInv
<1> SUFFICES ASSUME Init PROVE GenerationInv
  OBVIOUS
<1> QED BY DEF Init, NoRow, NoOp, NoDocker, IdleWorker, GenerationInv, Known, Owned, HoldsNew,
           CopyCurrent, Here, Present

LEMMA GenerationStep ==
    ASSUME IInv, GenerationInv, NothingSlips, [Next]_vars
    PROVE  GenerationInv'
<1>1. CASE Next
  <2>1. ~CrashAndRecover
    BY DEF CrashAndRecover, NothingSlips, IInv, Shape, TypeOK
  <2>2. ASSUME NEW w \in Workers, Consume(w)
        PROVE  GenerationInv'
    BY <2>2, ProceedOrEnd, LoadGenerations, CreateGenerations, RemoveGenerations,
       RecordGenerations, ClaimGenerations DEF Consume, Proceed
  <2> QED BY <1>1, <2>1, <2>2, ApiGenerations, QuietGenerations DEF Next
<1>2. CASE UNCHANGED vars
  <2>1. UNCHANGED <<rows, ops, workers, docker>>
    BY <1>2 DEF vars
  <2> QED BY <2>1, OthersStep DEF OpsKeep, DockerKeeps, Exists, Here
<1> QED BY <1>1, <1>2

\* As long as Core does not die and Docker does what it is told, every Docker
\* container of a row is the row's, or some handler still has it in hand.
THEOREM Generations ==
    ASSUME NothingSlips
    PROVE  Spec => []NoGenerationLeaks
<1>1. IInv /\ GenerationInv /\ [Next]_vars => (IInv /\ GenerationInv)'
  BY InvariantStep, GenerationStep
<1>2. GenerationInv => NoGenerationLeaks
  BY GenerationSuffices
<1> QED BY InvariantInit, GenerationInit, <1>1, <1>2, PTL DEF Spec

=============================================================================
