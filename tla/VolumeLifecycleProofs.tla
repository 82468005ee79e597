------------------------ MODULE VolumeLifecycleProofs ------------------------
(***************************************************************************)
(* Proofs about VolumeLifecycle, for every value of its constants: type    *)
(* correctness, the refinement of SerialExecution, that a row outlives the *)
(* Docker volume it names, and that DCM removes a Docker volume for the    *)
(* row that has its name, and for no earlier one.                          *)
(***************************************************************************)
EXTENDS VolumeLifecycle, FiniteSetTheorems, TLAPS

-----------------------------------------------------------------------------
(* The shape of the state: what TypeOK does not say of operations, rows and *)
(* goroutines.                                                              *)

OpsShape ==
    \A o \in Operations : ops[o].status = "none" <=> ops[o].volume = None

RowsShape ==
    \A v \in Volumes : Exists(v) <=> volumes[v].name # None

WorkersShape ==
    \A w \in Workers :
        /\ workers[w].pc # "idle" => /\ workers[w].op \in Operations
                                     /\ ops[workers[w].op].status # "none"
        /\ workers[w].claimed => workers[w].pc # "idle"
        /\ ~workers[w].claimed => workers[w].pc \in {"idle", "failRow", "failOp"}

SyncShape == sync.pc # "idle" => sync.volume \in Volumes

ContainersShape ==
    \A c \in Containers :
        containers[c].pc # "none" => containers[c].volume \in Volumes

Shape ==
    /\ TypeOK /\ OpsShape /\ RowsShape /\ WorkersShape /\ SyncShape
    /\ ContainersShape

-----------------------------------------------------------------------------
(* What the helpers of the actions leave in the variables they write. *)

Pcs == {"idle", "load", "docker", "record", "complete", "requeue", "failRow",
        "failOp"}
OpStatuses == {"none", "pending", "running", "done", "failed"}
OutboxStatuses == {"none", "pending", "publishing", "published", "discarded"}

LEMMA NullTypes ==
    /\ NoVolume \in VolumeType /\ NoVolume.status = "absent" /\ NoVolume.name = None
    /\ NoOp \in OpType /\ NoOp.status = "none" /\ NoOp.volume = None
    /\ IdleWorker \in WorkerType
    /\ IdleWorker.pc = "idle" /\ ~IdleWorker.claimed /\ IdleWorker.op = None
    /\ NoContainer \in ContainerType /\ NoContainer.pc = "none"
    /\ IdleSync \in SyncType /\ IdleSync.pc = "idle"
    /\ IdlePublisher \in [pc : {"idle", "publish", "mark"},
                          op : Operations \cup {None}]
BY DEF NoVolume, VolumeType, VolumeStatuses, NoOp, OpType, Kinds, IdleWorker,
       WorkerType, NoContainer, ContainerType, IdleSync, SyncType, IdlePublisher

\* The fields of a row, an operation and a goroutine.
LEMMA RowFields ==
    ASSUME NEW r \in VolumeType
    PROVE  /\ r.status \in VolumeStatuses /\ r.name \in Names \cup {None}
           /\ \A s \in VolumeStatuses :
                 /\ [r EXCEPT !.status = s] \in VolumeType
                 /\ [r EXCEPT !.status = s].status = s
                 /\ [r EXCEPT !.status = s].name = r.name
BY DEF VolumeType

LEMMA OpFields ==
    ASSUME NEW r \in OpType
    PROVE  /\ r.status \in OpStatuses /\ r.kind \in Kinds
           /\ r.volume \in Volumes \cup {None} /\ r.attempts \in Nat
           /\ \A s \in OpStatuses :
                 /\ [r EXCEPT !.status = s] \in OpType
                 /\ [r EXCEPT !.status = s].status = s
                 /\ [r EXCEPT !.status = s].kind = r.kind
                 /\ [r EXCEPT !.status = s].volume = r.volume
                 /\ [r EXCEPT !.status = s].attempts = r.attempts
BY DEF OpType, OpStatuses

LEMMA ClaimedOp ==
    ASSUME NEW r \in OpType
    PROVE  LET taken == [r EXCEPT !.status = "running", !.attempts = @ + 1]
           IN  taken \in OpType /\ taken.status = "running" /\ taken.kind = r.kind
               /\ taken.volume = r.volume /\ taken.attempts = r.attempts + 1
<1> DEFINE begun == [r EXCEPT !.status = "running"]
<1>1. /\ begun \in OpType /\ begun.status = "running" /\ begun.kind = r.kind
      /\ begun.volume = r.volume /\ begun.attempts = r.attempts
      /\ r.attempts \in Nat
  <2>1. "running" \in OpStatuses BY DEF OpStatuses
  <2> QED BY <2>1, OpFields
<1>2. [r EXCEPT !.status = "running", !.attempts = @ + 1]
         = [begun EXCEPT !.attempts = r.attempts + 1]
  BY DEF OpType
<1> HIDE DEF begun
<1>3. \A n \in Nat :
         LET taken == [begun EXCEPT !.attempts = n]
         IN  taken \in OpType /\ taken.status = begun.status
             /\ taken.kind = begun.kind /\ taken.volume = begun.volume
             /\ taken.attempts = n
  BY <1>1 DEF OpType
<1>4. r.attempts + 1 \in Nat BY <1>1
<1> QED BY <1>1, <1>2, <1>3, <1>4

LEMMA NewOp ==
    ASSUME NEW v \in Volumes, NEW kind \in Kinds
    PROVE  LET new == [status |-> "pending", kind |-> kind, volume |-> v,
                       attempts |-> 0]
           IN  new \in OpType /\ new.status = "pending" /\ new.kind = kind
               /\ new.volume = v
BY DEF OpType

LEMMA WorkerFields ==
    ASSUME NEW r \in WorkerType
    PROVE  /\ r.pc \in Pcs /\ r.op \in Operations \cup {None}
           /\ r.claimed \in BOOLEAN /\ r.name \in Names \cup {None}
           /\ r.verdict \in {"ack", "dead", "retry"}
BY DEF WorkerType, Pcs

LEMMA MovedWorker ==
    ASSUME NEW r \in WorkerType, NEW pc \in Pcs
    PROVE  LET moved == [r EXCEPT !.pc = pc]
           IN  moved \in WorkerType /\ moved.pc = pc /\ moved.op = r.op
               /\ moved.claimed = r.claimed /\ moved.name = r.name
BY DEF WorkerType, Pcs

LEMMA FailingWorker ==
    ASSUME NEW r \in WorkerType, NEW verdict \in {"ack", "dead", "retry"}
    PROVE  LET moved == [r EXCEPT !.verdict = verdict]
           IN  moved \in WorkerType /\ moved.pc = r.pc /\ moved.op = r.op
               /\ moved.claimed = r.claimed /\ moved.name = r.name
BY DEF WorkerType

LEMMA NamedWorker ==
    ASSUME NEW r \in WorkerType, NEW n \in Names \cup {None}
    PROVE  LET moved == [r EXCEPT !.pc = "docker", !.name = n]
           IN  moved \in WorkerType /\ moved.pc = "docker" /\ moved.op = r.op
               /\ moved.claimed = r.claimed /\ moved.name = n
BY DEF WorkerType, Pcs

LEMMA ClaimingWorker ==
    ASSUME NEW o \in Operations
    PROVE  /\ LET new == [IdleWorker EXCEPT !.pc = "load", !.op = o, !.claimed = TRUE]
              IN  new \in WorkerType /\ new.pc = "load" /\ new.op = o /\ new.claimed
           /\ LET new == [IdleWorker EXCEPT !.pc = "failRow", !.op = o]
              IN  new \in WorkerType /\ new.pc = "failRow" /\ new.op = o
                  /\ ~new.claimed
BY DEF IdleWorker, WorkerType

LEMMA FaultType ==
    ASSUME TypeOK, NEW point, Fault(point)
    PROVE  faults' \in Nat
BY DEF TypeOK, Fault

\* The three ways a goroutine goes on.
LEMMA GotoEffect ==
    ASSUME TypeOK, NEW w \in Workers, NEW pc \in Pcs, Goto(w, pc)
    PROVE  /\ workers' \in [Workers -> WorkerType]
           /\ \A x \in Workers \ {w} : workers'[x] = workers[x]
           /\ workers'[w].pc = pc /\ workers'[w].op = workers[w].op
           /\ workers'[w].claimed = workers[w].claimed
           /\ workers'[w].name = workers[w].name
<1> DEFINE moved == [workers[w] EXCEPT !.pc = pc]
<1>1. workers \in [Workers -> WorkerType] BY DEF TypeOK
<1>2. moved \in WorkerType /\ moved.pc = pc /\ moved.op = workers[w].op
      /\ moved.claimed = workers[w].claimed /\ moved.name = workers[w].name
  BY <1>1, MovedWorker
<1>3. workers' = [workers EXCEPT ![w] = moved] BY DEF Goto
<1> HIDE DEF moved
<1> QED BY <1>1, <1>2, <1>3

LEMMA GotoFailingEffect ==
    ASSUME TypeOK, NEW w \in Workers, NEW pc \in Pcs,
           NEW verdict \in {"ack", "dead", "retry"}, GotoFailing(w, pc, verdict)
    PROVE  /\ workers' \in [Workers -> WorkerType]
           /\ \A x \in Workers \ {w} : workers'[x] = workers[x]
           /\ workers'[w].pc = pc /\ workers'[w].op = workers[w].op
           /\ workers'[w].claimed = workers[w].claimed
           /\ workers'[w].name = workers[w].name
<1> DEFINE moved   == [workers[w] EXCEPT !.pc = pc]
           failing == [moved EXCEPT !.verdict = verdict]
<1>1. workers \in [Workers -> WorkerType] BY DEF TypeOK
<1>2. moved \in WorkerType /\ moved.pc = pc /\ moved.op = workers[w].op
      /\ moved.claimed = workers[w].claimed /\ moved.name = workers[w].name
  BY <1>1, MovedWorker
<1>3. workers' = [workers EXCEPT ![w] = failing] BY DEF GotoFailing
<1> HIDE DEF moved
<1>4. failing \in WorkerType /\ failing.pc = moved.pc /\ failing.op = moved.op
      /\ failing.claimed = moved.claimed /\ failing.name = moved.name
  BY <1>2, FailingWorker
<1> HIDE DEF failing
<1> QED BY <1>1, <1>2, <1>3, <1>4

LEMMA SettleEffect ==
    ASSUME TypeOK, NEW w \in Workers, NEW verdict, Settle(w, verdict)
    PROVE  /\ workers' \in [Workers -> WorkerType]
           /\ \A x \in Workers \ {w} : workers'[x] = workers[x]
           /\ workers'[w] = IdleWorker
           /\ workers[w].op \in Operations => queue' \in [Operations -> Nat]
<1>1. workers \in [Workers -> WorkerType] /\ queue \in [Operations -> Nat]
  BY DEF TypeOK
<1>2. workers' = [workers EXCEPT ![w] = IdleWorker] BY DEF Settle
<1>3. workers[w].op \in Operations => queue' \in [Operations -> Nat]
  BY <1>1 DEF Settle
<1> QED BY <1>1, <1>2, <1>3, NullTypes

\* The operation of a goroutine gets a new status.
LEMMA SetOpEffect ==
    ASSUME TypeOK, NEW w \in Workers, workers[w].op \in Operations,
           NEW s \in OpStatuses, SetOp(w, s)
    PROVE  /\ ops' \in [Operations -> OpType]
           /\ \A o \in Operations \ {workers[w].op} : ops'[o] = ops[o]
           /\ ops'[workers[w].op].status = s
           /\ ops'[workers[w].op].kind = OpOf(w).kind
           /\ ops'[workers[w].op].volume = OpOf(w).volume
           /\ ops'[workers[w].op].attempts = OpOf(w).attempts
<1> DEFINE op == [ops[workers[w].op] EXCEPT !.status = s]
<1>1. ops \in [Operations -> OpType] BY DEF TypeOK
<1>2. op \in OpType /\ op.status = s /\ op.kind = OpOf(w).kind
      /\ op.volume = OpOf(w).volume /\ op.attempts = OpOf(w).attempts
  BY <1>1, OpFields DEF OpOf
<1>3. ops' = [ops EXCEPT ![workers[w].op] = op] BY DEF SetOp
<1> HIDE DEF op
<1> QED BY <1>1, <1>2, <1>3

\* Rows keep their names, and none appears or goes.
KeepsRows ==
    /\ volumes' \in [Volumes -> VolumeType]
    /\ \A v \in Volumes : /\ volumes'[v].name = volumes[v].name
                          /\ Exists(v)' <=> Exists(v)

LEMMA RowStatusEffect ==
    ASSUME TypeOK, NEW v \in Volumes, NEW s \in VolumeStatuses \ {"absent"},
           \/ UNCHANGED volumes
           \/ Exists(v) /\ volumes' = [volumes EXCEPT ![v].status = s]
    PROVE  KeepsRows
<1>1. volumes \in [Volumes -> VolumeType] BY DEF TypeOK
<1>2. CASE UNCHANGED volumes BY <1>1, <1>2 DEF KeepsRows, Exists
<1>3. CASE Exists(v) /\ volumes' = [volumes EXCEPT ![v].status = s]
  <2> DEFINE row == [volumes[v] EXCEPT !.status = s]
  <2>1. row \in VolumeType /\ row.status = s /\ row.name = volumes[v].name
    BY <1>1, RowFields
  <2>2. volumes' = [volumes EXCEPT ![v] = row] BY <1>3
  <2> HIDE DEF row
  <2>3. volumes' \in [Volumes -> VolumeType] BY <1>1, <2>1, <2>2
  <2>4. volumes'[v] = row /\ \A u \in Volumes \ {v} : volumes'[u] = volumes[u]
    BY <1>1, <2>2
  <2> QED BY <1>3, <2>1, <2>3, <2>4 DEF KeepsRows, Exists
<1> QED BY <1>2, <1>3

LEMMA SetStatusEffect ==
    ASSUME TypeOK, NEW v \in Volumes, NEW s \in VolumeStatuses \ {"absent"},
           SetStatus(v, s)
    PROVE  KeepsRows
<1>1. \/ UNCHANGED volumes
      \/ Exists(v) /\ volumes' = [volumes EXCEPT ![v].status = s]
  BY DEF SetStatus
<1> QED BY <1>1, RowStatusEffect

\* What KeepsRows leaves of the shape of the rows.
LEMMA RowsKept ==
    ASSUME Shape, KeepsRows
    PROVE  volumes' \in [Volumes -> VolumeType] /\ RowsShape'
BY DEF KeepsRows, Shape, RowsShape

LEMMA CopiesType ==
    ASSUME TypeOK, NEW o \in Operations
    PROVE  Copies(o) \in Nat
<1>1. Cardinality({w \in Workers : workers[w].op = o}) \in Nat
  BY VolumeConstants, FS_Subset, FS_CardinalityType DEF VolumeConstants
<1> QED BY <1>1 DEF TypeOK, Copies

-----------------------------------------------------------------------------
(* The actions that touch neither an operation nor a goroutine of the       *)
(* resource queue.                                                          *)

\* Nothing is left of the volume of name n, or a container made it anew.
Remade(n) ==
    \E c \in Containers :
        containers[c].pc \in {"live", "gone"} /\ containers[c].attach = n
Cleared(n) == ~Present(n) \/ Remade(n)

StaysCleared == \A n \in Names : Cleared(n) => Cleared(n)'

Quiet ==
    /\ TypeOK' /\ SyncShape' /\ ContainersShape'
    /\ UNCHANGED <<ops, workers>>
    /\ KeepsRows /\ StaysCleared

LEMMA RowsUnchanged ==
    ASSUME TypeOK, UNCHANGED volumes
    PROVE  KeepsRows
BY DEF TypeOK, KeepsRows, Exists

LEMMA ClearedUnchanged ==
    ASSUME UNCHANGED <<containers, engine>>
    PROVE  StaysCleared
BY DEF StaysCleared, Cleared, Remade, Present

\* A container that is live or gone keeps what it attached.
LEMMA ContainerMoves ==
    ASSUME TypeOK, UNCHANGED engine, NEW c \in Containers,
           \A d \in Containers \ {c} : containers'[d] = containers[d],
           \/ containers[c].pc \notin {"live", "gone"}
           \/ /\ containers'[c].pc \in {"live", "gone"}
              /\ containers'[c].attach = containers[c].attach
    PROVE  StaysCleared
<1>1. ASSUME NEW n \in Names, Remade(n) PROVE Remade(n)'
  <2>1. PICK d \in Containers :
           containers[d].pc \in {"live", "gone"} /\ containers[d].attach = n
    BY <1>1 DEF Remade
  <2>2. containers'[d].pc \in {"live", "gone"} /\ containers'[d].attach = n
    BY <2>1
  <2> QED BY <2>2 DEF Remade
<1> QED BY <1>1 DEF StaysCleared, Cleared, Present

LEMMA ContainerFields ==
    ASSUME NEW r \in ContainerType
    PROVE  /\ r.volume \in Volumes \cup {None} /\ r.attach \in Names \cup {None}
           /\ \A pc \in {"none", "admitted", "queued", "inspecting", "creating",
                         "live", "failed", "gone"} :
                 LET moved == [r EXCEPT !.pc = pc]
                 IN  moved \in ContainerType /\ moved.pc = pc
                     /\ moved.attach = r.attach /\ moved.volume = r.volume
BY DEF ContainerType

LEMMA MoveEffect ==
    ASSUME TypeOK, NEW c \in Containers,
           NEW pc \in {"none", "admitted", "queued", "inspecting", "creating",
                       "live", "failed", "gone"}, MoveContainer(c, pc)
    PROVE  /\ containers' \in [Containers -> ContainerType]
           /\ \A d \in Containers \ {c} : containers'[d] = containers[d]
           /\ containers'[c].pc = pc
           /\ containers'[c].attach = containers[c].attach
           /\ containers[c].pc # "none" /\ ContainersShape => ContainersShape'
<1> DEFINE moved == [containers[c] EXCEPT !.pc = pc]
<1>1. containers \in [Containers -> ContainerType] BY DEF TypeOK
<1>2. moved \in ContainerType /\ moved.pc = pc
      /\ moved.attach = containers[c].attach
      /\ moved.volume = containers[c].volume
  <2>1. containers[c] \in ContainerType BY <1>1
  <2> QED BY <2>1, ContainerFields
<1>3. containers' = [containers EXCEPT ![c] = moved] BY DEF MoveContainer
<1> HIDE DEF moved
<1>4. /\ containers' \in [Containers -> ContainerType]
      /\ \A d \in Containers \ {c} : containers'[d] = containers[d]
      /\ containers'[c] = moved
  BY <1>1, <1>2, <1>3
<1> QED BY <1>2, <1>4 DEF ContainersShape

LEMMA AdmitQuiet ==
    ASSUME Shape, NEW c \in Containers, NEW v \in Volumes, AdmitContainer(c, v)
    PROVE  Quiet
<1> DEFINE new == [NoContainer EXCEPT !.pc = "admitted", !.volume = v]
<1>1. new \in ContainerType /\ new.volume = v BY DEF NoContainer, ContainerType
<1>2. containers' = [containers EXCEPT ![c] = new] /\ containers[c].pc = "none"
  BY DEF AdmitContainer
<1> HIDE DEF new
<1>3. /\ containers' \in [Containers -> ContainerType]
      /\ \A d \in Containers \ {c} : containers'[d] = containers[d]
      /\ containers'[c] = new
  BY <1>1, <1>2 DEF Shape, TypeOK
<1>4. UNCHANGED <<volumes, mounts, ops, outbox, queue, publisher, workers, callers,
                  sync, engine, crashes, faults>>
  BY DEF AdmitContainer, queueVars, budgets
<1>5. StaysCleared BY <1>2, <1>3, <1>4, ContainerMoves DEF Shape
<1>6. TypeOK' BY <1>3, <1>4 DEF Shape, TypeOK
<1>7. ContainersShape' BY <1>1, <1>3 DEF Shape, ContainersShape
<1> QED BY <1>4, <1>5, <1>6, <1>7, RowsUnchanged DEF Shape, SyncShape, Quiet

LEMMA SaveQuiet ==
    ASSUME Shape, NEW c \in Containers, SaveContainer(c)
    PROVE  Quiet
<1>1. PICK pc \in {"queued", "gone"} : MoveContainer(c, pc)
  BY DEF SaveContainer
<1>2. UNCHANGED <<volumes, ops, outbox, queue, publisher, workers, callers,
                  sync, engine, crashes, faults>> /\ containers[c].pc = "admitted"
  BY DEF SaveContainer, queueVars, budgets
<1>3. /\ containers' \in [Containers -> ContainerType]
      /\ \A d \in Containers \ {c} : containers'[d] = containers[d]
      /\ ContainersShape'
  BY <1>1, <1>2, MoveEffect DEF Shape
<1>4. mounts' \in SUBSET (Containers \X Volumes)
  <2>1. containers[c].volume \in Volumes BY <1>2 DEF Shape, ContainersShape
  <2> QED BY <2>1 DEF Shape, TypeOK, SaveContainer
<1>5. StaysCleared BY <1>2, <1>3, ContainerMoves DEF Shape
<1>6. TypeOK' BY <1>2, <1>3, <1>4 DEF Shape, TypeOK
<1> QED BY <1>2, <1>3, <1>5, <1>6, RowsUnchanged DEF Shape, SyncShape, Quiet

LEMMA ReadQuiet ==
    ASSUME Shape, NEW c \in Containers, ReadMounts(c)
    PROVE  Quiet
<1> DEFINE v    == containers[c].volume
           n    == IF <<c, v>> \in mounts THEN volumes[v].name ELSE None
           read == [containers[c] EXCEPT !.pc = "inspecting", !.attach = n]
<1>1. containers \in [Containers -> ContainerType] BY DEF Shape, TypeOK
<1>2. containers[c].pc = "queued" /\ v \in Volumes
  BY DEF ReadMounts, Shape, ContainersShape
<1>3. n \in Names \cup {None}
  <2>1. volumes[v] \in VolumeType BY <1>2 DEF Shape, TypeOK
  <2> QED BY <2>1, RowFields
<1>4. containers' = [containers EXCEPT ![c] = read] BY DEF ReadMounts
<1> HIDE DEF n
<1>5. read \in ContainerType /\ read.volume = v /\ read.pc = "inspecting"
  BY <1>1, <1>3 DEF ContainerType
<1> HIDE DEF read
<1>6. /\ containers' \in [Containers -> ContainerType]
      /\ \A d \in Containers \ {c} : containers'[d] = containers[d]
      /\ containers'[c] = read
  BY <1>1, <1>4, <1>5
<1>7. UNCHANGED <<volumes, mounts, ops, outbox, queue, publisher, workers, callers,
                  sync, engine, crashes, faults>>
  BY DEF ReadMounts, queueVars, budgets
<1>8. StaysCleared BY <1>2, <1>6, <1>7, ContainerMoves DEF Shape
<1>9. TypeOK' BY <1>6, <1>7 DEF Shape, TypeOK
<1>10. ContainersShape' BY <1>2, <1>5, <1>6 DEF Shape, ContainersShape
<1> QED BY <1>7, <1>8, <1>9, <1>10, RowsUnchanged DEF Shape, SyncShape, Quiet

LEMMA InspectQuiet ==
    ASSUME Shape, NEW c \in Containers, InspectMounts(c)
    PROVE  Quiet
<1> DEFINE v == containers[c].volume
<1>1. containers[c].pc = "inspecting" /\ v \in Volumes
  BY DEF InspectMounts, Shape, ContainersShape
<1>2. PICK pc \in {"creating", "failed"} : MoveContainer(c, pc)
  BY DEF InspectMounts
<1>3. UNCHANGED <<mounts, ops, outbox, queue, publisher, workers, callers,
                  sync, engine, crashes, faults>>
  BY DEF InspectMounts, queueVars, budgets
<1>4. /\ containers' \in [Containers -> ContainerType]
      /\ \A d \in Containers \ {c} : containers'[d] = containers[d]
      /\ ContainersShape'
  BY <1>1, <1>2, MoveEffect DEF Shape
<1>5. KeepsRows
  <2>1. \/ UNCHANGED volumes
        \/ Exists(v) /\ volumes' = [volumes EXCEPT ![v].status = "missing"]
    BY DEF InspectMounts
  <2>2. "missing" \in VolumeStatuses \ {"absent"} BY DEF VolumeStatuses
  <2> HIDE DEF v
  <2> QED BY <1>1, <2>1, <2>2, RowStatusEffect DEF Shape
<1>6. StaysCleared BY <1>1, <1>3, <1>4, ContainerMoves DEF Shape
<1>7. TypeOK' BY <1>3, <1>4, <1>5 DEF Shape, TypeOK, KeepsRows
<1> QED BY <1>3, <1>4, <1>5, <1>6, <1>7 DEF Shape, SyncShape, Quiet

\* Docker makes the volume of a container anew only under that container.
LEMMA CreateQuiet ==
    ASSUME Shape, NEW c \in Containers, CreateContainer(c)
    PROVE  Quiet
<1> DEFINE a == containers[c].attach
<1>1. containers[c].pc = "creating" /\ MoveContainer(c, "live")
  BY DEF CreateContainer
<1>2. UNCHANGED <<volumes, mounts, ops, outbox, queue, publisher, workers, callers,
                  sync, crashes, faults>>
  BY DEF CreateContainer, queueVars, budgets
<1>3. /\ containers' \in [Containers -> ContainerType]
      /\ \A d \in Containers \ {c} : containers'[d] = containers[d]
      /\ containers'[c].pc = "live" /\ containers'[c].attach = a
      /\ ContainersShape'
  BY <1>1, MoveEffect DEF Shape
<1>4. \/ engine' = engine
      \/ a # None /\ engine' = [engine EXCEPT ![a] = "present"]
  BY DEF CreateContainer
<1>5. engine' \in [Names -> EngineStates]
  BY <1>4 DEF Shape, TypeOK, EngineStates
<1>6. \A n \in Names : n # a => engine'[n] = engine[n]
  BY <1>4 DEF Shape, TypeOK
<1>7. StaysCleared
  <2>1. ASSUME NEW n \in Names, Cleared(n) PROVE Cleared(n)'
    <3>1. CASE n = a
      <4>1. containers'[c].pc \in {"live", "gone"} /\ containers'[c].attach = n
        BY <1>3, <3>1
      <4> QED BY <4>1 DEF Cleared, Remade
    <3>2. CASE n # a /\ ~Present(n)
      BY <1>6, <3>2 DEF Cleared, Present
    <3>3. CASE n # a /\ Remade(n)
      <4>1. PICK d \in Containers :
               containers[d].pc \in {"live", "gone"} /\ containers[d].attach = n
        BY <3>3 DEF Remade
      <4>2. d # c BY <1>1, <4>1
      <4>3. containers'[d].pc \in {"live", "gone"} /\ containers'[d].attach = n
        BY <1>3, <4>1, <4>2
      <4> QED BY <4>3 DEF Cleared, Remade
    <3> QED BY <2>1, <3>1, <3>2, <3>3 DEF Cleared
  <2> QED BY <2>1 DEF StaysCleared
<1>8. TypeOK' BY <1>2, <1>3, <1>5 DEF Shape, TypeOK
<1> QED BY <1>2, <1>3, <1>7, <1>8, RowsUnchanged DEF Shape, SyncShape, Quiet

LEMMA DeleteContainerQuiet ==
    ASSUME Shape, NEW c \in Containers, DeleteContainer(c)
    PROVE  Quiet
<1>1. containers[c].pc \in {"live", "failed"} /\ MoveContainer(c, "gone")
  BY DEF DeleteContainer
<1>2. UNCHANGED <<volumes, ops, outbox, queue, publisher, workers, callers, sync,
                  engine, crashes, faults>>
  BY DEF DeleteContainer, queueVars, budgets
<1>3. /\ containers' \in [Containers -> ContainerType]
      /\ \A d \in Containers \ {c} : containers'[d] = containers[d]
      /\ containers'[c].pc = "gone"
      /\ containers'[c].attach = containers[c].attach
      /\ ContainersShape'
  BY <1>1, MoveEffect DEF Shape
<1>4. mounts' \in SUBSET (Containers \X Volumes)
  BY DEF DeleteContainer, Shape, TypeOK
<1>5. StaysCleared BY <1>2, <1>3, ContainerMoves DEF Shape
<1>6. TypeOK' BY <1>2, <1>3, <1>4 DEF Shape, TypeOK
<1> QED BY <1>2, <1>3, <1>5, <1>6, RowsUnchanged DEF Shape, SyncShape, Quiet

LEMMA MountQuiet ==
    ASSUME Shape, Mount
    PROVE  Quiet
BY AdmitQuiet, SaveQuiet, ReadQuiet, InspectQuiet, CreateQuiet,
   DeleteContainerQuiet DEF Mount

LEMMA CallerQuiet ==
    ASSUME Shape, NEW k \in Callers,
           (\E v \in Volumes : BeginDelete(k, v)) \/ RejectDelete(k)
    PROVE  Quiet
<1>1. UNCHANGED <<volumes, mounts, containers, ops, outbox, queue, publisher,
                  workers, sync, engine, crashes, faults>>
  BY DEF BeginDelete, RejectDelete, queueVars, budgets
<1>2. callers' \in [Callers -> Volumes \cup {None}]
  BY DEF BeginDelete, RejectDelete, Shape, TypeOK
<1>3. TypeOK' BY <1>1, <1>2 DEF Shape, TypeOK
<1> QED BY <1>1, <1>3, RowsUnchanged, ClearedUnchanged
        DEF Shape, SyncShape, ContainersShape, Quiet

LEMMA PublisherQuiet ==
    ASSUME Shape, Publisher
    PROVE  Quiet
<1>1. UNCHANGED <<volumes, mounts, containers, ops, workers, callers, sync, engine,
                  crashes>>
  BY DEF Publisher, LeaseOutbox, DiscardOutbox, PublishMessage, PublishFails,
         MarkPublished, budgets
<1>2. outbox' \in [Operations -> OutboxStatuses]
  BY DEF Publisher, LeaseOutbox, DiscardOutbox, PublishMessage, PublishFails,
         MarkPublished, SetOutbox, Shape, TypeOK, OutboxStatuses
<1>3. publisher' \in [pc : {"idle", "publish", "mark"}, op : Operations \cup {None}]
  BY NullTypes DEF Publisher, LeaseOutbox, DiscardOutbox, PublishMessage, PublishFails,
         MarkPublished, Shape, TypeOK
<1>4. queue' \in [Operations -> Nat]
  <2>1. \/ queue' = queue
        \/ \E o \in Operations \cup {None} : queue' = [queue EXCEPT ![o] = @ + 1]
    BY DEF Publisher, LeaseOutbox, DiscardOutbox, PublishMessage, PublishFails,
           MarkPublished, Shape, TypeOK
  <2>2. queue \in [Operations -> Nat] BY DEF Shape, TypeOK
  <2> QED BY <2>1, <2>2
<1>5. faults' \in Nat
  BY DEF Publisher, LeaseOutbox, DiscardOutbox, PublishMessage, PublishFails,
         MarkPublished, Fault, Shape, TypeOK, budgets
<1>6. TypeOK' BY <1>1, <1>2, <1>3, <1>4, <1>5 DEF Shape, TypeOK, OutboxStatuses
<1> QED BY <1>1, <1>6, RowsUnchanged, ClearedUnchanged
        DEF Shape, SyncShape, ContainersShape, Quiet

LEMMA SyncQuiet ==
    ASSUME Shape, Sync
    PROVE  Quiet
<1>1. UNCHANGED <<mounts, containers, ops, outbox, queue, publisher, workers, callers,
                  engine, crashes>>
  BY DEF Sync, SyncRead, SyncInspect, SyncWrite, queueVars, budgets
<1>2. faults' \in Nat
  BY DEF Sync, SyncRead, SyncInspect, SyncWrite, Fault, Shape, TypeOK, budgets
<1>3. KeepsRows
  <2>1. CASE sync.pc \in {"missing", "repair"} /\ SyncWrite
    <3> DEFINE s == IF sync.pc = "missing" THEN "missing" ELSE "available"
    <3>1. sync.volume \in Volumes BY <2>1 DEF Shape, SyncShape
    <3>2. UNCHANGED volumes \/ SetStatus(sync.volume, s) BY <2>1 DEF SyncWrite
    <3>3. s \in VolumeStatuses \ {"absent"} BY DEF VolumeStatuses
    <3> HIDE DEF s
    <3> QED BY <3>1, <3>2, <3>3, SetStatusEffect, RowsUnchanged DEF Shape
  <2>2. CASE UNCHANGED volumes BY <2>2, RowsUnchanged DEF Shape
  <2> QED BY <2>1, <2>2 DEF Sync, SyncRead, SyncInspect, SyncWrite
<1>4. sync' \in SyncType /\ SyncShape'
  <2>1. ASSUME NEW v \in Volumes, SyncRead(v)
        PROVE  sync' \in SyncType /\ SyncShape'
    <3>1. volumes[v] \in VolumeType BY DEF Shape, TypeOK
    <3>2. volumes[v].name \in Names \cup {None}
          /\ volumes[v].status \in VolumeStatuses
      BY <3>1, RowFields
    <3> QED BY <2>1, <3>2 DEF SyncRead, SyncType, SyncShape
  <2>2. CASE SyncInspect
    <3> DEFINE pc == IF Present(sync.name) THEN FoundIn(sync.seen) ELSE "missing"
    <3>1. pc \in {"idle", "missing", "repair"} BY DEF FoundIn
    <3>2. sync \in SyncType /\ sync.volume \in Volumes
      BY <2>2 DEF Shape, TypeOK, SyncShape, SyncInspect
    <3>3. sync' = IdleSync \/ sync' = [sync EXCEPT !.pc = pc]
      BY <2>2 DEF SyncInspect
    <3> HIDE DEF pc
    <3>4. CASE sync' = IdleSync BY <3>4, NullTypes DEF SyncShape
    <3>5. CASE sync' = [sync EXCEPT !.pc = pc]
      BY <3>1, <3>2, <3>5 DEF SyncShape, SyncType
    <3> QED BY <3>3, <3>4, <3>5
  <2>3. CASE SyncWrite
    BY <2>3, NullTypes DEF SyncWrite, SyncShape
  <2> QED BY <2>1, <2>2, <2>3 DEF Sync
<1>5. TypeOK' BY <1>1, <1>2, <1>3, <1>4 DEF Shape, TypeOK, KeepsRows
<1> QED BY <1>1, <1>3, <1>4, <1>5, ClearedUnchanged DEF Shape, ContainersShape, Quiet

LEMMA OutsideQuiet ==
    ASSUME Shape, NEW n \in Names, RemovedOutside(n)
    PROVE  Quiet
<1>1. UNCHANGED <<volumes, mounts, containers, ops, outbox, queue, publisher, workers,
                  callers, sync, crashes, faults>>
      /\ engine' = [engine EXCEPT ![n] = "vanished"]
  BY DEF RemovedOutside, queueVars, budgets
<1>2. engine \in [Names -> EngineStates] BY DEF Shape, TypeOK
<1>3. engine' \in [Names -> EngineStates] BY <1>1, <1>2 DEF EngineStates
<1>4. \A m \in Names : Present(m)' => Present(m) BY <1>1, <1>2 DEF Present
<1>5. \A m \in Names : Remade(m)' <=> Remade(m) BY <1>1 DEF Remade
<1>6. StaysCleared BY <1>4, <1>5 DEF StaysCleared, Cleared
<1>7. TypeOK' BY <1>1, <1>3 DEF Shape, TypeOK
<1> QED BY <1>1, <1>6, <1>7, RowsUnchanged DEF Shape, SyncShape, ContainersShape, Quiet

-----------------------------------------------------------------------------
(* The inductive invariant. *)

\* A goroutine executes an operation that is running, alone.
ClaimsHold ==
    \A w \in Workers : workers[w].claimed => OpOf(w).status = "running"

OneClaim ==
    \A w, x \in Workers :
        workers[w].claimed /\ workers[x].claimed /\ workers[w].op = workers[x].op
            => w = x

\* The others give up an operation that nobody can begin any more.
GivingUpHold ==
    \A w \in Workers :
        workers[w].pc # "idle" /\ ~workers[w].claimed =>
            /\ OpOf(w).status # "running"
            /\ OpOf(w).status = "pending" => OpOf(w).attempts >= MaxAttempts

\* Of the operations of a volume, one at most is neither done nor failed.
OneActive ==
    \A o, p \in Operations :
        Active(o) /\ Active(p) /\ ops[o].volume = ops[p].volume => o = p

NamesUnique ==
    \A u, v \in Volumes :
        Exists(u) /\ Exists(v) /\ volumes[u].name = volumes[v].name => u = v

\* From its load to its record a goroutine holds the name of its row, which is
\* there as long.
NamesHeld ==
    \A w \in Workers :
        workers[w].pc \in {"docker", "record"} =>
            /\ Exists(VolumeOf(w))
            /\ volumes[VolumeOf(w)].name = workers[w].name

\* A delete records the deletion of a volume that Docker no longer has, unless a
\* container made it anew.
RemovedFirst ==
    \A w \in Workers :
        workers[w].pc = "record" /\ OpOf(w).kind = "delete" =>
            Cleared(workers[w].name)

Ownership == ClaimsHold /\ OneClaim /\ GivingUpHold /\ OneActive
Holding == NamesUnique /\ NamesHeld /\ RemovedFirst
IInv == Shape /\ Ownership /\ Holding

LEMMA InvariantInit == Init => IInv
<1> SUFFICES ASSUME Init PROVE IInv OBVIOUS
<1>1. \A w \in Workers : workers[w] = IdleWorker BY DEF Init
<1>2. \A o \in Operations : ops[o] = NoOp BY DEF Init
<1>3. \A v \in Volumes : volumes[v] = NoVolume BY DEF Init
<1>4. \A c \in Containers : containers[c] = NoContainer BY DEF Init
<1>5. TypeOK
  <2>1. /\ volumes \in [Volumes -> VolumeType]
        /\ ops \in [Operations -> OpType]
        /\ workers \in [Workers -> WorkerType]
        /\ containers \in [Containers -> ContainerType]
    BY NullTypes DEF Init
  <2>2. /\ mounts \in SUBSET (Containers \X Volumes)
        /\ outbox \in [Operations -> OutboxStatuses]
        /\ queue \in [Operations -> Nat]
        /\ callers \in [Callers -> Volumes \cup {None}]
        /\ engine \in [Names -> EngineStates]
        /\ crashes \in Nat /\ faults \in Nat
    BY DEF Init, OutboxStatuses, EngineStates
  <2> QED BY <2>1, <2>2, NullTypes DEF Init, TypeOK, OutboxStatuses
<1>6. Shape
  BY <1>1, <1>2, <1>3, <1>4, <1>5, NullTypes
     DEF Init, Shape, OpsShape, RowsShape, WorkersShape, SyncShape, ContainersShape,
         Exists
<1>7. Ownership
  BY <1>1, <1>2, NullTypes
     DEF Ownership, ClaimsHold, OneClaim, GivingUpHold, OneActive, Active
<1>8. Holding
  BY <1>1, <1>3, NullTypes
     DEF Holding, NamesUnique, NamesHeld, RemovedFirst, Exists
<1> QED BY <1>6, <1>7, <1>8 DEF IInv

\* The volume of a goroutine at work is a volume, and the name it holds a name.
LEMMA WorkerVolume ==
    ASSUME IInv, NEW w \in Workers, workers[w].pc # "idle"
    PROVE  /\ workers[w].op \in Operations /\ OpOf(w) \in OpType
           /\ VolumeOf(w) \in Volumes
           /\ workers[w].pc \in {"docker", "record"} => workers[w].name \in Names
<1>1. workers[w].op \in Operations /\ OpOf(w).status # "none"
  BY DEF IInv, Shape, WorkersShape, OpOf
<1>2. OpOf(w) \in OpType BY <1>1 DEF IInv, Shape, TypeOK, OpOf
<1>3. VolumeOf(w) \in Volumes
  BY <1>1, <1>2, OpFields DEF IInv, Shape, OpsShape, OpOf, VolumeOf
<1>4. ASSUME workers[w].pc \in {"docker", "record"}
      PROVE  workers[w].name \in Names
  <2>1. volumes[VolumeOf(w)] \in VolumeType BY <1>3 DEF IInv, Shape, TypeOK
  <2>2. volumes[VolumeOf(w)].name # None
    BY <1>3, <1>4 DEF IInv, Shape, RowsShape, Holding, NamesHeld
  <2> QED BY <1>4, <2>1, <2>2, RowFields DEF IInv, Holding, NamesHeld
<1> QED BY <1>1, <1>2, <1>3, <1>4

\* Names stay held where the goroutines and their operations stay as they are.
LEMMA HoldingKept ==
    ASSUME IInv, UNCHANGED workers, KeepsRows, StaysCleared,
           \A w \in Workers : workers[w].pc # "idle" => OpOf(w)' = OpOf(w)
    PROVE  Holding'
<1>1. NamesUnique' BY DEF IInv, Holding, NamesUnique, KeepsRows
<1>2. NamesHeld'
  <2> SUFFICES ASSUME NEW w \in Workers, workers[w].pc \in {"docker", "record"}
               PROVE  /\ Exists(VolumeOf(w))'
                      /\ volumes'[VolumeOf(w)'].name = workers[w].name
    BY DEF NamesHeld
  <2>1. VolumeOf(w)' = VolumeOf(w) /\ VolumeOf(w) \in Volumes
    BY WorkerVolume DEF VolumeOf
  <2>2. Exists(VolumeOf(w)) /\ volumes[VolumeOf(w)].name = workers[w].name
    BY DEF IInv, Holding, NamesHeld
  <2> QED BY <2>1, <2>2 DEF KeepsRows, Exists
<1>3. RemovedFirst'
  <2> SUFFICES ASSUME NEW w \in Workers, workers[w].pc = "record",
                      OpOf(w)'.kind = "delete"
               PROVE  Cleared(workers[w].name)'
    BY DEF RemovedFirst
  <2>1. workers[w].name \in Names BY WorkerVolume
  <2>2. Cleared(workers[w].name) BY DEF IInv, Holding, RemovedFirst
  <2>3. PICK n \in Names : n = workers[w].name BY <2>1
  <2>4. Cleared(n)' BY <2>2, <2>3 DEF StaysCleared
  <2> QED BY <2>3, <2>4 DEF Cleared, Remade, Present
<1> QED BY <1>1, <1>2, <1>3 DEF Holding

LEMMA QuietStep ==
    ASSUME IInv, Quiet
    PROVE  IInv'
<1>1. Shape'
  <2>1. RowsShape' BY RowsKept DEF IInv, Quiet
  <2>2. OpsShape' /\ WorkersShape'
    BY DEF IInv, Shape, OpsShape, WorkersShape, Quiet
  <2> QED BY <2>1, <2>2 DEF Shape, Quiet
<1>2. Ownership'
  BY DEF IInv, Ownership, ClaimsHold, OneClaim, GivingUpHold, OneActive, Active,
         OpOf, Quiet
<1>3. Holding' BY HoldingKept DEF Quiet, OpOf
<1> QED BY <1>1, <1>2, <1>3 DEF IInv

-----------------------------------------------------------------------------
(* Requests that queue an operation *)

LEMMA InsertEffect ==
    ASSUME Shape, NEW o \in Operations, NEW v \in Volumes, NEW kind \in Kinds,
           InsertOperation(o, v, kind)
    PROVE  /\ ops' \in [Operations -> OpType]
           /\ outbox' \in [Operations -> OutboxStatuses]
           /\ \A p \in Operations \ {o} : ops'[p] = ops[p]
           /\ ops[o].status = "none"
           /\ ops'[o].status = "pending" /\ ops'[o].volume = v
           /\ \A p \in Operations : Active(p) => ops[p].volume # v
<1> DEFINE new == [status |-> "pending", kind |-> kind, volume |-> v, attempts |-> 0]
<1>1. new \in OpType /\ new.status = "pending" /\ new.volume = v BY NewOp
<1>2. ops' = [ops EXCEPT ![o] = new] BY DEF InsertOperation
<1>3. ops \in [Operations -> OpType] BY DEF Shape, TypeOK
<1> HIDE DEF new
<1>4. /\ ops' \in [Operations -> OpType] /\ ops'[o] = new
      /\ \A p \in Operations \ {o} : ops'[p] = ops[p]
  BY <1>1, <1>2, <1>3
<1>5. outbox' \in [Operations -> OutboxStatuses]
  BY DEF InsertOperation, Shape, TypeOK, OutboxStatuses
<1>6. ops[o].status = "none" /\ \A p \in Operations : Active(p) => ops[p].volume # v
  BY DEF InsertOperation, HasActive
<1> QED BY <1>1, <1>4, <1>5, <1>6

\* A new operation is nobody's yet.
LEMMA InsertStep ==
    ASSUME IInv, NEW o \in Operations, NEW v \in Volumes, NEW kind \in Kinds,
           InsertOperation(o, v, kind), UNCHANGED workers
    PROVE  /\ OpsShape' /\ WorkersShape' /\ Ownership'
           /\ \A w \in Workers : workers[w].pc # "idle" =>
                 workers[w].op \in Operations /\ OpOf(w)' = OpOf(w)
<1> DEFINE Ins ==
       /\ \A p \in Operations \ {o} : ops'[p] = ops[p]
       /\ ops[o].status = "none"
       /\ ops'[o].status = "pending" /\ ops'[o].volume = v
       /\ \A p \in Operations : Active(p) => ops[p].volume # v
<1>1. Ins BY InsertEffect DEF IInv
<1>2. v # None BY VolumeConstants DEF VolumeConstants
<1>3. \A w \in Workers : workers[w].pc # "idle" =>
         /\ workers[w].op \in Operations /\ workers[w].op # o
         /\ OpOf(w)' = OpOf(w)
  BY <1>1 DEF IInv, Shape, WorkersShape, OpOf
<1>4. OpsShape' BY <1>1, <1>2 DEF IInv, Shape, OpsShape
<1>5. WorkersShape' BY <1>1, <1>3 DEF IInv, Shape, WorkersShape
<1>6. ClaimsHold' /\ GivingUpHold'
  BY <1>3 DEF IInv, Shape, WorkersShape, Ownership, ClaimsHold, GivingUpHold
<1>7. OneClaim' BY DEF IInv, Ownership, OneClaim
<1>8. OneActive'
  <2> SUFFICES ASSUME NEW p \in Operations, NEW q \in Operations,
                      Active(p)', Active(q)', ops'[p].volume = ops'[q].volume
               PROVE  p = q
    BY DEF OneActive
  <2>1. \A r \in Operations \ {o} : Active(r)' => Active(r) /\ ops[r].volume # v
    BY <1>1 DEF Active
  <2>2. CASE p # o /\ q # o
    BY <1>1, <2>1, <2>2 DEF IInv, Ownership, OneActive
  <2>3. CASE p = o \/ q = o BY <1>1, <2>1, <2>3
  <2> QED BY <2>2, <2>3
<1> QED BY <1>3, <1>4, <1>5, <1>6, <1>7, <1>8 DEF Ownership

LEMMA CreateVolumeStep ==
    ASSUME IInv, NEW v \in Volumes, NEW n \in Names, NEW o \in Operations,
           CreateVolume(v, n, o)
    PROVE  IInv'
<1> DEFINE row == [status |-> "creating", name |-> n]
<1>1. /\ ~Exists(v) /\ InsertOperation(o, v, "create")
      /\ \A p \in Operations : ops[p].volume # v
      /\ \A u \in Volumes : volumes[u].name # n
      /\ volumes' = [volumes EXCEPT ![v] = row]
      /\ UNCHANGED <<mounts, containers, queue, publisher, workers, callers, sync,
                     engine, crashes, faults>>
  BY DEF CreateVolume, budgets
<1>2. row \in VolumeType /\ row.status = "creating" /\ row.name = n
  BY DEF VolumeType, VolumeStatuses
<1> HIDE DEF row
<1>3. /\ volumes' \in [Volumes -> VolumeType] /\ volumes'[v] = row
      /\ \A u \in Volumes \ {v} : volumes'[u] = volumes[u]
  BY <1>1, <1>2 DEF IInv, Shape, TypeOK
<1>4. "create" \in Kinds BY DEF Kinds
<1>5. /\ OpsShape' /\ WorkersShape' /\ Ownership'
      /\ \A w \in Workers : workers[w].pc # "idle" =>
            workers[w].op \in Operations /\ OpOf(w)' = OpOf(w)
  BY <1>1, <1>4, InsertStep
<1>6. n # None BY VolumeConstants DEF VolumeConstants
<1>7. RowsShape' BY <1>2, <1>3, <1>6 DEF IInv, Shape, RowsShape, Exists
<1>8. TypeOK'
  <2>1. ops' \in [Operations -> OpType] /\ outbox' \in [Operations -> OutboxStatuses]
    BY <1>1, <1>4, InsertEffect DEF IInv
  <2> QED BY <1>1, <1>3, <2>1 DEF IInv, Shape, TypeOK, OutboxStatuses
<1>9. Shape'
  BY <1>1, <1>5, <1>7, <1>8 DEF IInv, Shape, SyncShape, ContainersShape
<1>10. NamesUnique'
  BY <1>1, <1>2, <1>3 DEF IInv, Holding, NamesUnique, Exists
<1>11. NamesHeld'
  <2> SUFFICES ASSUME NEW w \in Workers, workers[w].pc \in {"docker", "record"}
               PROVE  /\ Exists(VolumeOf(w))'
                      /\ volumes'[VolumeOf(w)'].name = workers[w].name
    BY <1>1 DEF NamesHeld
  <2>1. VolumeOf(w)' = VolumeOf(w) /\ VolumeOf(w) # v
    BY <1>1, <1>5 DEF VolumeOf, OpOf
  <2>2. VolumeOf(w) \in Volumes BY WorkerVolume
  <2>3. Exists(VolumeOf(w)) /\ volumes[VolumeOf(w)].name = workers[w].name
    BY DEF IInv, Holding, NamesHeld
  <2> QED BY <1>3, <2>1, <2>2, <2>3 DEF Exists
<1>12. RemovedFirst'
  BY <1>1, <1>5 DEF IInv, Holding, RemovedFirst, Cleared, Remade, Present
<1> QED BY <1>5, <1>9, <1>10, <1>11, <1>12 DEF IInv, Holding

LEMMA QueueDeleteStep ==
    ASSUME IInv, NEW k \in Callers, NEW o \in Operations, QueueDelete(k, o)
    PROVE  IInv'
<1>1. /\ callers[k] # None /\ Exists(callers[k])
      /\ InsertOperation(o, callers[k], "delete")
      /\ volumes' = [volumes EXCEPT ![callers[k]].status = "deleting"]
      /\ callers' = [callers EXCEPT ![k] = None]
      /\ UNCHANGED <<mounts, containers, queue, publisher, workers, sync, engine,
                     crashes, faults>>
  BY DEF QueueDelete, budgets
<1>2. PICK v \in Volumes : v = callers[k]
  BY <1>1 DEF IInv, Shape, TypeOK
<1>3. "delete" \in Kinds /\ "deleting" \in VolumeStatuses \ {"absent"}
  BY DEF Kinds, VolumeStatuses
<1>4. KeepsRows BY <1>1, <1>2, <1>3, RowStatusEffect DEF IInv, Shape
<1>5. /\ OpsShape' /\ WorkersShape' /\ Ownership'
      /\ \A w \in Workers : workers[w].pc # "idle" =>
            workers[w].op \in Operations /\ OpOf(w)' = OpOf(w)
  BY <1>1, <1>2, <1>3, InsertStep
<1>6. TypeOK'
  <2>1. ops' \in [Operations -> OpType] /\ outbox' \in [Operations -> OutboxStatuses]
    BY <1>1, <1>2, <1>3, InsertEffect DEF IInv
  <2>2. callers' \in [Callers -> Volumes \cup {None}]
    BY <1>1 DEF IInv, Shape, TypeOK
  <2> QED BY <1>1, <1>4, <2>1, <2>2 DEF IInv, Shape, TypeOK, OutboxStatuses, KeepsRows
<1>7. Shape'
  BY <1>1, <1>4, <1>5, <1>6, RowsKept DEF IInv, Shape, SyncShape, ContainersShape
<1>8. Holding'
  <2>1. StaysCleared BY <1>1, ClearedUnchanged
  <2> QED BY <1>1, <1>4, <1>5, <2>1, HoldingKept
<1> QED BY <1>5, <1>7, <1>8 DEF IInv

-----------------------------------------------------------------------------
(* Goroutines of the resource queue *)

\* Two goroutines that execute have different volumes.
LEMMA DistinctVolumes ==
    ASSUME IInv, NEW w \in Workers, NEW x \in Workers,
           workers[w].claimed, workers[x].claimed, VolumeOf(w) = VolumeOf(x)
    PROVE  w = x
<1>1. /\ workers[w].op \in Operations /\ OpOf(w).status = "running"
      /\ workers[x].op \in Operations /\ OpOf(x).status = "running"
  BY DEF IInv, Shape, WorkersShape, Ownership, ClaimsHold
<1>2. workers[w].op = workers[x].op
  BY <1>1 DEF IInv, Ownership, OneActive, Active, OpOf, VolumeOf
<1> QED BY <1>2 DEF IInv, Ownership, OneClaim

LEMMA ClaimStep ==
    ASSUME IInv, NEW w \in Workers, NEW o \in Operations, Claim(w, o)
    PROVE  IInv'
<1> DEFINE mine   == [IdleWorker EXCEPT !.pc = "load", !.op = o, !.claimed = TRUE]
           giving == [IdleWorker EXCEPT !.pc = "failRow", !.op = o]
           taken  == [ops[o] EXCEPT !.status = "running", !.attempts = @ + 1]
<1>1. /\ workers[w].pc = "idle"
      /\ queue' = [queue EXCEPT ![o] = @ - 1] /\ queue[o] > 0
      /\ UNCHANGED <<volumes, mounts, containers, outbox, publisher, callers, sync,
                     engine, crashes, faults>>
  BY DEF Claim, budgets
<1>2. /\ workers \in [Workers -> WorkerType] /\ ops \in [Operations -> OpType]
      /\ queue \in [Operations -> Nat]
  BY DEF IInv, Shape, TypeOK
<1>3. /\ mine \in WorkerType /\ mine.pc = "load" /\ mine.op = o /\ mine.claimed
      /\ giving \in WorkerType /\ giving.pc = "failRow" /\ giving.op = o
      /\ ~giving.claimed
  BY ClaimingWorker
<1>4. /\ taken \in OpType /\ taken.status = "running" /\ taken.kind = ops[o].kind
      /\ taken.volume = ops[o].volume /\ taken.attempts = ops[o].attempts + 1
  BY <1>2, ClaimedOp
<1>5. \/ /\ ops[o].status = "pending" /\ ops[o].attempts < MaxAttempts
         /\ ops' = [ops EXCEPT ![o] = taken]
         /\ workers' = [workers EXCEPT ![w] = mine]
      \/ /\ ops[o].status = "pending" /\ ops[o].attempts >= MaxAttempts
         /\ workers' = [workers EXCEPT ![w] = giving]
         /\ UNCHANGED ops
      \/ UNCHANGED <<ops, workers>>
  BY DEF Claim
<1> HIDE DEF mine, giving, taken
<1>6. /\ workers' \in [Workers -> WorkerType] /\ ops' \in [Operations -> OpType]
      /\ queue' \in [Operations -> Nat]
  BY <1>1, <1>2, <1>3, <1>4, <1>5
<1>7. TypeOK' BY <1>1, <1>6 DEF IInv, Shape, TypeOK
<1>8. /\ KeepsRows /\ StaysCleared /\ SyncShape' /\ ContainersShape'
  BY <1>1, RowsUnchanged, ClearedUnchanged DEF IInv, Shape, SyncShape, ContainersShape
<1>9. RowsShape' BY <1>8, RowsKept DEF IInv
<1>10. CASE /\ ops[o].status = "pending" /\ ops[o].attempts < MaxAttempts
            /\ ops' = [ops EXCEPT ![o] = taken]
            /\ workers' = [workers EXCEPT ![w] = mine]
  <2>1. /\ ops'[o] = taken /\ \A p \in Operations \ {o} : ops'[p] = ops[p]
        /\ workers'[w] = mine
        /\ \A x \in Workers \ {w} : workers'[x] = workers[x]
    BY <1>2, <1>10
  <2>2. \A x \in Workers : workers[x].pc # "idle" /\ workers[x].op = o =>
           FALSE
    <3>1. ops[o] \in OpType BY <1>2
    <3>2. ops[o].attempts \in Nat BY <3>1, OpFields
    <3>3. ~(ops[o].attempts >= MaxAttempts)
      BY <1>10, <3>2, VolumeConstants DEF VolumeConstants
    <3> QED
      BY <1>10, <3>3
         DEF IInv, Shape, WorkersShape, Ownership, ClaimsHold, GivingUpHold, OpOf
  <2>3. \A x \in Workers \ {w} : workers[x].pc # "idle" =>
           workers[x].op # o /\ OpOf(x)' = OpOf(x)
    BY <2>1, <2>2, WorkerVolume DEF OpOf
  <2>4. OpsShape'
    BY <1>4, <1>10, <2>1 DEF IInv, Shape, OpsShape
  <2>5. WorkersShape'
    <3>1. ASSUME NEW x \in Workers
          PROVE  /\ workers'[x].pc # "idle" =>
                       workers'[x].op \in Operations /\ ops'[workers'[x].op].status # "none"
                 /\ workers'[x].claimed => workers'[x].pc # "idle"
                 /\ ~workers'[x].claimed => workers'[x].pc \in {"idle", "failRow", "failOp"}
      <4>1. CASE x = w BY <1>3, <1>4, <2>1, <4>1
      <4>2. CASE x # w BY <2>1, <2>3, <4>2 DEF IInv, Shape, WorkersShape
      <4> QED BY <4>1, <4>2
    <3> QED BY <3>1 DEF WorkersShape
  <2>6. ClaimsHold' /\ GivingUpHold'
    <3>1. ASSUME NEW x \in Workers
          PROVE  /\ workers'[x].claimed => OpOf(x)'.status = "running"
                 /\ workers'[x].pc # "idle" /\ ~workers'[x].claimed =>
                       /\ OpOf(x)'.status # "running"
                       /\ OpOf(x)'.status = "pending" => OpOf(x)'.attempts >= MaxAttempts
      <4>1. CASE x = w BY <1>3, <1>4, <2>1, <4>1 DEF OpOf
      <4>2. CASE x # w
        BY <2>1, <2>3, <4>2
           DEF IInv, Shape, WorkersShape, Ownership, ClaimsHold, GivingUpHold
      <4> QED BY <4>1, <4>2
    <3> QED BY <3>1 DEF ClaimsHold, GivingUpHold
  <2>7. OneClaim'
    BY <1>3, <2>1, <2>3 DEF IInv, Shape, WorkersShape, Ownership, OneClaim
  <2>8. OneActive'
    BY <1>4, <1>10, <2>1 DEF IInv, Ownership, OneActive, Active
  <2>9. NamesUnique' BY <1>8 DEF IInv, Holding, NamesUnique, KeepsRows
  <2>10. NamesHeld'
    BY <1>1, <1>3, <2>1, <2>3 DEF IInv, Holding, NamesHeld, VolumeOf, Exists
  <2>11. RemovedFirst'
    BY <1>1, <1>3, <2>1, <2>3
       DEF IInv, Holding, RemovedFirst, Cleared, Remade, Present
  <2> QED BY <1>7, <1>8, <1>9, <2>4, <2>5, <2>6, <2>7, <2>8, <2>9, <2>10, <2>11
          DEF IInv, Shape, Ownership, Holding
<1>11. CASE /\ ops[o].status = "pending" /\ ops[o].attempts >= MaxAttempts
            /\ workers' = [workers EXCEPT ![w] = giving]
            /\ UNCHANGED ops
  <2>1. /\ workers'[w] = giving
        /\ \A x \in Workers \ {w} : workers'[x] = workers[x]
    BY <1>2, <1>11
  <2>2. OpsShape' BY <1>11 DEF IInv, Shape, OpsShape
  <2>3. WorkersShape'
    BY <1>3, <1>11, <2>1 DEF IInv, Shape, WorkersShape
  <2>4. ClaimsHold' /\ GivingUpHold' /\ OneClaim' /\ OneActive'
    BY <1>3, <1>11, <2>1
       DEF IInv, Ownership, ClaimsHold, GivingUpHold, OneClaim, OneActive, Active, OpOf
  <2>5. NamesUnique' BY <1>8 DEF IInv, Holding, NamesUnique, KeepsRows
  <2>6. NamesHeld'
    BY <1>1, <1>3, <1>11, <2>1 DEF IInv, Holding, NamesHeld, VolumeOf, OpOf, Exists
  <2>7. RemovedFirst'
    BY <1>1, <1>3, <1>11, <2>1
       DEF IInv, Holding, RemovedFirst, Cleared, Remade, Present, OpOf
  <2> QED BY <1>7, <1>8, <1>9, <2>2, <2>3, <2>4, <2>5, <2>6, <2>7
          DEF IInv, Shape, Ownership, Holding
<1>12. CASE UNCHANGED <<ops, workers>>
  BY <1>7, <1>8, <1>12, QuietStep DEF Quiet
<1> QED BY <1>5, <1>10, <1>11, <1>12

\* A goroutine goes on with its operation.
LEMMA MoveStep ==
    ASSUME IInv, NEW w \in Workers, workers[w].pc # "idle",
           \A x \in Workers \ {w} : workers'[x] = workers[x],
           workers'[w].pc # "idle", workers'[w].op = workers[w].op,
           workers'[w].claimed = workers[w].claimed,
           ~workers[w].claimed => workers'[w].pc \in {"failRow", "failOp"},
           UNCHANGED ops
    PROVE  OpsShape' /\ WorkersShape' /\ Ownership'
<1>1. OpsShape' BY DEF IInv, Shape, OpsShape
<1>2. WorkersShape' BY DEF IInv, Shape, WorkersShape
<1>3. ClaimsHold' /\ GivingUpHold' /\ OneClaim' /\ OneActive'
  BY DEF IInv, Ownership, ClaimsHold, GivingUpHold, OneClaim, OneActive, Active, OpOf
<1> QED BY <1>1, <1>2, <1>3 DEF Ownership

\* A goroutine leaves its operation, which ends, waits again or stays behind.
LEMMA LeaveStep ==
    ASSUME IInv, NEW w \in Workers, workers[w].pc # "idle",
           \A x \in Workers \ {w} : workers'[x] = workers[x],
           workers'[w] = IdleWorker,
           \/ UNCHANGED ops
           \/ /\ ops' \in [Operations -> OpType]
              /\ \A p \in Operations \ {workers[w].op} : ops'[p] = ops[p]
              /\ ops'[workers[w].op].volume = OpOf(w).volume
              /\ \/ ops'[workers[w].op].status \in {"done", "failed"}
                 \/ workers[w].claimed /\ ops'[workers[w].op].status = "pending"
    PROVE  OpsShape' /\ WorkersShape' /\ Ownership'
<1>1. CASE UNCHANGED ops
  <2>1. OpsShape' BY <1>1 DEF IInv, Shape, OpsShape
  <2>2. WorkersShape' BY <1>1, NullTypes DEF IInv, Shape, WorkersShape
  <2>3. ClaimsHold' /\ GivingUpHold' /\ OneClaim' /\ OneActive'
    BY <1>1, NullTypes
       DEF IInv, Ownership, ClaimsHold, GivingUpHold, OneClaim, OneActive, Active, OpOf
  <2> QED BY <2>1, <2>2, <2>3 DEF Ownership
<1>2. ASSUME /\ ops' \in [Operations -> OpType]
             /\ \A p \in Operations \ {workers[w].op} : ops'[p] = ops[p]
             /\ ops'[workers[w].op].volume = OpOf(w).volume
             /\ \/ ops'[workers[w].op].status \in {"done", "failed"}
                \/ workers[w].claimed /\ ops'[workers[w].op].status = "pending"
      PROVE  OpsShape' /\ WorkersShape' /\ Ownership'
  <2> DEFINE o == workers[w].op
  <2>1. o \in Operations /\ ops[o].volume # None /\ ops'[o].volume = ops[o].volume
        /\ ops'[o].status # "none" /\ ops[o].status # "none"
    BY <1>2, WorkerVolume, VolumeConstants
       DEF VolumeConstants, VolumeOf, OpOf, IInv, Shape, WorkersShape
  <2>2. OpsShape' BY <1>2, <2>1 DEF IInv, Shape, OpsShape
  <2>3. WorkersShape'
    BY <1>2, <2>1, NullTypes DEF IInv, Shape, WorkersShape
  <2>4. workers[w].claimed => ops[o].status = "running"
    BY DEF IInv, Ownership, ClaimsHold, OpOf
  <2>5. \A x \in Workers \ {w} : workers[x].claimed => workers[x].op # o
    <3> TAKE x \in Workers \ {w}
    <3> HAVE workers[x].claimed
    <3>1. workers[x].op \in Operations /\ OpOf(x).status = "running"
      BY DEF IInv, Shape, WorkersShape, Ownership, ClaimsHold
    <3>2. CASE workers[w].claimed BY <3>2 DEF IInv, Ownership, OneClaim
    <3>3. CASE ~workers[w].claimed
      BY <3>1, <3>3 DEF IInv, Ownership, GivingUpHold, OpOf
    <3> QED BY <3>2, <3>3
  <2>6. ClaimsHold'
    BY <1>2, <2>5, NullTypes DEF IInv, Shape, WorkersShape, Ownership, ClaimsHold, OpOf
  <2>7. GivingUpHold'
    <3>1. ASSUME NEW x \in Workers, x # w, workers[x].pc # "idle", ~workers[x].claimed
          PROVE  /\ OpOf(x)'.status # "running"
                 /\ OpOf(x)'.status = "pending" => OpOf(x)'.attempts >= MaxAttempts
      <4>1. /\ workers[x].op \in Operations /\ OpOf(x).status # "running"
            /\ OpOf(x).status = "pending" => OpOf(x).attempts >= MaxAttempts
        BY <3>1, WorkerVolume DEF IInv, Ownership, GivingUpHold
      <4>2. CASE workers[x].op # o BY <1>2, <3>1, <4>1, <4>2 DEF OpOf
      <4>3. CASE workers[x].op = o
        <5>1. ops'[o].status \in {"done", "failed"}
          BY <1>2, <2>4, <4>1, <4>3 DEF OpOf
        <5> QED BY <3>1, <4>3, <5>1 DEF OpOf
      <4> QED BY <4>2, <4>3
    <3> QED BY <3>1, NullTypes DEF GivingUpHold
  <2>8. OneClaim' BY NullTypes DEF IInv, Ownership, OneClaim
  <2>9. \A p \in Operations :
           ops'[p].volume = ops[p].volume /\ (Active(p)' => Active(p))
    BY <1>2, <2>1, <2>4 DEF Active
  <2>10. OneActive' BY <2>9 DEF IInv, Ownership, OneActive
  <2> QED BY <2>2, <2>3, <2>6, <2>7, <2>8, <2>10 DEF Ownership
<1> QED BY <1>1, <1>2

LEMMA WorkerAtWork ==
    ASSUME IInv, NEW w \in Workers,
           workers[w].pc \in {"load", "docker", "record", "complete", "requeue"}
    PROVE  /\ workers[w].claimed /\ workers[w].op \in Operations
           /\ OpOf(w).status = "running" /\ OpOf(w).kind \in Kinds
           /\ VolumeOf(w) \in Volumes
<1>1. workers[w].claimed BY DEF IInv, Shape, WorkersShape
<1>2. OpOf(w) \in OpType BY WorkerVolume
<1> QED BY <1>1, <1>2, WorkerVolume, OpFields DEF IInv, Ownership, ClaimsHold

LEMMA OtherOp ==
    ASSUME IInv, NEW w \in Workers, NEW x \in Workers, x # w,
           workers[w].pc # "idle", workers[x].claimed
    PROVE  workers[x].op # workers[w].op
BY DEF IInv, Ownership, ClaimsHold, GivingUpHold, OneClaim, OpOf

\* What a goroutine holds, and what it has removed.
Holds(w) ==
    /\ workers[w].pc \in {"docker", "record"} =>
          /\ Exists(VolumeOf(w))
          /\ volumes[VolumeOf(w)].name = workers[w].name
    /\ workers[w].pc = "record" /\ OpOf(w).kind = "delete" =>
          Cleared(workers[w].name)

LEMMA HoldsAll == (\A w \in Workers : Holds(w)) <=> NamesHeld /\ RemovedFirst
BY DEF Holds, NamesHeld, RemovedFirst

\* Another goroutine keeps the row and the name it holds, and what it removed.
LEMMA OtherHolds ==
    ASSUME IInv, NEW x \in Workers, workers'[x] = workers[x],
           workers[x].pc \in {"docker", "record"} =>
               /\ OpOf(x)' = OpOf(x)
               /\ volumes'[VolumeOf(x)].name = volumes[VolumeOf(x)].name
               /\ volumes[VolumeOf(x)].status # "absent"
                     => volumes'[VolumeOf(x)].status # "absent"
               /\ workers[x].pc = "record" /\ OpOf(x).kind = "delete"
                  /\ Cleared(workers[x].name) => Cleared(workers[x].name)'
    PROVE  Holds(x)'
<1>1. Holds(x) BY HoldsAll DEF IInv, Holding
<1>2. CASE workers[x].pc \notin {"docker", "record"} BY <1>2 DEF Holds
<1>3. CASE workers[x].pc \in {"docker", "record"}
  <2>1. OpOf(x)' = OpOf(x) /\ VolumeOf(x)' = VolumeOf(x) BY <1>3 DEF VolumeOf
  <2>2. Exists(VolumeOf(x)) /\ volumes[VolumeOf(x)].name = workers[x].name
    BY <1>1, <1>3 DEF Holds
  <2>3. Exists(VolumeOf(x))' /\ volumes'[VolumeOf(x)'].name = workers'[x].name
    BY <1>3, <2>1, <2>2 DEF Exists
  <2>4. workers[x].pc = "record" /\ OpOf(x).kind = "delete" => Cleared(workers[x].name)'
    BY <1>1, <1>3 DEF Holds
  <2> QED BY <2>1, <2>3, <2>4 DEF Holds
<1> QED BY <1>2, <1>3

\* A step of w that leaves the rows their names and nothing of a volume behind.
LEMMA KeepingHolding ==
    ASSUME IInv, NEW w \in Workers, workers[w].pc # "idle",
           \A x \in Workers \ {w} : workers'[x] = workers[x],
           \A p \in Operations \ {workers[w].op} : ops'[p] = ops[p],
           KeepsRows, StaysCleared, Holds(w)'
    PROVE  Holding'
<1>1. NamesUnique' BY DEF IInv, Holding, NamesUnique, KeepsRows
<1>2. ASSUME NEW x \in Workers, x # w PROVE Holds(x)'
  <2>1. ASSUME workers[x].pc \in {"docker", "record"}
        PROVE  /\ OpOf(x)' = OpOf(x)
               /\ volumes'[VolumeOf(x)].name = volumes[VolumeOf(x)].name
               /\ volumes[VolumeOf(x)].status # "absent"
                     => volumes'[VolumeOf(x)].status # "absent"
               /\ Cleared(workers[x].name) => Cleared(workers[x].name)'
    <3>1. workers[x].op # workers[w].op /\ workers[x].op \in Operations
      BY <1>2, <2>1, WorkerAtWork, OtherOp
    <3>2. OpOf(x)' = OpOf(x) BY <1>2, <3>1 DEF OpOf
    <3>3. VolumeOf(x) \in Volumes BY <2>1, WorkerAtWork
    <3>4. PICK n \in Names : n = workers[x].name BY <2>1, WorkerVolume
    <3>5. Cleared(n) => Cleared(n)' BY DEF StaysCleared
    <3>6. Cleared(workers[x].name) => Cleared(workers[x].name)'
      BY <1>2, <3>4, <3>5 DEF Cleared, Remade, Present
    <3> QED BY <3>2, <3>3, <3>6 DEF KeepsRows, Exists
  <2> QED BY <1>2, <2>1, OtherHolds
<1>3. \A x \in Workers : Holds(x)' BY <1>2
<1>4. NamesHeld' /\ RemovedFirst' BY <1>3 DEF Holds, NamesHeld, RemovedFirst
<1> QED BY <1>1, <1>4 DEF Holding

\* A goroutine leaves, and only its operation changes with it.
LEMMA LeavingStep ==
    ASSUME IInv, NEW w \in Workers, workers[w].pc # "idle",
           NEW s \in {"done", "failed", "pending"}, NEW verdict,
           s = "pending" => workers[w].claimed,
           SetOp(w, s) \/ UNCHANGED ops, Settle(w, verdict), faults' \in Nat,
           UNCHANGED <<volumes, mounts, containers, outbox, publisher, callers, sync,
                       engine, crashes>>
    PROVE  IInv'
<1>1. workers[w].op \in Operations BY WorkerVolume
<1>2. KeepsRows /\ StaysCleared /\ RowsShape' /\ SyncShape' /\ ContainersShape'
  BY RowsUnchanged, ClearedUnchanged, RowsKept
     DEF IInv, Shape, SyncShape, ContainersShape
<1>3. \/ UNCHANGED ops
      \/ /\ ops' \in [Operations -> OpType]
         /\ \A o \in Operations \ {workers[w].op} : ops'[o] = ops[o]
         /\ ops'[workers[w].op].status = s
         /\ ops'[workers[w].op].volume = OpOf(w).volume
  <2>1. s \in OpStatuses BY DEF OpStatuses
  <2> QED BY <1>1, <2>1, SetOpEffect DEF IInv, Shape
<1>4. ops' \in [Operations -> OpType]
      /\ \A o \in Operations \ {workers[w].op} : ops'[o] = ops[o]
  BY <1>3 DEF IInv, Shape, TypeOK
<1>5. /\ workers' \in [Workers -> WorkerType]
      /\ \A x \in Workers \ {w} : workers'[x] = workers[x]
      /\ workers'[w] = IdleWorker
      /\ queue' \in [Operations -> Nat]
  BY <1>1, SettleEffect DEF IInv, Shape
<1>6. OpsShape' /\ WorkersShape' /\ Ownership'
  BY <1>3, <1>5, LeaveStep
<1>7. Holds(w)' BY <1>5, NullTypes DEF Holds
<1>8. Holding' BY <1>2, <1>4, <1>5, <1>7, KeepingHolding
<1>9. TypeOK' BY <1>4, <1>5 DEF IInv, Shape, TypeOK
<1> QED BY <1>2, <1>6, <1>8, <1>9 DEF IInv, Shape

\* A goroutine goes on; rows, mounts or Docker may change with it.
LEMMA MovingStep ==
    ASSUME IInv, NEW w \in Workers, workers[w].pc # "idle",
           workers' \in [Workers -> WorkerType],
           \A x \in Workers \ {w} : workers'[x] = workers[x],
           workers'[w].pc # "idle", workers'[w].op = workers[w].op,
           workers'[w].claimed = workers[w].claimed,
           ~workers[w].claimed => workers'[w].pc \in {"failRow", "failOp"},
           volumes' \in [Volumes -> VolumeType], RowsShape',
           mounts' \in SUBSET (Containers \X Volumes),
           engine' \in [Names -> EngineStates], faults' \in Nat,
           UNCHANGED <<containers, ops, outbox, queue, publisher, callers, sync, crashes>>,
           Holding'
    PROVE  IInv'
<1>1. OpsShape' /\ WorkersShape' /\ Ownership' BY MoveStep
<1>2. SyncShape' /\ ContainersShape' BY DEF IInv, Shape, SyncShape, ContainersShape
<1>3. TypeOK' BY DEF IInv, Shape, TypeOK
<1> QED BY <1>1, <1>2, <1>3 DEF IInv, Shape

LEMMA LoadStep ==
    ASSUME IInv, NEW w \in Workers, Load(w)
    PROVE  IInv'
<1> DEFINE v     == VolumeOf(w)
           named == [workers[w] EXCEPT !.pc = "docker", !.name = volumes[v].name]
<1>1. /\ workers[w].pc = "load"
      /\ UNCHANGED <<volumes, mounts, containers, outbox, publisher, callers, sync,
                     engine, crashes>>
  BY DEF Load
<1>2. workers[w].claimed /\ v \in Volumes BY <1>1, WorkerAtWork
<1>3. faults' \in Nat BY FaultType DEF Load, IInv, Shape, TypeOK
<1>4. CASE Exists(v) /\ workers' = [workers EXCEPT ![w] = named]
           /\ UNCHANGED <<ops, queue>>
  <2>1. workers[w] \in WorkerType /\ volumes[v] \in VolumeType
    BY <1>2 DEF IInv, Shape, TypeOK
  <2>2. PICK n \in Names \cup {None} : n = volumes[v].name BY <2>1, RowFields
  <2>3. named \in WorkerType /\ named.pc = "docker" /\ named.op = workers[w].op
        /\ named.claimed = workers[w].claimed /\ named.name = volumes[v].name
    BY <2>1, <2>2, NamedWorker
  <2> HIDE DEF named
  <2>4. /\ workers' \in [Workers -> WorkerType] /\ workers'[w] = named
        /\ \A x \in Workers \ {w} : workers'[x] = workers[x]
    BY <1>4, <2>3 DEF IInv, Shape, TypeOK
  <2>5. KeepsRows /\ StaysCleared /\ RowsShape'
    BY <1>1, RowsUnchanged, ClearedUnchanged, RowsKept DEF IInv, Shape
  <2>6. Holds(w)'
    BY <1>1, <1>4, <2>3, <2>4 DEF Holds, VolumeOf, OpOf, Exists
  <2>7. Holding' BY <1>1, <1>4, <2>4, <2>5, <2>6, KeepingHolding
  <2> QED BY <1>1, <1>2, <1>3, <1>4, <2>3, <2>4, <2>5, <2>7, MovingStep
          DEF IInv, Shape, TypeOK
<1> HIDE DEF v, named
<1>5. \/ Exists(v) /\ workers' = [workers EXCEPT ![w] = named]
         /\ UNCHANGED <<ops, queue>>
      \/ SetOp(w, "done") /\ Settle(w, "ack")
      \/ SetOp(w, "failed") /\ Settle(w, "dead")
      \/ SetOp(w, "failed") /\ Settle(w, "retry")
  BY DEF Load, v, named
<1> QED BY <1>1, <1>3, <1>4, <1>5, LeavingStep

\* The fields of the goroutine that goes on, failing or not.
LEMMA GoesOn ==
    ASSUME TypeOK, NEW w \in Workers, NEW pc \in Pcs,
           NEW verdict \in {"ack", "dead", "retry"},
           Goto(w, pc) \/ GotoFailing(w, pc, verdict)
    PROVE  /\ workers' \in [Workers -> WorkerType]
           /\ \A x \in Workers \ {w} : workers'[x] = workers[x]
           /\ workers'[w].pc = pc /\ workers'[w].op = workers[w].op
           /\ workers'[w].claimed = workers[w].claimed
           /\ workers'[w].name = workers[w].name
BY GotoEffect, GotoFailingEffect

LEMMA DockerCallStep ==
    ASSUME IInv, NEW w \in Workers, DockerCall(w)
    PROVE  IInv'
<1> DEFINE v == VolumeOf(w)
           n == workers[w].name
<1>1. /\ workers[w].pc = "docker"
      /\ UNCHANGED <<volumes, mounts, containers, ops, outbox, queue, publisher,
                     callers, sync, crashes>>
  BY DEF DockerCall, queueVars
<1>2. /\ workers[w].claimed /\ OpOf(w).kind \in Kinds /\ v \in Volumes /\ n \in Names
  BY <1>1, WorkerAtWork, WorkerVolume
<1>3. PICK pc \in {"record", "requeue", "failRow"} :
         Goto(w, pc) \/ GotoFailing(w, pc, "retry")
  BY DEF DockerCall
<1>4. /\ workers' \in [Workers -> WorkerType]
      /\ \A x \in Workers \ {w} : workers'[x] = workers[x]
      /\ workers'[w].pc = pc /\ workers'[w].op = workers[w].op
      /\ workers'[w].claimed = workers[w].claimed
      /\ workers'[w].name = n
  <2>1. pc \in Pcs BY DEF Pcs
  <2> HIDE DEF n
  <2> QED BY <1>3, <2>1, GoesOn DEF IInv, Shape, n
<1>5. faults' \in Nat BY DEF DockerCall, Fault, IInv, Shape, TypeOK
<1>6. \/ UNCHANGED engine /\ (pc = "record" => ~Present(n) /\ OpOf(w).kind # "create")
      \/ OpOf(w).kind = "create" /\ engine' = [engine EXCEPT ![n] = "present"]
      \/ OpOf(w).kind = "delete" /\ engine' = [engine EXCEPT ![n] = "absent"]
  <2>1. CASE workers'[w].pc = "record"
    <3>1. \/ /\ OpOf(w).kind = "delete" /\ Present(n) /\ Attached(n)
             /\ GotoFailing(w, "failRow", "retry")
          \/ /\ engine' = IF OpOf(w).kind = "create"
                          THEN [engine EXCEPT ![n] = "present"]
                          ELSE IF Present(n) THEN [engine EXCEPT ![n] = "absent"]
                                             ELSE engine
          \/ Goto(w, "requeue")
          \/ GotoFailing(w, "failRow", "retry")
      BY DEF DockerCall
    <3>2. "requeue" \in Pcs /\ "failRow" \in Pcs BY DEF Pcs
    <3>3. ~Goto(w, "requeue") /\ ~GotoFailing(w, "failRow", "retry")
      BY <2>1, <3>2, GoesOn DEF IInv, Shape
    <3> QED BY <1>2, <3>1, <3>3 DEF Kinds
  <2>2. CASE workers'[w].pc # "record"
    <3>1. \/ UNCHANGED engine
          \/ OpOf(w).kind = "create" /\ engine' = [engine EXCEPT ![n] = "present"]
          \/ OpOf(w).kind # "create" /\ engine' = [engine EXCEPT ![n] = "absent"]
      BY DEF DockerCall
    <3> QED BY <1>2, <1>4, <2>2, <3>1 DEF Kinds
  <2> QED BY <2>1, <2>2
<1>7. engine' \in [Names -> EngineStates]
  BY <1>2, <1>6 DEF IInv, Shape, TypeOK, EngineStates
<1>8. KeepsRows /\ RowsShape'
  BY <1>1, RowsUnchanged, RowsKept DEF IInv, Shape
<1>9. \A m \in Names : m # n \/ OpOf(w).kind = "delete" => (Cleared(m) => Cleared(m)')
  <2> TAKE m \in Names
  <2> HAVE m # n \/ OpOf(w).kind = "delete"
  <2> HAVE Cleared(m)
  <2>1. Remade(m) => Remade(m)' BY <1>1 DEF Remade
  <2>2. ~Present(m) => ~Present(m)'
    BY <1>2, <1>6 DEF IInv, Shape, TypeOK, Present
  <2> QED BY <2>1, <2>2 DEF Cleared
<1>10. ASSUME NEW x \in Workers, x # w PROVE Holds(x)'
  <2>1. ASSUME workers[x].pc \in {"docker", "record"}
        PROVE  workers[x].name \in Names /\ workers[x].name # n
    <3>1. workers[x].claimed /\ VolumeOf(x) \in Volumes BY <2>1, WorkerAtWork
    <3>2. VolumeOf(x) # v BY <1>2, <1>10, <3>1, DistinctVolumes
    <3>3. /\ Exists(VolumeOf(x)) /\ volumes[VolumeOf(x)].name = workers[x].name
          /\ Exists(v) /\ volumes[v].name = n
      BY <1>1, <2>1 DEF IInv, Holding, NamesHeld
    <3>4. workers[x].name # n
      BY <1>2, <3>1, <3>2, <3>3 DEF IInv, Holding, NamesUnique
    <3> QED BY <2>1, <3>4, WorkerVolume
  <2>2. ASSUME workers[x].pc \in {"docker", "record"}
        PROVE  Cleared(workers[x].name) => Cleared(workers[x].name)'
    <3>1. PICK m \in Names : m = workers[x].name /\ m # n BY <2>1, <2>2
    <3>2. Cleared(m) => Cleared(m)' BY <1>9, <3>1
    <3> QED BY <1>4, <1>10, <3>1, <3>2 DEF Cleared, Remade, Present
  <2> QED BY <1>1, <1>4, <1>10, <2>2, OtherHolds DEF OpOf
<1>11. Holds(w)'
  <2>1. /\ Exists(VolumeOf(w))' /\ volumes'[VolumeOf(w)'].name = workers'[w].name
    BY <1>1, <1>4 DEF IInv, Holding, NamesHeld, VolumeOf, OpOf, Exists
  <2>2. ASSUME pc = "record", OpOf(w).kind = "delete" PROVE Cleared(workers[w].name)'
    <3>1. PICK m \in Names : m = n BY <1>2
    <3>2. engine'[m] # "present"
      BY <1>6, <2>2, <3>1 DEF IInv, Shape, TypeOK, Present
    <3> QED BY <1>4, <3>1, <3>2 DEF Cleared, Present
  <2> QED BY <1>1, <1>4, <2>1, <2>2 DEF Holds, OpOf
<1>12. Holding'
  <2>1. NamesUnique' BY <1>8 DEF IInv, Holding, NamesUnique, KeepsRows
  <2>2. \A x \in Workers : Holds(x)' BY <1>10, <1>11
  <2>3. NamesHeld' /\ RemovedFirst' BY <2>2 DEF Holds, NamesHeld, RemovedFirst
  <2> QED BY <2>1, <2>3 DEF Holding
<1>13. pc # "idle" OBVIOUS
<1> QED BY <1>1, <1>2, <1>4, <1>5, <1>7, <1>8, <1>12, <1>13, MovingStep
        DEF IInv, Shape, TypeOK

LEMMA RecordStep ==
    ASSUME IInv, NEW w \in Workers, Record(w)
    PROVE  IInv'
<1> DEFINE v == VolumeOf(w)
<1>1. /\ workers[w].pc = "record"
      /\ UNCHANGED <<containers, ops, outbox, queue, publisher, callers, sync, engine,
                     crashes>>
  BY DEF Record, queueVars
<1>2. workers[w].claimed /\ v \in Volumes BY <1>1, WorkerAtWork
<1>3. PICK pc \in {"complete", "failRow"} :
         Goto(w, pc) \/ GotoFailing(w, pc, "retry")
  BY DEF Record
<1>4. /\ workers' \in [Workers -> WorkerType]
      /\ \A x \in Workers \ {w} : workers'[x] = workers[x]
      /\ workers'[w].pc = pc /\ workers'[w].op = workers[w].op
      /\ workers'[w].claimed = workers[w].claimed
  <2>1. pc \in Pcs BY DEF Pcs
  <2> QED BY <1>3, <2>1, GoesOn DEF IInv, Shape
<1>5. faults' \in Nat BY DEF Record, Fault, IInv, Shape, TypeOK
<1>6. mounts' \in SUBSET (Containers \X Volumes) BY DEF Record, IInv, Shape, TypeOK
<1>7. Holds(w)' BY <1>4 DEF Holds
<1>8. StaysCleared BY <1>1, ClearedUnchanged
<1>9. CASE KeepsRows
  <2>1. Holding' BY <1>1, <1>4, <1>7, <1>8, <1>9, KeepingHolding
  <2>2. volumes' \in [Volumes -> VolumeType] /\ RowsShape'
    BY <1>9, RowsKept DEF IInv
  <2> QED BY <1>1, <1>2, <1>4, <1>5, <1>6, <2>1, <2>2, MovingStep
          DEF IInv, Shape, TypeOK
<1>10. CASE volumes' = [volumes EXCEPT ![v] = NoVolume]
  <2>1. /\ volumes' \in [Volumes -> VolumeType] /\ volumes'[v] = NoVolume
        /\ \A u \in Volumes \ {v} : volumes'[u] = volumes[u]
    <3> HIDE DEF v
    <3> QED BY <1>2, <1>10, NullTypes DEF IInv, Shape, TypeOK
  <2>2. RowsShape' BY <2>1, NullTypes DEF IInv, Shape, RowsShape, Exists
  <2>3. NamesUnique' BY <2>1, NullTypes DEF IInv, Holding, NamesUnique, Exists
  <2>4. ASSUME NEW x \in Workers, x # w PROVE Holds(x)'
    <3>1. ASSUME workers[x].pc \in {"docker", "record"}
          PROVE  VolumeOf(x) \in Volumes \ {v}
      BY <1>2, <2>4, <3>1, WorkerAtWork, DistinctVolumes
    <3>2. Cleared(workers[x].name) => Cleared(workers[x].name)'
      BY <1>1, <1>4, <2>4 DEF Cleared, Remade, Present
    <3> QED BY <1>1, <1>4, <2>1, <2>4, <3>1, <3>2, OtherHolds DEF OpOf
  <2>5. \A x \in Workers : Holds(x)' BY <1>7, <2>4
  <2>6. NamesHeld' /\ RemovedFirst' BY <2>5 DEF Holds, NamesHeld, RemovedFirst
  <2> QED BY <1>1, <1>2, <1>4, <1>5, <1>6, <2>1, <2>2, <2>3, <2>6, MovingStep
          DEF Holding, IInv, Shape, TypeOK
<1>11. KeepsRows \/ volumes' = [volumes EXCEPT ![v] = NoVolume]
  <2>1. "available" \in VolumeStatuses \ {"absent"} BY DEF VolumeStatuses
  <2>2. \/ SetStatus(v, "available") \/ UNCHANGED volumes
        \/ volumes' = [volumes EXCEPT ![v] = NoVolume]
    BY DEF Record
  <2> QED BY <1>2, <2>1, <2>2, SetStatusEffect, RowsUnchanged DEF IInv, Shape
<1> QED BY <1>9, <1>10, <1>11

LEMMA CompleteStep ==
    ASSUME IInv, NEW w \in Workers, Complete(w)
    PROVE  IInv'
<1>1. /\ workers[w].pc = "complete"
      /\ UNCHANGED <<volumes, mounts, containers, outbox, publisher, callers, sync,
                     engine, crashes>>
      /\ SetOp(w, "done") \/ UNCHANGED ops
      /\ Settle(w, "ack")
  BY DEF Complete
<1>2. faults' \in Nat BY DEF Complete, Fault, IInv, Shape, TypeOK
<1> QED BY <1>1, <1>2, LeavingStep

LEMMA RequeueStep ==
    ASSUME IInv, NEW w \in Workers, Requeue(w)
    PROVE  IInv'
<1>1. /\ workers[w].pc = "requeue"
      /\ UNCHANGED <<volumes, mounts, containers, outbox, publisher, callers, sync,
                     engine, crashes>>
      /\ \/ SetOp(w, "pending") /\ Settle(w, "retry")
         \/ GotoFailing(w, "failRow", "retry") /\ UNCHANGED <<ops, queue>>
  BY DEF Requeue
<1>2. faults' \in Nat BY DEF Requeue, Fault, IInv, Shape, TypeOK
<1>3. workers[w].claimed BY <1>1, WorkerAtWork
<1>4. CASE GotoFailing(w, "failRow", "retry") /\ UNCHANGED <<ops, queue>>
  <2>1. /\ workers' \in [Workers -> WorkerType]
        /\ \A x \in Workers \ {w} : workers'[x] = workers[x]
        /\ workers'[w].pc = "failRow" /\ workers'[w].op = workers[w].op
        /\ workers'[w].claimed = workers[w].claimed
    <3>1. "failRow" \in Pcs BY DEF Pcs
    <3> QED BY <1>4, <3>1, GoesOn DEF IInv, Shape
  <2>2. KeepsRows /\ StaysCleared /\ RowsShape'
    BY <1>1, RowsUnchanged, ClearedUnchanged, RowsKept DEF IInv, Shape
  <2>3. Holds(w)' BY <2>1 DEF Holds
  <2>4. Holding' BY <1>1, <1>4, <2>1, <2>2, <2>3, KeepingHolding
  <2> QED BY <1>1, <1>2, <1>3, <1>4, <2>1, <2>2, <2>4, MovingStep
          DEF IInv, Shape, TypeOK
<1> QED BY <1>1, <1>2, <1>3, <1>4, LeavingStep

LEMMA FailRowStep ==
    ASSUME IInv, NEW w \in Workers, FailRow(w)
    PROVE  IInv'
<1>1. /\ workers[w].pc = "failRow" /\ Goto(w, "failOp")
      /\ SetStatus(VolumeOf(w), "error") \/ UNCHANGED volumes
      /\ UNCHANGED <<mounts, containers, ops, outbox, queue, publisher, callers, sync,
                     engine, crashes>>
  BY DEF FailRow, queueVars
<1>2. faults' \in Nat BY DEF FailRow, Fault, IInv, Shape, TypeOK
<1>3. VolumeOf(w) \in Volumes BY <1>1, WorkerVolume
<1>4. KeepsRows /\ RowsShape'
  <2>1. "error" \in VolumeStatuses \ {"absent"} BY DEF VolumeStatuses
  <2> QED BY <1>1, <1>3, <2>1, SetStatusEffect, RowsUnchanged, RowsKept
          DEF IInv, Shape
<1>5. /\ workers' \in [Workers -> WorkerType]
      /\ \A x \in Workers \ {w} : workers'[x] = workers[x]
      /\ workers'[w].pc = "failOp" /\ workers'[w].op = workers[w].op
      /\ workers'[w].claimed = workers[w].claimed
  <2>1. "failOp" \in Pcs BY DEF Pcs
  <2> QED BY <1>1, <2>1, GotoEffect DEF IInv, Shape
<1>6. Holds(w)' BY <1>5 DEF Holds
<1>7. StaysCleared BY <1>1, ClearedUnchanged
<1>8. Holding' BY <1>1, <1>4, <1>5, <1>6, <1>7, KeepingHolding
<1> QED BY <1>1, <1>2, <1>4, <1>5, <1>8, MovingStep DEF IInv, Shape, TypeOK, KeepsRows

LEMMA FailOpStep ==
    ASSUME IInv, NEW w \in Workers, FailOp(w)
    PROVE  IInv'
<1>1. /\ workers[w].pc = "failOp"
      /\ UNCHANGED <<volumes, mounts, containers, outbox, publisher, callers, sync,
                     engine, crashes>>
      /\ SetOp(w, "failed") \/ UNCHANGED ops
      /\ Settle(w, workers[w].verdict)
  BY DEF FailOp
<1>2. faults' \in Nat BY DEF FailOp, Fault, IInv, Shape, TypeOK
<1> QED BY <1>1, <1>2, LeavingStep

LEMMA ProceedStep ==
    ASSUME IInv, NEW w \in Workers, Proceed(w)
    PROVE  IInv'
BY LoadStep, DockerCallStep, RecordStep, CompleteStep, RequeueStep, FailRowStep,
   FailOpStep DEF Proceed

-----------------------------------------------------------------------------
(* Restarts of Core *)

\* What a restart does with the status of an operation.
LEMMA RecoveredOps ==
    ASSUME Shape, CrashAndRecover
    PROVE  /\ ops' \in [Operations -> OpType]
           /\ \A o \in Operations :
                 /\ ops'[o].volume = ops[o].volume
                 /\ ops'[o].status = "none" <=> ops[o].status = "none"
                 /\ Active(o)' => Active(o)
                 /\ Finished(o) => Finished(o)'
<1>1. ops \in [Operations -> OpType] BY DEF Shape, TypeOK
<1>2. CASE UNCHANGED ops BY <1>1, <1>2 DEF Active, Finished
<1>3. CASE ops' = [o \in Operations |->
                     IF ops[o].status = "running"
                     THEN [ops[o] EXCEPT !.status = "failed"] ELSE ops[o]]
  <2>1. \A o \in Operations :
           ops'[o] = IF ops[o].status = "running"
                     THEN [ops[o] EXCEPT !.status = "failed"] ELSE ops[o]
    BY <1>3
  <2>2. "failed" \in OpStatuses BY DEF OpStatuses
  <2>3. ASSUME NEW o \in Operations
        PROVE  /\ ops'[o] \in OpType
               /\ ops'[o].volume = ops[o].volume
               /\ \/ ops'[o] = ops[o]
                  \/ ops[o].status = "running" /\ ops'[o].status = "failed"
    <3>1. ops[o] \in OpType BY <1>1
    <3>2. \/ ops'[o] = ops[o]
          \/ /\ ops[o].status = "running"
             /\ ops'[o] = [ops[o] EXCEPT !.status = "failed"]
      BY <2>1
    <3>3. /\ [ops[o] EXCEPT !.status = "failed"] \in OpType
          /\ [ops[o] EXCEPT !.status = "failed"].status = "failed"
          /\ [ops[o] EXCEPT !.status = "failed"].volume = ops[o].volume
      BY <2>2, <3>1, OpFields
    <3> QED BY <3>1, <3>2, <3>3
  <2>4. ops' \in [Operations -> OpType] BY <1>3, <2>3
  <2> QED BY <2>3, <2>4 DEF Active, Finished
<1> QED BY <1>2, <1>3 DEF CrashAndRecover

LEMMA CrashStep ==
    ASSUME IInv, CrashAndRecover
    PROVE  IInv'
<1>1. /\ queue' = [o \in Operations |-> Copies(o)]
      /\ publisher' = IdlePublisher
      /\ workers' = [w \in Workers |-> IdleWorker]
      /\ callers' = [k \in Callers |-> None]
      /\ sync' = IdleSync
      /\ crashes' = crashes + 1
      /\ UNCHANGED <<volumes, mounts, outbox, engine>>
  BY DEF CrashAndRecover
<1>2. faults' \in Nat
  <2>1. UNCHANGED faults \/ Fault("dbRecover") BY DEF CrashAndRecover
  <2> QED BY <2>1 DEF Fault, IInv, Shape, TypeOK
<1>3. queue' \in [Operations -> Nat] BY <1>1, CopiesType DEF IInv, Shape
<1>4. /\ ops' \in [Operations -> OpType]
      /\ \A o \in Operations :
            /\ ops'[o].volume = ops[o].volume
            /\ ops'[o].status = "none" <=> ops[o].status = "none"
            /\ Active(o)' => Active(o)
  BY RecoveredOps DEF IInv
<1>5. containers' \in [Containers -> ContainerType] /\ ContainersShape'
  <2>1. containers' = [c \in Containers |->
          CASE containers[c].pc = "admitted" -> NoContainer
            [] containers[c].pc \in {"inspecting", "creating"} ->
                  [containers[c] EXCEPT !.pc = "queued", !.attach = None]
            [] OTHER -> containers[c]]
    BY DEF CrashAndRecover
  <2>2. ASSUME NEW c \in Containers
        PROVE  /\ containers'[c] \in ContainerType
               /\ containers'[c].pc # "none" => containers'[c].volume \in Volumes
    <3>1. containers[c] \in ContainerType
          /\ (containers[c].pc # "none" => containers[c].volume \in Volumes)
      BY DEF IInv, Shape, TypeOK, ContainersShape
    <3>2. \/ containers'[c] = NoContainer
          \/ /\ containers[c].pc \in {"inspecting", "creating"}
             /\ containers'[c] = [containers[c] EXCEPT !.pc = "queued", !.attach = None]
          \/ containers'[c] = containers[c]
      BY <2>1
    <3>3. [containers[c] EXCEPT !.pc = "queued", !.attach = None] \in ContainerType
          /\ [containers[c] EXCEPT !.pc = "queued", !.attach = None].volume
                = containers[c].volume
      BY <3>1 DEF ContainerType
    <3> QED BY <3>1, <3>2, <3>3, NullTypes
  <2> QED BY <2>1, <2>2 DEF ContainersShape
<1>6. TypeOK'
  BY <1>1, <1>2, <1>3, <1>4, <1>5, NullTypes DEF IInv, Shape, TypeOK
<1>7. OpsShape' BY <1>4 DEF IInv, Shape, OpsShape
<1>8. \A w \in Workers : workers'[w] = IdleWorker BY <1>1
<1>9. Shape'
  BY <1>1, <1>5, <1>6, <1>7, <1>8, NullTypes
     DEF IInv, Shape, RowsShape, WorkersShape, SyncShape, Exists
<1>10. OneActive' BY <1>4 DEF IInv, Ownership, OneActive
<1>11. Ownership'
  BY <1>8, <1>10, NullTypes DEF Ownership, ClaimsHold, OneClaim, GivingUpHold
<1>12. Holding'
  BY <1>1, <1>8, NullTypes DEF IInv, Holding, NamesUnique, NamesHeld, RemovedFirst, Exists
<1> QED BY <1>9, <1>11, <1>12 DEF IInv

LEMMA InvariantStep == IInv /\ [Next]_vars => IInv'
<1> SUFFICES ASSUME IInv, [Next]_vars PROVE IInv'
  OBVIOUS
<1>1. CASE Api
  <2>1. Shape BY DEF IInv
  <2> QED BY <1>1, <2>1, CreateVolumeStep, QueueDeleteStep, CallerQuiet, QuietStep
          DEF Api
<1>2. CASE Mount BY <1>2, MountQuiet, QuietStep DEF IInv
<1>3. CASE Publisher BY <1>3, PublisherQuiet, QuietStep DEF IInv
<1>4. CASE Sync BY <1>4, SyncQuiet, QuietStep DEF IInv
<1>5. CASE \E w \in Workers : Proceed(w) \/ \E o \in Operations : Claim(w, o)
  BY <1>5, ProceedStep, ClaimStep
<1>6. CASE \E n \in Names : RemovedOutside(n)
  BY <1>6, OutsideQuiet, QuietStep DEF IInv
<1>7. CASE CrashAndRecover BY <1>7, CrashStep
<1>8. CASE UNCHANGED vars
  <2>1. Shape BY DEF IInv
  <2>2. TypeOK' /\ SyncShape' /\ ContainersShape'
    BY <1>8, <2>1 DEF vars, Shape, TypeOK, SyncShape, ContainersShape
  <2>3. Quiet
    BY <1>8, <2>1, <2>2, RowsUnchanged, ClearedUnchanged DEF Quiet, vars, Shape
  <2> QED BY <2>3, QuietStep
<1> QED BY <1>1, <1>2, <1>3, <1>4, <1>5, <1>6, <1>7, <1>8 DEF Next

\* However requests, goroutines, the state synchronisation and restarts interleave,
\* goroutines own their operations and the names they hold.
THEOREM Invariant == Spec => []IInv
BY InvariantInit, InvariantStep, PTL DEF Spec

\* Every table, queue and goroutine holds values of its type.
THEOREM TypeCorrect == Spec => []TypeOK
BY Invariant, PTL DEF IInv, Shape

-----------------------------------------------------------------------------
(* Only the record of a delete ends a row, and only the Docker call of one   *)
(* removes a volume.                                                         *)

\* Rows that are there stay.
RowsStay == \A v \in Volumes : Exists(v) => Exists(v)'
\* Volumes that are present are not removed by DCM.
VolumesStay ==
    \A n \in Names : engine[n] = "present" => engine'[n] # "absent"

LEMMA QuietStays ==
    ASSUME IInv, Mount \/ Publisher \/ Sync
    PROVE  RowsStay /\ VolumesStay
<1>1. RowsStay
  BY MountQuiet, PublisherQuiet, SyncQuiet DEF Quiet, IInv, KeepsRows, RowsStay
<1>2. CASE UNCHANGED engine BY <1>1, <1>2 DEF VolumesStay
<1>3. CASE \E c \in Containers : CreateContainer(c)
  <2>1. PICK c \in Containers : CreateContainer(c) BY <1>3
  <2>2. \/ UNCHANGED engine
        \/ engine' = [engine EXCEPT ![containers[c].attach] = "present"]
    BY <2>1 DEF CreateContainer
  <2>3. engine \in [Names -> EngineStates] BY DEF IInv, Shape, TypeOK
  <2> QED BY <1>1, <2>2, <2>3 DEF VolumesStay
<1>4. UNCHANGED engine \/ \E c \in Containers : CreateContainer(c)
  <2>1. CASE Mount
    BY <2>1 DEF Mount, AdmitContainer, SaveContainer, ReadMounts, InspectMounts,
                DeleteContainer
  <2>2. CASE Publisher
    BY <2>2 DEF Publisher, LeaseOutbox, DiscardOutbox, PublishMessage, PublishFails,
                MarkPublished
  <2>3. CASE Sync BY <2>3 DEF Sync, SyncRead, SyncInspect, SyncWrite
  <2> QED BY <2>1, <2>2, <2>3
<1> QED BY <1>2, <1>3, <1>4

LEMMA RowsEnd ==
    ASSUME IInv, [Next]_vars, NEW v \in Volumes, Exists(v), ~Exists(v)'
    PROVE  \E w \in Workers :
              workers[w].pc = "record" /\ OpOf(w).kind = "delete" /\ VolumeOf(w) = v
<1>1. CASE \E w \in Workers : Record(w)
  <2>1. PICK w \in Workers : Record(w) BY <1>1
  <2>2. workers[w].pc = "record" /\ VolumeOf(w) \in Volumes
    BY <2>1, WorkerAtWork DEF Record
  <2>3. \/ SetStatus(VolumeOf(w), "available") \/ UNCHANGED volumes
        \/ OpOf(w).kind = "delete"
           /\ volumes' = [volumes EXCEPT ![VolumeOf(w)] = NoVolume]
    BY <2>1 DEF Record
  <2>4. ~KeepsRows BY DEF KeepsRows
  <2>5. "available" \in VolumeStatuses \ {"absent"} BY DEF VolumeStatuses
  <2>6. /\ OpOf(w).kind = "delete"
        /\ volumes' = [volumes EXCEPT ![VolumeOf(w)] = NoVolume]
    BY <2>2, <2>3, <2>4, <2>5, SetStatusEffect, RowsUnchanged DEF IInv, Shape
  <2>7. VolumeOf(w) = v
    BY <2>6 DEF Exists, IInv, Shape, TypeOK
  <2> QED BY <2>2, <2>6, <2>7
<1>2. CASE \E w \in Workers : FailRow(w)
  <2>1. PICK w \in Workers : FailRow(w) BY <1>2
  <2>2. VolumeOf(w) \in Volumes /\ (SetStatus(VolumeOf(w), "error") \/ UNCHANGED volumes)
    BY <2>1, WorkerVolume DEF FailRow
  <2>3. "error" \in VolumeStatuses \ {"absent"} BY DEF VolumeStatuses
  <2>4. KeepsRows BY <2>2, <2>3, SetStatusEffect, RowsUnchanged DEF IInv, Shape
  <2> QED BY <2>4 DEF KeepsRows
<1>3. CASE \E u \in Volumes, n \in Names, o \in Operations : CreateVolume(u, n, o)
  <2>1. PICK u \in Volumes, n \in Names, o \in Operations : CreateVolume(u, n, o)
    BY <1>3
  <2>2. u # v /\ \E r : volumes' = [volumes EXCEPT ![u] = r]
    BY <2>1 DEF CreateVolume
  <2> QED BY <2>2 DEF Exists, IInv, Shape, TypeOK
<1>4. CASE \E k \in Callers, o \in Operations : QueueDelete(k, o)
  <2>1. PICK k \in Callers, o \in Operations : QueueDelete(k, o) BY <1>4
  <2>2. callers[k] \in Volumes /\ Exists(callers[k])
        /\ volumes' = [volumes EXCEPT ![callers[k]].status = "deleting"]
    BY <2>1 DEF QueueDelete, IInv, Shape, TypeOK
  <2>3. "deleting" \in VolumeStatuses \ {"absent"} BY DEF VolumeStatuses
  <2>4. KeepsRows BY <2>2, <2>3, RowStatusEffect DEF IInv, Shape
  <2> QED BY <2>4 DEF KeepsRows
<1>5. CASE Mount \/ Publisher \/ Sync BY <1>5, QuietStays DEF RowsStay
<1>6. CASE UNCHANGED volumes BY <1>6 DEF Exists
<1> QED
  BY <1>1, <1>2, <1>3, <1>4, <1>5, <1>6
     DEF Next, Api, Proceed, BeginDelete, RejectDelete, Load, DockerCall, Complete,
         Requeue, FailOp, Claim, RemovedOutside, CrashAndRecover, vars

LEMMA VolumesEnd ==
    ASSUME IInv, [Next]_vars, NEW n \in Names,
           engine[n] = "present", engine'[n] = "absent"
    PROVE  \E w \in Workers :
              /\ workers[w].pc = "docker" /\ OpOf(w).kind = "delete"
              /\ workers[w].name = n
<1>1. CASE \E w \in Workers : DockerCall(w)
  <2>1. PICK w \in Workers : DockerCall(w) BY <1>1
  <2>2. workers[w].pc = "docker" /\ OpOf(w).kind \in Kinds
    BY <2>1, WorkerAtWork DEF DockerCall
  <2>3. \/ UNCHANGED engine
        \/ OpOf(w).kind = "create"
           /\ engine' = [engine EXCEPT ![workers[w].name] = "present"]
        \/ OpOf(w).kind # "create"
           /\ engine' = [engine EXCEPT ![workers[w].name] = "absent"]
    BY <2>1 DEF DockerCall
  <2>4. OpOf(w).kind = "delete" /\ workers[w].name = n
    BY <2>2, <2>3 DEF Kinds, IInv, Shape, TypeOK
  <2> QED BY <2>2, <2>4
<1>2. CASE \E m \in Names : RemovedOutside(m)
  BY <1>2 DEF RemovedOutside, IInv, Shape, TypeOK
<1>3. CASE Mount \/ Publisher \/ Sync BY <1>3, QuietStays DEF VolumesStay
<1>4. CASE UNCHANGED engine BY <1>4
<1> QED
  BY <1>1, <1>2, <1>3, <1>4
     DEF Next, Api, Proceed, CreateVolume, BeginDelete, RejectDelete, QueueDelete, Load,
         Record, Complete, Requeue, FailRow, FailOp, Claim, CrashAndRecover, vars

\* A row goes only when its Docker volume is gone, or a container made it anew.
THEOREM Deletion == Spec => DeletedVolumeIsGone
<1> DEFINE Gone(v) ==
       Exists(v) /\ ~Exists(v)' =>
          \/ ~Present(volumes[v].name)
          \/ \E c \in Containers : containers[c].attach = volumes[v].name
<1>1. ASSUME IInv, [Next]_vars, NEW v \in Volumes PROVE Gone(v)
  <2> SUFFICES ASSUME Exists(v), ~Exists(v)'
               PROVE  \/ ~Present(volumes[v].name)
                      \/ \E c \in Containers : containers[c].attach = volumes[v].name
    OBVIOUS
  <2>1. PICK w \in Workers :
           workers[w].pc = "record" /\ OpOf(w).kind = "delete" /\ VolumeOf(w) = v
    BY <1>1, RowsEnd
  <2>2. volumes[v].name = workers[w].name /\ Cleared(workers[w].name)
    BY <1>1, <2>1 DEF IInv, Holding, NamesHeld, RemovedFirst
  <2> QED BY <2>2 DEF Cleared, Remade
<1>2. IInv /\ [Next]_vars => [\A v \in Volumes : Gone(v)]_vars BY <1>1
<1> QED BY <1>2, Invariant, PTL DEF Spec, DeletedVolumeIsGone

\* DCM removes a Docker volume only for the delete of the row that has its name.
THEOREM Removal == Spec => RemovalOwnsName
<1> DEFINE Owned(n) ==
       engine[n] = "present" /\ engine'[n] = "absent" =>
          \E w \in Workers : /\ workers[w].claimed /\ OpOf(w).kind = "delete"
                             /\ volumes[VolumeOf(w)].name = n
<1>1. ASSUME IInv, [Next]_vars, NEW n \in Names PROVE Owned(n)
  <2> SUFFICES ASSUME engine[n] = "present", engine'[n] = "absent"
               PROVE  \E w \in Workers : /\ workers[w].claimed /\ OpOf(w).kind = "delete"
                                         /\ volumes[VolumeOf(w)].name = n
    OBVIOUS
  <2>1. PICK w \in Workers :
           workers[w].pc = "docker" /\ OpOf(w).kind = "delete" /\ workers[w].name = n
    BY <1>1, VolumesEnd
  <2>2. workers[w].claimed /\ volumes[VolumeOf(w)].name = n
    BY <1>1, <2>1, WorkerAtWork DEF IInv, Holding, NamesHeld
  <2> QED BY <2>1, <2>2
<1>2. IInv /\ [Next]_vars => [\A n \in Names : Owned(n)]_vars BY <1>1
<1> QED BY <1>2, Invariant, PTL DEF Spec, RemovalOwnsName

-----------------------------------------------------------------------------
(* What a step means to SerialExecution: it accepts an operation, begins    *)
(* one, or only ends some.                                                  *)

Accepts(o, v) ==
    /\ UNCHANGED workers
    /\ ops[o].volume = None
    /\ ops'[o].volume = v /\ ops'[o].status = "pending"
    /\ \A p \in Operations \ {o} : ops'[p] = ops[p]

Begins(w, o) ==
    /\ ops[o].status = "pending" /\ ops'[o].status = "running"
    /\ ops'[o].volume = ops[o].volume
    /\ \A p \in Operations \ {o} : ops'[p] = ops[p]
    /\ workers'[w].claimed /\ workers'[w].op = o
    /\ ~workers[w].claimed
    /\ \A x \in Workers \ {w} : workers'[x] = workers[x]
    /\ \A x \in Workers : workers[x].claimed =>
          workers[x].op # o /\ VolumeOf(x) # ops[o].volume

Ends ==
    /\ \A x \in Workers : workers'[x].claimed =>
          workers[x].claimed /\ workers'[x].op = workers[x].op
    /\ \A o \in Operations :
          /\ ops'[o].volume = ops[o].volume
          /\ Finished(o) => Finished(o)'
          /\ ops[o].status = "none" => ops'[o].status = "none"

LEMMA QuietEnds ==
    ASSUME UNCHANGED <<ops, workers>>
    PROVE  Ends
BY DEF Ends, Finished

LEMMA ApiEffect ==
    ASSUME IInv, Api
    PROVE  Ends \/ \E o \in Operations, v \in Volumes : Accepts(o, v)
<1>1. ASSUME NEW o \in Operations, NEW v \in Volumes, NEW kind \in Kinds,
             InsertOperation(o, v, kind), UNCHANGED workers
      PROVE  Accepts(o, v)
  BY <1>1, InsertEffect DEF Accepts, IInv, Shape, OpsShape
<1>2. ASSUME NEW v \in Volumes, NEW n \in Names, NEW o \in Operations,
             CreateVolume(v, n, o)
      PROVE  Accepts(o, v)
  BY <1>1, <1>2 DEF CreateVolume, Kinds
<1>3. ASSUME NEW k \in Callers, NEW o \in Operations, QueueDelete(k, o)
      PROVE  \E v \in Volumes : Accepts(o, v)
  <2>1. callers[k] \in Volumes BY <1>3 DEF QueueDelete, IInv, Shape, TypeOK
  <2> QED BY <1>1, <1>3, <2>1 DEF QueueDelete, Kinds
<1> QED
  BY <1>2, <1>3, QuietEnds DEF Api, BeginDelete, RejectDelete, queueVars

LEMMA ClaimEffect ==
    ASSUME IInv, NEW w \in Workers, NEW o \in Operations, Claim(w, o)
    PROVE  Ends \/ Begins(w, o)
<1> DEFINE mine   == [IdleWorker EXCEPT !.pc = "load", !.op = o, !.claimed = TRUE]
           giving == [IdleWorker EXCEPT !.pc = "failRow", !.op = o]
           taken  == [ops[o] EXCEPT !.status = "running", !.attempts = @ + 1]
<1>1. workers[w].pc = "idle" /\ ~workers[w].claimed
  BY DEF Claim, IInv, Shape, WorkersShape
<1>2. workers \in [Workers -> WorkerType] /\ ops \in [Operations -> OpType]
  BY DEF IInv, Shape, TypeOK
<1>3. /\ mine.op = o /\ mine.claimed /\ ~giving.claimed
  BY ClaimingWorker
<1>4. taken.status = "running" /\ taken.volume = ops[o].volume
  BY <1>2, ClaimedOp
<1>5. \/ /\ ops[o].status = "pending"
         /\ ops' = [ops EXCEPT ![o] = taken]
         /\ workers' = [workers EXCEPT ![w] = mine]
      \/ /\ workers' = [workers EXCEPT ![w] = giving]
         /\ UNCHANGED ops
      \/ UNCHANGED <<ops, workers>>
  BY DEF Claim
<1> HIDE DEF mine, giving, taken
<1>6. CASE /\ ops[o].status = "pending"
           /\ ops' = [ops EXCEPT ![o] = taken]
           /\ workers' = [workers EXCEPT ![w] = mine]
  <2>1. /\ ops'[o] = taken /\ \A p \in Operations \ {o} : ops'[p] = ops[p]
        /\ workers'[w] = mine
        /\ \A x \in Workers \ {w} : workers'[x] = workers[x]
    BY <1>2, <1>6
  <2>2. \A x \in Workers : workers[x].claimed =>
           workers[x].op # o /\ VolumeOf(x) # ops[o].volume
    <3> TAKE x \in Workers
    <3> HAVE workers[x].claimed
    <3>1. workers[x].op \in Operations /\ OpOf(x).status = "running"
      BY DEF IInv, Shape, WorkersShape, Ownership, ClaimsHold
    <3>2. workers[x].op # o BY <1>6, <3>1 DEF OpOf
    <3> QED
      BY <1>6, <3>1, <3>2 DEF IInv, Ownership, OneActive, Active, OpOf, VolumeOf
  <2> QED BY <1>1, <1>3, <1>4, <1>6, <2>1, <2>2 DEF Begins
<1>7. CASE workers' = [workers EXCEPT ![w] = giving] /\ UNCHANGED ops
  <2>1. /\ workers'[w] = giving
        /\ \A x \in Workers \ {w} : workers'[x] = workers[x]
    BY <1>2, <1>7
  <2> QED BY <1>3, <1>7, <2>1 DEF Ends, Finished
<1> QED BY <1>5, <1>6, <1>7, QuietEnds

LEMMA ProceedEffect ==
    ASSUME IInv, NEW w \in Workers, Proceed(w)
    PROVE  Ends
<1>0. workers[w].pc # "idle"
  BY DEF Proceed, Load, DockerCall, Record, Complete, Requeue, FailRow, FailOp
<1>1. workers[w].op \in Operations BY <1>0, WorkerVolume
<1>2. ASSUME NEW s \in {"done", "failed", "pending"}, NEW verdict,
             s = "pending" => workers[w].claimed,
             SetOp(w, s) \/ UNCHANGED ops, Settle(w, verdict)
      PROVE  Ends
  <2>1. \/ UNCHANGED ops
        \/ /\ \A o \in Operations \ {workers[w].op} : ops'[o] = ops[o]
           /\ ops'[workers[w].op].status = s
           /\ ops'[workers[w].op].volume = OpOf(w).volume
    <3>1. s \in OpStatuses BY DEF OpStatuses
    <3> QED BY <1>1, <1>2, <3>1, SetOpEffect DEF IInv, Shape
  <2>2. /\ \A x \in Workers \ {w} : workers'[x] = workers[x]
        /\ ~workers'[w].claimed
    BY <1>2, SettleEffect, NullTypes DEF IInv, Shape
  <2>3. OpOf(w).status # "none" /\ (workers[w].claimed => OpOf(w).status = "running")
    BY <1>0 DEF IInv, Shape, WorkersShape, Ownership, ClaimsHold, OpOf
  <2>4. \A o \in Operations :
          /\ ops'[o].volume = ops[o].volume
          /\ Finished(o) => Finished(o)'
          /\ ops[o].status = "none" => ops'[o].status = "none"
    BY <1>1, <1>2, <2>1, <2>3 DEF Finished, OpOf
  <2> QED BY <2>2, <2>4 DEF Ends
<1>3. ASSUME NEW pc \in Pcs, NEW verdict \in {"ack", "dead", "retry"},
             Goto(w, pc) \/ GotoFailing(w, pc, verdict), UNCHANGED ops
      PROVE  Ends
  <2>1. /\ \A x \in Workers \ {w} : workers'[x] = workers[x]
        /\ workers'[w].op = workers[w].op /\ workers'[w].claimed = workers[w].claimed
    BY <1>3, GoesOn DEF IInv, Shape
  <2> QED BY <1>3, <2>1 DEF Ends, Finished
<1>4. "complete" \in Pcs /\ "failRow" \in Pcs /\ "failOp" \in Pcs /\ "record" \in Pcs
      /\ "requeue" \in Pcs
  BY DEF Pcs
<1>5. CASE Load(w)
  <2>1. CASE /\ workers' = [workers EXCEPT ![w].pc = "docker",
                                           ![w].name = volumes[VolumeOf(w)].name]
             /\ UNCHANGED ops
    <3> DEFINE named == [workers[w] EXCEPT !.pc = "docker",
                                           !.name = volumes[VolumeOf(w)].name]
    <3>1. workers[w] \in WorkerType /\ volumes[VolumeOf(w)] \in VolumeType
      BY <1>0, WorkerVolume DEF IInv, Shape, TypeOK
    <3>2. PICK n \in Names \cup {None} : n = volumes[VolumeOf(w)].name
      BY <3>1, RowFields
    <3>3. named.op = workers[w].op /\ named.claimed = workers[w].claimed
      BY <3>1, <3>2, NamedWorker
    <3>4. workers' = [workers EXCEPT ![w] = named] BY <2>1
    <3> HIDE DEF named
    <3>5. workers'[w] = named /\ \A x \in Workers \ {w} : workers'[x] = workers[x]
      BY <3>4 DEF IInv, Shape, TypeOK
    <3> QED BY <2>1, <3>3, <3>5 DEF Ends, Finished
  <2>2. \/ /\ workers' = [workers EXCEPT ![w].pc = "docker",
                                         ![w].name = volumes[VolumeOf(w)].name]
           /\ UNCHANGED ops
        \/ SetOp(w, "done") /\ Settle(w, "ack")
        \/ SetOp(w, "failed") /\ Settle(w, "dead")
        \/ SetOp(w, "failed") /\ Settle(w, "retry")
    BY <1>5 DEF Load
  <2> QED BY <1>2, <2>1, <2>2
<1>6. CASE DockerCall(w)
  <2>1. /\ UNCHANGED ops
        /\ Goto(w, "record") \/ Goto(w, "requeue") \/ GotoFailing(w, "failRow", "retry")
    BY <1>6 DEF DockerCall, queueVars
  <2> QED BY <1>3, <1>4, <2>1
<1>7. CASE Record(w)
  <2>1. UNCHANGED ops /\ (Goto(w, "complete") \/ GotoFailing(w, "failRow", "retry"))
    BY <1>7 DEF Record, queueVars
  <2> QED BY <1>3, <1>4, <2>1
<1>8. CASE Complete(w) BY <1>2, <1>8 DEF Complete
<1>9. CASE Requeue(w)
  <2>1. workers[w].claimed BY <1>9, WorkerAtWork DEF Requeue
  <2>2. \/ SetOp(w, "pending") /\ Settle(w, "retry")
        \/ GotoFailing(w, "failRow", "retry") /\ UNCHANGED ops
    BY <1>9 DEF Requeue
  <2> QED BY <1>2, <1>3, <1>4, <2>1, <2>2
<1>10. CASE FailRow(w) BY <1>3, <1>4, <1>10 DEF FailRow, queueVars
<1>11. CASE FailOp(w) BY <1>2, <1>11 DEF FailOp
<1> QED BY <1>5, <1>6, <1>7, <1>8, <1>9, <1>10, <1>11 DEF Proceed

LEMMA NextEffect ==
    ASSUME IInv, Next
    PROVE  \/ Ends
           \/ \E o \in Operations, v \in Volumes : Accepts(o, v)
           \/ \E w \in Workers, o \in Operations : Begins(w, o)
<1>1. CASE Mount \/ Publisher \/ Sync
  BY <1>1, MountQuiet, PublisherQuiet, SyncQuiet, QuietEnds DEF IInv, Quiet
<1>2. CASE \E n \in Names : RemovedOutside(n)
  BY <1>2, OutsideQuiet, QuietEnds DEF IInv, Quiet
<1>3. CASE CrashAndRecover
  <2>1. \A x \in Workers : ~workers'[x].claimed
    BY <1>3, NullTypes DEF CrashAndRecover
  <2> QED BY <1>3, <2>1, RecoveredOps DEF Ends, IInv
<1> QED BY <1>1, <1>2, <1>3, ApiEffect, ClaimEffect, ProceedEffect DEF Next

\* Operations of one volume execute one at a time and never after they ended:
\* every step is a step of SerialExecution or changes nothing of it.
THEOREM Refinement == Spec => RefinesSerialExecution
<1> DEFINE
      owned     == [o \in Operations |-> ops[o].volume]
      executes  == {workers[w].op : w \in {x \in Workers : workers[x].claimed}}
      concluded == {o \in Operations : Finished(o)}
<1>1. Init => Serial!Init
  BY DEF Init, Serial!Init, NoOp, IdleWorker, Finished
<1>2. ASSUME IInv, [Next]_vars
      PROVE  [Serial!Next]_(Serial!vars)
  <2>0. /\ \A o \in Operations : Finished(o) => ops[o].volume # None
        /\ \A o \in Operations :
              o \in Serial!Accepted <=> ops[o].volume # None
    BY <1>2 DEF Serial!Accepted, Finished, IInv, Shape, OpsShape
  <2>1. CASE UNCHANGED vars BY <2>1 DEF vars, Serial!vars, Finished
  <2>2. ASSUME Ends PROVE Serial!End
    <3>1. executes' \in SUBSET executes BY <2>2 DEF Ends
    <3>2. owned' = owned BY <2>2 DEF Ends
    <3>3. \E ended \in SUBSET (Serial!Accepted \ concluded) :
             concluded' = concluded \cup ended
      <4>1. concluded' \ concluded \in SUBSET (Serial!Accepted \ concluded)
        <5>1. \A o \in Operations : Finished(o)' => ops[o].status # "none"
          BY <2>2 DEF Ends, Finished
        <5>2. \A o \in Operations : Finished(o)' => o \in Serial!Accepted
          BY <1>2, <2>0, <5>1 DEF IInv, Shape, OpsShape
        <5> QED BY <5>2
      <4>2. concluded' = concluded \cup (concluded' \ concluded)
        BY <2>2 DEF Ends
      <4> QED BY <4>1, <4>2
    <3> QED BY <3>1, <3>2, <3>3 DEF Serial!End
  <2>3. ASSUME NEW o \in Operations, NEW v \in Volumes, Accepts(o, v)
        PROVE  Serial!Accept(o, v)
    <3>1. owned[o] = None /\ owned' = [owned EXCEPT ![o] = v]
      BY <2>3 DEF Accepts
    <3>2. executes' = executes BY <2>3 DEF Accepts
    <3>3. concluded' = concluded
      <4>1. \A p \in Operations : Finished(p)' <=> Finished(p)
        BY <2>0, <2>3 DEF Accepts, Finished
      <4> QED BY <4>1
    <3>4. o \notin Serial!Accepted BY <2>0, <2>3 DEF Accepts
    <3> QED BY <3>1, <3>2, <3>3, <3>4 DEF Serial!Accept
  <2>4. ASSUME NEW w \in Workers, NEW o \in Operations, Begins(w, o)
        PROVE  Serial!Begin(o)
    <3>1. o \in Serial!Accepted
      BY <1>2, <2>0, <2>4 DEF Begins, IInv, Shape, OpsShape
    <3>2. o \notin concluded \cup executes BY <2>4 DEF Begins, Finished
    <3>3. \A p \in executes : owned[p] # owned[o]
      <4>1. ASSUME NEW x \in Workers, workers[x].claimed
            PROVE  /\ workers[x].op \in Operations
                   /\ ops[workers[x].op].volume # ops[o].volume
        BY <1>2, <2>4, <4>1
           DEF Begins, VolumeOf, OpOf, IInv, Shape, WorkersShape
      <4> QED BY <4>1
    <3>4. executes' = executes \cup {o} BY <2>4 DEF Begins
    <3>5. owned' = owned BY <2>4 DEF Begins
    <3>6. concluded' = concluded BY <2>4 DEF Begins, Finished
    <3> QED BY <3>1, <3>2, <3>3, <3>4, <3>5, <3>6 DEF Serial!Begin
  <2> QED BY <1>2, <2>1, <2>2, <2>3, <2>4, NextEffect DEF Serial!Next
<1> QED BY <1>1, <1>2, Invariant, PTL DEF Spec, RefinesSerialExecution, Serial!Spec

=============================================================================
