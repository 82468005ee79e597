---------------------------- MODULE AdmissionProofs ----------------------------
(***************************************************************************)
(* Proofs about Admission, for every value of its constants: type          *)
(* correctness, that one request at a time is between its count and what   *)
(* it writes, that no owner exceeds a limit, and that what is meant to run *)
(* stays within the quotas and the host.                                   *)
(***************************************************************************)
EXTENDS Admission, FiniteSetTheorems, TLAPS

-----------------------------------------------------------------------------
(* The inductive invariant *)

\* A request is about what its kind is about; only creations are held against
\* limits of their own.
Sound(s) ==
    /\ s.kind = "build" => s.on \in Builds
    /\ s.kind \in {"create", "start", "check", "expose"} => s.on \in Containers
    /\ s.pc = "limits" => s.kind \in {"create", "build"}
    /\ s.pc = "quota" => s.kind # "build"
SessionsSound == \A k \in Sessions : Sound(sessions[k])

\* From its first count to what it writes a request holds the lock of the host.
Admitting(k) == sessions[k].pc \in {"limits", "quota", "host", "save"}
AdmittingHolds == \A k \in Sessions : Admitting(k) => locks[Capacity] = k

\* Only a container that exists has an operation.
OperationsHaveRows == \A c \in Containers : Active(c) => Exists(c)

\* What the event worker is about to write is a state Docker has reported.
ObservedStates == {"created", "running", "exited", "error", "missing"}
FindingsAreStates ==
    watch.pc \in {"event", "write"} => watch.found.status \in ObservedStates

\* A request that has passed its limits is still within them.
Passed(k) ==
    \/ sessions[k].kind = "create" /\ sessions[k].pc \in {"quota", "host", "save"}
    \/ sessions[k].kind = "build" /\ sessions[k].pc \in {"host", "save"}
RoomIsLeft == \A k \in Sessions : Passed(k) => WithinOwnLimits(k)

IInv ==
    /\ TypeOK
    /\ SessionsSound
    /\ AdmittingHolds
    /\ OperationsHaveRows
    /\ FindingsAreStates
    /\ RoomIsLeft
    /\ WithinLimits

-----------------------------------------------------------------------------
(* What is counted is finite *)

LEMMA CountsAreNumbers ==
    ASSUME NEW u
    PROVE  /\ IsFiniteSet(OwnedBy(u)) /\ Cardinality(OwnedBy(u)) \in Nat
           /\ IsFiniteSet(Creates(u)) /\ Cardinality(Creates(u)) \in Nat
           /\ IsFiniteSet(BuildsOf(u)) /\ Cardinality(BuildsOf(u)) \in Nat
<1>1. IsFiniteSet(Containers) /\ IsFiniteSet(Builds) BY AdmissionConstants
<1>2. /\ OwnedBy(u) \in SUBSET Containers
      /\ Creates(u) \in SUBSET Containers
      /\ BuildsOf(u) \in SUBSET Builds
  BY DEF OwnedBy, Creates, BuildsOf, ActiveBuilds
<1>3. IsFiniteSet(OwnedBy(u)) /\ IsFiniteSet(Creates(u)) /\ IsFiniteSet(BuildsOf(u))
  BY <1>1, <1>2, FS_Subset
<1> QED BY <1>3, FS_CardinalityType

\* The same after a step.
LEMMA NumbersAfter ==
    ASSUME NEW u
    PROVE  /\ Cardinality(OwnedBy(u)') \in Nat
           /\ Cardinality(Creates(u)') \in Nat
           /\ Cardinality(BuildsOf(u)') \in Nat
<1>1. IsFiniteSet(Containers) /\ IsFiniteSet(Builds) BY AdmissionConstants
<1>2. /\ OwnedBy(u)' \in SUBSET Containers
      /\ Creates(u)' \in SUBSET Containers
      /\ BuildsOf(u)' \in SUBSET Builds
  BY DEF OwnedBy, Creates, BuildsOf, ActiveBuilds
<1> QED BY <1>1, <1>2, FS_Subset, FS_CardinalityType

\* A step that adds no row, no creation and no build raises no count.
Shrinks ==
    /\ \A c \in Containers : /\ rows'[c] # "none" => rows[c] # "none"
                             /\ ops'[c].kind = "create" => ops[c].kind = "create"
    /\ \A b \in Builds : builds'[b] = "active" => builds[b] = "active"

LEMMA CountsShrink ==
    ASSUME Shrinks, NEW u
    PROVE  /\ Cardinality(OwnedBy(u)') <= Cardinality(OwnedBy(u))
           /\ Cardinality(Creates(u)') <= Cardinality(Creates(u))
           /\ Cardinality(BuildsOf(u)') <= Cardinality(BuildsOf(u))
<1>1. /\ OwnedBy(u)' \in SUBSET OwnedBy(u)
      /\ Creates(u)' \in SUBSET Creates(u)
      /\ BuildsOf(u)' \in SUBSET BuildsOf(u)
  BY DEF Shrinks, OwnedBy, Exists, Creates, BuildsOf, ActiveBuilds
<1> QED BY <1>1, CountsAreNumbers, FS_Subset

-----------------------------------------------------------------------------
(* Steps of a request *)

Pcs == {"idle", "owner", "capacity", "limits", "quota", "host", "save",
        "expose", "unlock"}

\* Goto moves one request and leaves what it is about.
LEMMA GotoKeeps ==
    ASSUME sessions \in [Sessions -> SessionType], NEW k \in Sessions,
           NEW pc \in Pcs, Goto(pc, k)
    PROVE  /\ sessions' \in [Sessions -> SessionType]
           /\ sessions'[k].pc = pc
           /\ sessions'[k].kind = sessions[k].kind
           /\ sessions'[k].on = sessions[k].on
           /\ sessions'[k].seen = sessions[k].seen
           /\ \A j \in Sessions : j # k => sessions'[j] = sessions[j]
<1> DEFINE s == [sessions[k] EXCEPT !.pc = pc]
<1>1. sessions[k] \in SessionType OBVIOUS
<1>2. /\ s \in SessionType /\ s.pc = pc /\ s.kind = sessions[k].kind
      /\ s.on = sessions[k].on /\ s.seen = sessions[k].seen
  BY <1>1 DEF SessionType, Pcs
<1>3. sessions' = [sessions EXCEPT ![k] = s] BY DEF Goto
<1> HIDE DEF s
<1> QED BY <1>2, <1>3

LEMMA IdleType == Idle \in SessionType
BY DEF Idle, SessionType, Unseen, Statuses, DesiredStatuses, Busy

LEMMA BeginKeeps ==
    ASSUME TypeOK, NEW k \in Sessions, NEW kind \in Kinds,
           NEW on \in Containers \cup Builds, NEW pc \in Pcs,
           Begin(k, kind, on, pc)
    PROVE  /\ sessions' \in [Sessions -> SessionType]
           /\ sessions'[k].pc = pc
           /\ sessions'[k].kind = kind
           /\ sessions'[k].on = on
           /\ \A j \in Sessions : j # k => sessions'[j] = sessions[j]
<1> DEFINE read == IF on \in Containers
                   THEN [status |-> rows[on], desired |-> desired[on]] ELSE Unseen
           s == [pc |-> pc, kind |-> kind, on |-> on, seen |-> read]
<1>1. read \in [status : Statuses, desired : DesiredStatuses]
  BY DEF TypeOK, Unseen, Statuses, DesiredStatuses
<1>2. s \in SessionType BY <1>1 DEF SessionType, Pcs
<1>3. sessions' = [sessions EXCEPT ![k] = s] BY DEF Begin
<1>4. s.pc = pc /\ s.kind = kind /\ s.on = on OBVIOUS
<1>5. sessions \in [Sessions -> SessionType] BY DEF TypeOK
<1> HIDE DEF s, read
<1> QED BY <1>2, <1>3, <1>4, <1>5

\* Every request starts before its locks, about something of its kind.
LEMMA AskBegins ==
    ASSUME TypeOK, NEW k \in Sessions, Ask(k)
    PROVE  /\ sessions' \in [Sessions -> SessionType]
           /\ sessions'[k].pc \in {"owner", "capacity", "expose"}
           /\ Sound(sessions'[k])
           /\ \A j \in Sessions : j # k => sessions'[j] = sessions[j]
<1>1. ASSUME NEW c \in Containers, NEW kind \in Kinds \cap {"create", "start", "check", "expose"},
             NEW pc \in {"owner", "expose"}, Begin(k, kind, c, pc)
      PROVE  /\ sessions' \in [Sessions -> SessionType]
             /\ sessions'[k].pc \in {"owner", "capacity", "expose"}
             /\ Sound(sessions'[k])
             /\ \A j \in Sessions : j # k => sessions'[j] = sessions[j]
  <2>1. pc \in Pcs /\ kind \in Kinds /\ c \in Containers \cup Builds BY DEF Pcs
  <2> QED BY <1>1, <2>1, BeginKeeps DEF Sound
<1>2. ASSUME NEW b \in Builds, "build" \in Kinds, Begin(k, "build", b, "capacity")
      PROVE  /\ sessions' \in [Sessions -> SessionType]
             /\ sessions'[k].pc \in {"owner", "capacity", "expose"}
             /\ Sound(sessions'[k])
             /\ \A j \in Sessions : j # k => sessions'[j] = sessions[j]
  <2>1. "capacity" \in Pcs BY DEF Pcs
  <2> QED BY <1>2, <2>1, BeginKeeps DEF Sound
<1>3. CASE \E c \in Containers : "create" \in Kinds /\ AskCreate(k, c)
  BY <1>1, <1>3 DEF AskCreate
<1>4. CASE \E c \in Containers : "start" \in Kinds /\ AskStart(k, c)
  BY <1>1, <1>4 DEF AskStart
<1>5. CASE \E c \in Containers : "check" \in Kinds /\ AskCheck(k, c)
  BY <1>1, <1>5 DEF AskCheck
<1>6. CASE \E c \in Containers : "expose" \in Kinds /\ AskExpose(k, c)
  BY <1>1, <1>6 DEF AskExpose
<1>7. CASE \E b \in Builds : "build" \in Kinds /\ AskBuild(k, b)
  BY <1>2, <1>7 DEF AskBuild
<1> QED BY <1>3, <1>4, <1>5, <1>6, <1>7 DEF Ask

\* The outcomes of the three checks.
LEMMA ChecksGo ==
    ASSUME TypeOK, SessionsSound, NEW k \in Sessions
    PROVE  /\ CheckLimits(k) =>
                  \/ Goto("unlock", k)
                  \/ sessions[k].kind = "create" /\ WithinOwnLimits(k) /\ Goto("quota", k)
                  \/ sessions[k].kind = "build" /\ WithinOwnLimits(k) /\ Goto("host", k)
           /\ CheckQuota(k) => Goto("unlock", k) \/ Goto("host", k)
           /\ CheckHost(k) => Goto("unlock", k) \/ Goto("save", k)
           /\ LockCapacity(k) =>
                  \/ sessions[k].kind \in {"create", "build"} /\ Goto("limits", k)
                  \/ sessions[k].kind \notin {"create", "build"} /\ Goto("quota", k)
<1>1. CheckLimits(k) =>
          \/ Goto("unlock", k)
          \/ sessions[k].kind = "create" /\ WithinOwnLimits(k) /\ Goto("quota", k)
          \/ sessions[k].kind = "build" /\ WithinOwnLimits(k) /\ Goto("host", k)
  <2> SUFFICES ASSUME CheckLimits(k)
               PROVE  \/ Goto("unlock", k)
                      \/ sessions[k].kind = "create" /\ WithinOwnLimits(k) /\ Goto("quota", k)
                      \/ sessions[k].kind = "build" /\ WithinOwnLimits(k) /\ Goto("host", k)
    OBVIOUS
  <2>1. sessions[k].kind \in {"create", "build"}
    BY DEF CheckLimits, At, SessionsSound, Sound
  <2>2. CASE ~WithinOwnLimits(k) BY <2>1, <2>2 DEF CheckLimits, Unlocking, Goto
  <2>3. CASE WithinOwnLimits(k) /\ sessions[k].kind = "create"
    BY <2>3 DEF CheckLimits, Goto
  <2>4. CASE WithinOwnLimits(k) /\ sessions[k].kind = "build"
    BY <2>4 DEF CheckLimits, Goto
  <2> QED BY <2>1, <2>2, <2>3, <2>4
<1>2. CheckQuota(k) => Goto("unlock", k) \/ Goto("host", k)
  BY DEF CheckQuota, Unlocking, Goto
<1>3. CheckHost(k) => Goto("unlock", k) \/ Goto("save", k)
  BY DEF CheckHost, Unlocking, Goto
<1>4. LockCapacity(k) =>
          \/ sessions[k].kind \in {"create", "build"} /\ Goto("limits", k)
          \/ sessions[k].kind \notin {"create", "build"} /\ Goto("quota", k)
  BY DEF LockCapacity, FirstCheck, Goto
<1> QED BY <1>1, <1>2, <1>3, <1>4

-----------------------------------------------------------------------------
(* Type correctness *)

LEMMA QueueType ==
    ASSUME TypeOK, NEW c \in Containers,
           NEW kind \in {"create", "start", "stop", "delete", "expose"},
           NEW status \in Statuses, NEW wanted \in DesiredStatuses, NEW prev \in Statuses,
           Queue(c, kind, status, wanted, prev)
    PROVE  /\ rows' \in [Containers -> Statuses]
           /\ desired' \in [Containers -> DesiredStatuses]
           /\ ops' \in [Containers -> OpType]
<1>1. [kind |-> kind, stage |-> "queued", prev |-> prev] \in OpType BY DEF OpType
<1> QED BY <1>1 DEF TypeOK, Queue

LEMMA NoOpType == NoOp \in OpType
BY DEF NoOp, OpType, Statuses

LEMMA IncrementType ==
    ASSUME NEW f \in [Spendings -> Nat], NEW x \in Spendings
    PROVE  [f EXCEPT ![x] = @ + 1] \in [Spendings -> Nat]
<1>1. f[x] + 1 \in Nat OBVIOUS
<1> QED BY <1>1

LEMMA SpendType ==
    ASSUME TypeOK,
           Request \/ Fault \/ Failure \/ Spend("syncs") \/ Spend("vain") \/ Spend("overtaken")
    PROVE  spent' \in [Spendings -> Nat]
<1>1. PICK what \in Spendings : Spend(what)
  BY DEF Request, Fault, Failure, Spendings
<1>2. spent \in [Spendings -> Nat] BY DEF TypeOK
<1> QED BY <1>1, <1>2, IncrementType DEF Spend

LEMMA CountedType ==
    ASSUME TypeOK, NEW changed \in BOOLEAN, NEW stale \in BOOLEAN
    PROVE  Counted(changed, stale) \in [Spendings -> Nat]
<1>1. spent \in [Spendings -> Nat] BY DEF TypeOK
<1>2. spent["config"] \in Nat /\ spent["overtaken"] \in Nat BY <1>1 DEF Spendings
<1>3. DEFINE config == IF changed THEN spent["config"] + 1 ELSE spent["config"]
             overtaken == IF stale THEN spent["overtaken"] + 1 ELSE spent["overtaken"]
<1>4. config \in Nat /\ overtaken \in Nat BY <1>2
<1>5. Counted(changed, stale) = [[spent EXCEPT !["config"] = config] EXCEPT !["overtaken"] = overtaken]
  BY <1>1 DEF Counted, Spendings
<1> HIDE DEF config, overtaken
<1> QED BY <1>1, <1>4, <1>5

LEMMA RequestedType ==
    ASSUME TypeOK, RebalanceRequested
    PROVE  balance' \in BalanceType
BY DEF TypeOK, RebalanceRequested, OneSlot, BalanceType

LEMMA StrayType ==
    ASSUME TypeOK, Stray
    PROVE  strays' \subseteq Containers
BY DEF TypeOK, Stray, Wanted

-----------------------------------------------------------------------------
(* Types of what Docker and the event worker change *)

Actions == {"start", "die", "break", "destroy", "new", "other"}

LEMMA ReportType ==
    ASSUME TypeOK, NEW c \in Containers, NEW action \in Actions, Report(c, action)
    PROVE  events' \in Seq(EventType)
<1> DEFINE e == [on |-> c, action |-> action]
<1>1. e \in EventType BY DEF EventType, Actions
<1>2. events \in Seq(EventType) /\ events' = Append(events, e) BY DEF TypeOK, Report
<1> HIDE DEF e
<1> QED BY <1>1, <1>2

LEMMA DockerType ==
    ASSUME TypeOK, NEW c \in Containers, NEW state \in EngineStates, NEW action \in Actions,
           Docker(c, state, action)
    PROVE  engine' \in [Containers -> EngineStates] /\ events' \in Seq(EventType)
BY ReportType DEF Docker, TypeOK

LEMMA EngineActsType ==
    ASSUME TypeOK, NEW c \in Containers, Active(c), EngineActs(c)
    PROVE  engine' \in [Containers -> EngineStates] /\ events' \in Seq(EventType)
<1>1. ops[c].kind \in {"create", "start", "stop", "delete", "expose"}
  BY DEF Active, TypeOK, OpType
<1>2. \/ engine' = [engine EXCEPT ![c] = "created"] /\ UNCHANGED events
      \/ UNCHANGED <<engine, events>>
      \/ Docker(c, "up", "start") \/ Docker(c, "exited", "die") \/ Docker(c, "broken", "break")
      \/ Docker(c, "gone", "destroy")
      \/ UNCHANGED engine /\ Report(c, "new")
  BY <1>1 DEF EngineActs
<1> QED BY <1>2, DockerType, ReportType DEF EngineStates, Actions, TypeOK

LEMMA RenamedType ==
    ASSUME TypeOK, NEW c \in Containers
    PROVE  Renamed(c) \in Seq(EventType)
<1> DEFINE e(i) == [on |-> c, action |-> IF events[i].action = "new" THEN "start" ELSE "other"]
           f(i) == IF events[i].on # c THEN events[i] ELSE e(i)
<1>1. PICK n \in Nat : events \in [1 .. n -> EventType]
  <2>1. events \in Seq(EventType) BY DEF TypeOK
  <2> QED BY <2>1
<1>2. DOMAIN events = 1 .. n BY <1>1
<1>3. ASSUME NEW i \in 1 .. n PROVE f(i) \in EventType
  <2>1. e(i) \in EventType BY DEF EventType
  <2>2. events[i] \in EventType BY <1>1
  <2> HIDE DEF e
  <2> QED BY <2>1, <2>2
<1>4. Renamed(c) = [i \in 1 .. n |-> f(i)] BY <1>2 DEF Renamed
<1> HIDE DEF f
<1>5. [i \in 1 .. n |-> f(i)] \in [1 .. n -> EventType] BY <1>3
<1> QED BY <1>4, <1>5

LEMMA ReplacesType ==
    ASSUME TypeOK, NEW c \in Containers, NEW state \in EngineStates, NEW action \in Actions,
           Replaces(c, state, action)
    PROVE  /\ engine' \in [Containers -> EngineStates]
           /\ events' \in Seq(EventType)
           /\ watch' \in WatchType
           /\ watch'.pc = watch.pc /\ watch'.found = watch.found
<1> DEFINE e == [on |-> c, action |-> action]
           earlier == Renamed(c)
           old == (watch.on = c) \/ c \in watch.left
           snapshot == [watch.seen[c] EXCEPT !.old = old]
<1>0. watch \in WatchType BY DEF TypeOK
<1>1. e \in EventType BY DEF EventType, Actions
<1>2. events' = Append(earlier, e) BY DEF Replaces
<1>3. earlier \in Seq(EventType) BY RenamedType
<1>4. watch.seen \in [Containers -> SnapshotType] BY <1>0 DEF WatchType
<1>5. old \in BOOLEAN /\ watch.seen[c] \in SnapshotType BY <1>4
<1>6. watch' = [watch EXCEPT !.seen = [watch.seen EXCEPT ![c] = [watch.seen[c] EXCEPT !.old = old]]]
  BY DEF Replaces
<1> HIDE DEF e, earlier, old
<1>7. events' \in Seq(EventType) BY <1>1, <1>2, <1>3
<1>8. snapshot \in SnapshotType BY <1>5 DEF SnapshotType
<1>9. watch' = [watch EXCEPT !.seen = [watch.seen EXCEPT ![c] = snapshot]] BY <1>6
<1> HIDE DEF snapshot
<1>10. [watch.seen EXCEPT ![c] = snapshot] \in [Containers -> SnapshotType] BY <1>4, <1>8
<1>11. watch' \in WatchType /\ watch'.pc = watch.pc /\ watch'.found = watch.found
  BY <1>0, <1>9, <1>10 DEF WatchType
<1>12. engine' \in [Containers -> EngineStates] BY DEF Replaces, TypeOK
<1> QED BY <1>7, <1>11, <1>12

LEMMA WatchingType ==
    ASSUME NEW pc \in {"idle", "event", "sync", "inspect", "write"}
    PROVE  Watching(pc) \in WatchType /\ Watching(pc).pc = pc
BY DEF Watching, WatchType, SnapshotType, FoundType, Unlisted, NothingFound, Statuses, DesiredStatuses

LEMMA WriteRowType ==
    ASSUME TypeOK, NEW found \in FoundType, NEW c, WriteRow(found, c)
    PROVE  /\ rows' \in [Containers -> Statuses]
           /\ desired' \in [Containers -> DesiredStatuses]
           /\ strays' \subseteq Containers
<1>1. found.status \in Statuses BY DEF FoundType
<1>2. rows' \in [Containers -> Statuses] BY <1>1 DEF WriteRow, TypeOK
<1>3. desired' \in [Containers -> DesiredStatuses] BY DEF WriteRow, TypeOK, DesiredStatuses
<1>4. strays' \subseteq Containers BY StrayType DEF WriteRow
<1> QED BY <1>2, <1>3, <1>4

LEMMA RowDoneType ==
    ASSUME TypeOK, NEW c, NEW changed \in BOOLEAN, RowDone(c, changed)
    PROVE  watch' \in WatchType /\ balance' \in BalanceType /\ watch'.pc \in {"idle", "sync"}
<1>1. CASE watch.left = {c}
  <2>1. watch' = Watching("idle") /\ (RebalanceRequested \/ UNCHANGED balance)
    BY <1>1 DEF RowDone
  <2> QED BY <2>1, WatchingType, RequestedType DEF TypeOK
<1>2. CASE watch.left # {c}
  <2> DEFINE left == watch.left \ {c}
             seen == [watch.seen EXCEPT ![c] = Unlisted]
             any == watch.changed \/ changed
  <2>0. watch \in WatchType BY DEF TypeOK
  <2>1. /\ watch' = [Watching("sync") EXCEPT !.left = left, !.seen = seen, !.changed = any]
        /\ UNCHANGED balance
    BY <1>2 DEF RowDone
  <2>2. Unlisted \in SnapshotType BY DEF Unlisted, SnapshotType, Statuses, DesiredStatuses
  <2>3. watch.seen \in [Containers -> SnapshotType] /\ watch.left \subseteq Containers
    BY <2>0 DEF WatchType
  <2>4. left \subseteq Containers /\ seen \in [Containers -> SnapshotType] /\ any \in BOOLEAN
    BY <2>2, <2>3
  <2> HIDE DEF left, seen, any
  <2>5. watch' \in WatchType /\ watch'.pc = "sync"
    BY <2>1, <2>4, WatchingType DEF WatchType
  <2> QED BY <2>1, <2>5 DEF TypeOK
<1> QED BY <1>1, <1>2

LEMMA InspectedType ==
    ASSUME TypeOK, NEW c
    PROVE  Inspected(c) \in FoundType /\ Inspected(c).status \in ObservedStates
BY DEF Inspected, FoundType, ObservedStates, Statuses

Watches == WatcherStep \/ ListContainers

LEMMA WatcherTypeStep ==
    ASSUME TypeOK, Watches
    PROVE  TypeOK'
<1> USE DEF containers, balancing
<1>0. watch \in WatchType BY DEF TypeOK
<1>1. CASE TakeEvent
  <2> DEFINE e == Head(events)
             found == [status |-> EventStatus(e.on, e.action), ended |-> e.action = "die"]
  <2>1. e \in EventType /\ events' \in Seq(EventType)
    <3>1. events \in Seq(EventType) /\ events # <<>> /\ events' = Tail(events)
      BY <1>1 DEF TakeEvent, TypeOK
    <3> QED BY <3>1
  <2>2. found \in FoundType BY DEF FoundType, EventStatus, Statuses
  <2>3. \/ /\ watch' = [watch EXCEPT !.pc = "event", !.on = e.on, !.found = found]
           /\ UNCHANGED <<rows, desired, strays, balance>>
        \/ WriteRow(found, e.on) /\ RebalanceRequested /\ UNCHANGED watch
        \/ RebalanceRequested /\ UNCHANGED <<rows, desired, strays, watch>>
    BY <1>1 DEF TakeEvent
  <2>4. e.on \in Containers BY <2>1 DEF EventType
  <2>5. UNCHANGED <<ops, engine, builds, locks, sessions, applied, spent>> BY <1>1 DEF TakeEvent
  <2> HIDE DEF e, found
  <2>6. /\ watch' \in WatchType /\ balance' \in BalanceType
        /\ rows' \in [Containers -> Statuses] /\ desired' \in [Containers -> DesiredStatuses]
        /\ strays' \subseteq Containers
    <3>1. CASE /\ watch' = [watch EXCEPT !.pc = "event", !.on = e.on, !.found = found]
               /\ UNCHANGED <<rows, desired, strays, balance>>
      BY <1>0, <2>2, <2>4, <3>1 DEF WatchType, TypeOK
    <3>2. CASE WriteRow(found, e.on) /\ RebalanceRequested /\ UNCHANGED watch
      BY <1>0, <2>2, <3>2, WriteRowType, RequestedType
    <3>3. CASE RebalanceRequested /\ UNCHANGED <<rows, desired, strays, watch>>
      BY <1>0, <3>3, RequestedType DEF TypeOK
    <3> QED BY <2>3, <3>1, <3>2, <3>3
  <2> QED BY <2>1, <2>5, <2>6 DEF TypeOK
<1>2. CASE WriteEvent
  <2>1. watch.found \in FoundType BY <1>0 DEF WatchType
  <2>2. /\ UNCHANGED <<rows, desired, strays>> \/ WriteRow(watch.found, watch.on)
        /\ RebalanceRequested /\ watch' = Watching("idle")
        /\ UNCHANGED <<ops, engine, events, builds, locks, sessions, applied, spent>>
    BY <1>2 DEF WriteEvent
  <2>3. /\ rows' \in [Containers -> Statuses] /\ desired' \in [Containers -> DesiredStatuses]
        /\ strays' \subseteq Containers
    BY <2>1, <2>2, WriteRowType DEF TypeOK
  <2>4. balance' \in BalanceType BY <2>2, RequestedType
  <2>5. watch' \in WatchType BY <2>2, WatchingType
  <2> QED BY <2>2, <2>3, <2>4, <2>5 DEF TypeOK
<1>3. CASE ListContainers
  <2> DEFINE seen == Snapshot(Candidates)
  <2>1. seen \in [Containers -> SnapshotType]
    BY DEF Snapshot, SnapshotType, Unlisted, Statuses, DesiredStatuses, TypeOK
  <2>2. Candidates \subseteq Containers BY DEF Candidates
  <2>3. watch' = [Watching("sync") EXCEPT !.left = Candidates, !.seen = seen]
    BY <1>3 DEF ListContainers
  <2> HIDE DEF seen
  <2>4. watch' \in WatchType BY <2>1, <2>2, <2>3, WatchingType DEF WatchType
  <2> QED BY <1>3, <2>4, SpendType DEF ListContainers, TypeOK
<1>4. CASE WriteObserved
  <2>1. watch.found \in FoundType BY <1>0 DEF WatchType
  <2> DEFINE changed == \/ watch.found.status \in {"running", "missing"}
                        \/ watch.seen[watch.on].status = "running"
  <2>2. /\ WriteRow(watch.found, watch.on) /\ RowDone(watch.on, changed)
        /\ UNCHANGED spent \/ Spend("overtaken")
        /\ UNCHANGED <<ops, engine, events, builds, locks, sessions, applied>>
    BY <1>4 DEF WriteObserved
  <2>3. changed \in BOOLEAN OBVIOUS
  <2> HIDE DEF changed
  <2>4. watch' \in WatchType /\ balance' \in BalanceType BY <2>2, <2>3, RowDoneType
  <2>5. /\ rows' \in [Containers -> Statuses] /\ desired' \in [Containers -> DesiredStatuses]
        /\ strays' \subseteq Containers
    BY <2>1, <2>2, WriteRowType
  <2>6. spent' \in [Spendings -> Nat] BY <2>2, SpendType DEF TypeOK
  <2> QED BY <2>2, <2>4, <2>5, <2>6 DEF TypeOK
<1>5. ASSUME NEW c \in Containers, CheckActive(c) PROVE TypeOK'
  <2>1. RowDone(c, FALSE) \/ (watch' = [watch EXCEPT !.pc = "inspect", !.on = c] /\ UNCHANGED balance)
    BY <1>5 DEF CheckActive
  <2>2. watch' \in WatchType /\ balance' \in BalanceType
    BY <1>0, <2>1, RowDoneType DEF WatchType, TypeOK
  <2> QED BY <1>5, <2>2 DEF CheckActive, TypeOK
<1>6. ASSUME NEW c \in Containers, InspectContainer(c) PROVE TypeOK'
  <2> DEFINE found == Inspected(c)
  <2>0. found \in FoundType BY InspectedType
  <2>1. \/ RowDone(c, FALSE)
        \/ watch' = [watch EXCEPT !.pc = "write", !.on = c, !.found = found] /\ UNCHANGED balance
    BY <1>6 DEF InspectContainer
  <2> HIDE DEF found
  <2>2. CASE RowDone(c, FALSE)
    BY <1>6, <2>2, RowDoneType DEF InspectContainer, TypeOK
  <2>3. CASE watch' = [watch EXCEPT !.pc = "write", !.on = c, !.found = found] /\ UNCHANGED balance
    <3>1. watch' \in WatchType BY <1>0, <2>0, <2>3 DEF WatchType
    <3> QED BY <1>6, <2>3, <3>1 DEF InspectContainer, TypeOK
  <2> QED BY <2>1, <2>2, <2>3
<1> QED BY <1>1, <1>2, <1>3, <1>4, <1>5, <1>6 DEF Watches, WatcherStep

-----------------------------------------------------------------------------
(* Types of what requests, operations and the rebalancer change *)

LEMMA SessionTypeStep ==
    ASSUME TypeOK, SessionsSound, NEW k \in Sessions,
           Ask(k) \/ SessionStep(k) \/ LockFails(k) \/ CheckFails(k)
    PROVE  TypeOK'
<1> USE DEF containers, balancing
<1> sessions \in [Sessions -> SessionType] BY DEF TypeOK
<1>1. CASE Ask(k)
  BY <1>1, AskBegins, SpendType DEF TypeOK, Ask
<1>2. CASE LockOwner(k)
  <2>1. sessions' \in [Sessions -> SessionType]
    BY <1>2, GotoKeeps DEF LockOwner, Pcs
  <2> QED BY <1>2, <2>1 DEF LockOwner, TypeOK
<1>3. CASE LockCapacity(k)
  <2>1. sessions' \in [Sessions -> SessionType]
    BY <1>3, ChecksGo, GotoKeeps DEF Pcs
  <2> QED BY <1>3, <2>1 DEF LockCapacity, TypeOK
<1>4. CASE CheckLimits(k) \/ CheckQuota(k) \/ CheckHost(k)
  <2>1. sessions' \in [Sessions -> SessionType]
    BY <1>4, ChecksGo, GotoKeeps DEF Pcs
  <2> QED BY <1>4, <2>1 DEF CheckLimits, CheckQuota, CheckHost, TypeOK
<1>5. CASE LockFails(k) \/ CheckFails(k)
  <2>1. sessions' \in [Sessions -> SessionType]
    BY <1>5, GotoKeeps DEF LockFails, CheckFails, Unlocking, Pcs
  <2> QED BY <1>5, <2>1 DEF LockFails, CheckFails, TypeOK
<1>6. CASE SaveContainer(k)
  <2>1. sessions' \in [Sessions -> SessionType]
    BY <1>6, GotoKeeps DEF SaveContainer, Pcs
  <2>2. Subject(k) \in Containers
    BY <1>6 DEF SaveContainer, Subject, SessionsSound, Sound
  <2>3. /\ rows' \in [Containers -> Statuses]
        /\ desired' \in [Containers -> DesiredStatuses]
        /\ ops' \in [Containers -> OpType]
    <3>1. CASE ~Fresh(Subject(k)) BY <1>6, <3>1 DEF SaveContainer, TypeOK
    <3>2. CASE Fresh(Subject(k))
      BY <1>6, <2>2, <3>2, QueueType DEF SaveContainer, Statuses, DesiredStatuses
    <3> QED BY <3>1, <3>2
  <2> QED BY <1>6, <2>1, <2>3 DEF SaveContainer, TypeOK
<1>7. CASE QueueStart(k)
  <2>1. sessions' \in [Sessions -> SessionType]
    BY <1>7, GotoKeeps DEF QueueStart, Pcs
  <2>2. Subject(k) \in Containers
    BY <1>7 DEF QueueStart, Subject, SessionsSound, Sound
  <2>3. sessions[k].seen.status \in Statuses BY DEF SessionType
  <2>4. /\ rows' \in [Containers -> Statuses]
        /\ desired' \in [Containers -> DesiredStatuses]
        /\ ops' \in [Containers -> OpType]
    <3>1. CASE Active(Subject(k)) \/ ~Exists(Subject(k))
      BY <1>7, <3>1 DEF QueueStart, TypeOK
    <3>2. CASE ~(Active(Subject(k)) \/ ~Exists(Subject(k)))
      <4>1. Queue(Subject(k), "start", "starting", "running", sessions[k].seen.status)
        BY <1>7, <3>2 DEF QueueStart
      <4> QED BY <2>2, <2>3, <4>1, QueueType DEF Statuses, Busy, DesiredStatuses
    <3> QED BY <3>1, <3>2
  <2>5. strays' \subseteq Containers BY <1>7 DEF QueueStart, TypeOK
  <2> QED BY <1>7, <2>1, <2>4, <2>5 DEF QueueStart, TypeOK
<1>8. CASE SaveBuild(k)
  <2>1. sessions' \in [Sessions -> SessionType]
    BY <1>8, GotoKeeps DEF SaveBuild, Pcs
  <2> QED BY <1>8, <2>1 DEF SaveBuild, TypeOK
<1>9. CASE QueueExpose(k)
  <2>1. sessions' \in [Sessions -> SessionType] BY <1>9, IdleType DEF QueueExpose
  <2>2. CASE Active(Subject(k)) \/ ~Exists(Subject(k))
    BY <1>9, <2>1, <2>2 DEF QueueExpose, TypeOK
  <2>3. CASE ~(Active(Subject(k)) \/ ~Exists(Subject(k)))
    <3>1. /\ Queue(Subject(k), "expose", "exposing", sessions[k].seen.desired,
                   sessions[k].seen.status)
          /\ Stray
          /\ UNCHANGED <<engine, events, watch, builds, locks, balancing, spent>>
      BY <1>9, <2>3 DEF QueueExpose
    <3>2. sessions[k].seen.status \in Statuses /\ sessions[k].seen.desired \in DesiredStatuses
      BY DEF SessionType
    <3>3. strays' \subseteq Containers BY <3>1, StrayType
    <3>4. ASSUME Subject(k) \in Containers
          PROVE  /\ rows' \in [Containers -> Statuses]
                 /\ desired' \in [Containers -> DesiredStatuses]
                 /\ ops' \in [Containers -> OpType]
      BY <3>1, <3>2, <3>4, QueueType DEF Statuses, Busy
    <3>5. ASSUME Subject(k) \notin Containers
          PROVE  /\ rows' \in [Containers -> Statuses]
                 /\ desired' \in [Containers -> DesiredStatuses]
                 /\ ops' \in [Containers -> OpType]
      BY <3>1, <3>5 DEF Queue, TypeOK
    <3> QED BY <2>1, <3>1, <3>3, <3>4, <3>5 DEF TypeOK
  <2> QED BY <2>2, <2>3
<1>10. CASE Unlock(k)
  BY <1>10, IdleType DEF Unlock, TypeOK
<1> QED BY <1>1, <1>2, <1>3, <1>4, <1>5, <1>6, <1>7, <1>8, <1>9, <1>10
        DEF SessionStep, Save

\* What befalls one container.
OfContainer(c) ==
    \/ AskStop(c) \/ AskDelete(c) \/ AskBlank(c) \/ ContainerStep(c) \/ OpFails(c)
    \/ Ends(c) \/ Vanishes(c) \/ InspectFails(c) \/ ApplyFails(c)

LEMMA AfterUpdateType ==
    ASSUME TypeOK, NEW c, AfterUpdate(c)
    PROVE  balance' \in BalanceType
<1> DEFINE left == balance.left \ {c}
<1>1. balance \in BalanceType /\ Nothing \in ShareType
  BY DEF TypeOK, Nothing, ShareType
<1>2. left \subseteq Containers BY <1>1 DEF BalanceType
<1>3. \/ balance' = [balance EXCEPT !.pc = "idle", !.seen = Nothing, !.left = {}]
      \/ balance' = [balance EXCEPT !.left = left]
  BY DEF AfterUpdate
<1> HIDE DEF left
<1> QED BY <1>1, <1>2, <1>3 DEF BalanceType

LEMMA ContainerTypeStep ==
    ASSUME TypeOK, NEW c \in Containers, OfContainer(c)
    PROVE  TypeOK'
<1> USE DEF containers, balancing
<1>0. ops[c].prev \in Statuses /\ rows[c] \in Statuses BY DEF TypeOK, OpType
<1>1. CASE AskStop(c)
  <2>1. Queue(c, "stop", "stopping", "exited", rows[c]) BY <1>1 DEF AskStop
  <2>3. /\ rows' \in [Containers -> Statuses]
        /\ desired' \in [Containers -> DesiredStatuses]
        /\ ops' \in [Containers -> OpType]
    BY <1>0, <2>1, QueueType DEF Statuses, Busy, DesiredStatuses
  <2> QED BY <1>1, <2>3, SpendType DEF AskStop, TypeOK
<1>2. CASE AskDelete(c)
  <2>2. /\ rows' \in [Containers -> Statuses]
        /\ desired' \in [Containers -> DesiredStatuses]
        /\ ops' \in [Containers -> OpType]
    <3>1. \/ /\ rows' = [rows EXCEPT ![c] = "none"] /\ desired' = [desired EXCEPT ![c] = "none"]
             /\ ops' = [ops EXCEPT ![c] = NoOp]
          \/ Queue(c, "delete", "deleting", "deleting", rows[c])
      BY <1>2 DEF AskDelete
    <3>2. /\ rows \in [Containers -> Statuses] /\ desired \in [Containers -> DesiredStatuses]
          /\ ops \in [Containers -> OpType]
      BY DEF TypeOK
    <3>3. CASE Queue(c, "delete", "deleting", "deleting", rows[c])
      BY <1>0, <3>3, QueueType DEF Statuses, Busy, DesiredStatuses
    <3> QED BY <3>1, <3>2, <3>3, NoOpType DEF Statuses, DesiredStatuses
  <2>3. engine' \in [Containers -> EngineStates]
    <3>1. engine' = [engine EXCEPT ![c] = "none"] \/ UNCHANGED engine BY <1>2 DEF AskDelete
    <3> QED BY <3>1 DEF TypeOK, EngineStates
  <2>4. spent' \in [Spendings -> Nat] BY <1>2, SpendType DEF AskDelete
  <2>5. UNCHANGED <<events, watch, strays, builds, locks, sessions, balancing>>
    BY <1>2 DEF AskDelete
  <2> QED BY <2>2, <2>3, <2>4, <2>5 DEF TypeOK
<1>3. CASE Acts(c)
  <2>1. ops' \in [Containers -> OpType]
    <3> DEFINE stage == IF ops[c].kind = "expose" /\ Starts(c) THEN "started" ELSE "acted"
               op == [ops[c] EXCEPT !.stage = stage]
    <3>1. ops \in [Containers -> OpType] /\ stage \in {"acted", "started"} BY DEF TypeOK
    <3>2. ops' = [ops EXCEPT ![c] = op] BY <1>3 DEF Acts
    <3> HIDE DEF stage
    <3>3. op \in OpType BY <3>1 DEF OpType
    <3> HIDE DEF op
    <3> QED BY <3>1, <3>2, <3>3
  <2>2. engine' \in [Containers -> EngineStates] /\ events' \in Seq(EventType)
    BY <1>3, EngineActsType DEF Acts
  <2> QED BY <1>3, <2>1, <2>2 DEF Acts, TypeOK
<1>4. CASE OpDone(c)
  <2>1. ops[c].kind \in {"start", "stop", "delete", "expose", "create"}
    BY <1>4 DEF OpDone, Active, TypeOK, OpType
  <2>2. Ended(c) \in Statuses BY <1>0, <2>1 DEF Ended, Statuses
  <2>3. balance' \in BalanceType
    BY <1>4, RequestedType DEF OpDone, TypeOK
  <2>4. desired' \in [Containers -> DesiredStatuses]
    BY <1>4 DEF OpDone, TypeOK, DesiredStatuses
  <2>5. /\ engine' \in [Containers -> EngineStates] /\ events' \in Seq(EventType)
        /\ watch' \in WatchType
    <3>1. \/ UNCHANGED <<engine, events, watch>>
          \/ Replaces(c, "up", "other") \/ Replaces(c, "created", "other")
      BY <1>4 DEF OpDone
    <3> QED BY <3>1, ReplacesType DEF TypeOK, EngineStates, Actions
  <2>6. strays' \subseteq Containers BY <1>4, StrayType DEF OpDone
  <2> QED BY <1>4, <2>2, <2>3, <2>4, <2>5, <2>6, NoOpType DEF OpDone, TypeOK
<1>5. CASE FindsNothing(c)
  BY <1>5, NoOpType, SpendType DEF FindsNothing, TypeOK, Statuses
<1>6. CASE OpFails(c)
  <2>2. rows' \in [Containers -> Statuses]
    BY <1>0, <1>6 DEF OpFails, TypeOK, Statuses
  <2>3. /\ engine' \in [Containers -> EngineStates] /\ events' \in Seq(EventType)
        /\ watch' \in WatchType
    <3>1. \/ /\ engine' = [engine EXCEPT ![c] = "none"] \/ UNCHANGED engine
             /\ UNCHANGED <<events, watch>>
          \/ Replaces(c, "gone", "destroy")
      BY <1>6 DEF OpFails
    <3> QED BY <3>1, ReplacesType DEF TypeOK, EngineStates, Actions
  <2>4. strays' \subseteq Containers BY <1>6, StrayType DEF OpFails
  <2> QED BY <1>6, <2>2, <2>3, <2>4, NoOpType, SpendType DEF OpFails, TypeOK
<1>7. CASE Ends(c) \/ Vanishes(c)
  <2>1. Docker(c, "exited", "die") \/ Docker(c, "broken", "break") \/ Docker(c, "gone", "destroy")
    BY <1>7 DEF Ends, Vanishes
  <2>2. engine' \in [Containers -> EngineStates] /\ events' \in Seq(EventType)
    BY <2>1, DockerType DEF EngineStates, Actions
  <2> QED BY <1>7, <2>2, SpendType DEF Ends, Vanishes, TypeOK
<1>8. CASE AskBlank(c)
  BY <1>8, SpendType DEF AskBlank, TypeOK, Statuses
<1>9. CASE InspectFails(c)
  <2>1. watch' \in WatchType /\ balance' \in BalanceType
    BY <1>9, RowDoneType DEF InspectFails
  <2> QED BY <1>9, <2>1, SpendType DEF InspectFails, TypeOK
<1>10. CASE ApplyFails(c)
  <2>1. balance' \in BalanceType BY <1>10, AfterUpdateType DEF ApplyFails
  <2> QED BY <1>10, <2>1, SpendType DEF ApplyFails, TypeOK
<1> QED BY <1>1, <1>2, <1>3, <1>4, <1>5, <1>6, <1>7, <1>8, <1>9, <1>10
        DEF OfContainer, ContainerStep

\* The rebalancer, the end of a build and a restart.
LEMMA OtherTypeStep ==
    ASSUME TypeOK,
           \/ \E b \in Builds : BuildEnds(b)
           \/ Rebalance \/ ReadFails \/ ConfigStep \/ Restart
    PROVE  TypeOK'
<1> USE DEF containers, balancing
<1>1. Nothing \in ShareType BY DEF Nothing, ShareType
<1>2. CASE \E b \in Builds : BuildEnds(b) BY <1>2 DEF BuildEnds, TypeOK
<1>3. CASE TakeRequest
  <2>1. [Nothing EXCEPT !.config = spent.config] \in ShareType
    BY DEF TypeOK, Nothing, ShareType, Spendings
  <2>2. balance' \in BalanceType BY <1>3, <2>1 DEF TakeRequest, BalanceType
  <2> QED BY <1>3, <2>2 DEF TakeRequest, TypeOK
<1>4. CASE ReadRunning
  <2>1. balance' \in BalanceType
    BY <1>1, <1>4 DEF ReadRunning, TypeOK, BalanceType, Running, ShareType
  <2> QED BY <1>4, <2>1 DEF ReadRunning, TypeOK
<1>5. ASSUME NEW c \in Containers, Apply(c) PROVE TypeOK'
  <2>1. balance' \in BalanceType BY <1>5, AfterUpdateType DEF Apply
  <2>2. applied' \in [Containers -> ShareType]
    BY <1>5 DEF Apply, TypeOK, BalanceType
  <2> QED BY <1>5, <2>1, <2>2 DEF Apply, TypeOK
<1>6. CASE ConfigStep
  <2>1. CASE AskRebalance
    BY <2>1, RequestedType DEF AskRebalance, TypeOK
  <2>2. ASSUME NEW changed \in BOOLEAN, NEW stale \in BOOLEAN, Reconfigure(changed, stale)
        PROVE  TypeOK'
    BY <2>2, CountedType DEF Reconfigure, TypeOK
  <2> QED BY <1>6, <2>1, <2>2 DEF ConfigStep
<1>7. CASE ReadFails
  <2>1. balance' \in BalanceType BY <1>1, <1>7 DEF ReadFails, TypeOK, BalanceType
  <2> QED BY <1>7, <2>1, SpendType DEF ReadFails, TypeOK
<1>8. CASE Restart
  <2>1. PICK changed \in BOOLEAN : Crash(changed) BY <1>8 DEF Restart
  <2>2. balance' \in BalanceType BY <1>1, <2>1 DEF Crash, Awake, BalanceType
  <2>3. ops' \in [Containers -> OpType] BY <2>1, NoOpType DEF Crash, TypeOK
  <2>4. sessions' \in [Sessions -> SessionType] BY <2>1, IdleType DEF Crash
  <2>5. locks' \in [Locks -> Sessions \cup {Free}] BY <2>1 DEF Crash
  <2>6. spent' \in [Spendings -> Nat]
    <3>1. spent' = [Counted(changed, FALSE) EXCEPT !.faults = @ + 1] BY <2>1 DEF Crash
    <3>2. Counted(changed, FALSE) \in [Spendings -> Nat] BY CountedType
    <3>3. "faults" \in Spendings BY DEF Spendings
    <3> QED BY <3>1, <3>2, <3>3, IncrementType
  <2>7. watch' \in WatchType /\ events' \in Seq(EventType)
    BY <2>1, WatchingType DEF Crash
  <2> QED BY <2>1, <2>2, <2>3, <2>4, <2>5, <2>6, <2>7 DEF Crash, TypeOK
<1> QED BY <1>2, <1>3, <1>4, <1>5, <1>6, <1>7, <1>8 DEF Rebalance

\* Every step leaves every variable with values of its type.
LEMMA TypeStep ==
    ASSUME TypeOK, SessionsSound, Next
    PROVE  TypeOK'
BY SessionTypeStep, ContainerTypeStep, WatcherTypeStep, OtherTypeStep
   DEF Next, OwnStep, OfContainer, Watches

-----------------------------------------------------------------------------
(* Requests and their locks *)

LEMMA InitInvariant == Init => IInv
<1> SUFFICES ASSUME Init PROVE IInv OBVIOUS
<1>1. \A k \in Sessions : sessions[k] = Idle BY DEF Init
<1>2. TypeOK
  <2>1. rows \in [Containers -> Statuses] /\ rows \in [Containers -> {"exited", "none"}]
    BY DEF Init, Statuses
  <2>2. desired \in [Containers -> DesiredStatuses]
    BY <2>1 DEF Init, DesiredStatuses
  <2>3. balance \in BalanceType /\ applied \in [Containers -> ShareType]
    BY DEF Init, Awake, Nothing, BalanceType, ShareType
  <2>4. engine \in [Containers -> EngineStates] BY DEF Init, EngineStates
  <2>5. watch \in WatchType /\ events \in Seq(EventType) /\ strays \subseteq Containers
    BY WatchingType DEF Init
  <2> QED BY <2>1, <2>2, <2>3, <2>4, <2>5, NoOpType, IdleType DEF Init, TypeOK
<1>3. SessionsSound BY <1>1 DEF SessionsSound, Sound, Idle
<1>4. AdmittingHolds BY <1>1 DEF AdmittingHolds, Admitting, Idle
<1>5. OperationsHaveRows BY DEF Init, OperationsHaveRows, Active, NoOp
<1>6. RoomIsLeft BY <1>1 DEF RoomIsLeft, Passed, Idle
<1>8. FindingsAreStates BY WatchingType DEF Init, FindingsAreStates
<1>7. WithinLimits
  <2> SUFFICES ASSUME NEW u \in Users
               PROVE  /\ Cardinality(OwnedBy(u)) <= MaxContainers
                      /\ MaxCreates # 0 => Cardinality(Creates(u)) <= MaxCreates
                      /\ MaxBuilds # 0 => Cardinality(BuildsOf(u)) <= MaxBuilds
    BY DEF WithinLimits
  <2>1. Creates(u) = {} BY DEF Init, Creates, OwnedBy, NoOp
  <2>2. BuildsOf(u) = {} BY DEF Init, BuildsOf, ActiveBuilds
  <2>3. Cardinality(Creates(u)) = 0 /\ Cardinality(BuildsOf(u)) = 0
    BY <2>1, <2>2, FS_EmptySet
  <2>4. MaxCreates \in Nat /\ MaxBuilds \in Nat BY AdmissionConstants
  <2> QED BY <2>3, <2>4 DEF Init
<1> QED BY <1>2, <1>3, <1>4, <1>5, <1>6, <1>7, <1>8 DEF IInv

RequestStep(k) == Ask(k) \/ SessionStep(k) \/ LockFails(k) \/ CheckFails(k)

\* Whatever is not a request or a restart leaves the requests and the locks.
LEMMA RequestsMove ==
    ASSUME Next
    PROVE  \/ \E k \in Sessions : RequestStep(k)
           \/ Restart
           \/ UNCHANGED <<sessions, locks>>
BY DEF Next, OwnStep, ConfigStep, AskRebalance, RequestStep, AskStop, AskDelete, AskBlank,
       ContainerStep, Acts, FindsNothing, OpDone, OpFails, Ends, Vanishes, WatcherStep, TakeEvent,
       WriteEvent, ListContainers, CheckActive, InspectContainer, InspectFails, WriteObserved,
       BuildEnds, Rebalance, TakeRequest, ReadRunning, Apply, ApplyFails, Reconfigure, ReadFails

\* A request changes no other request, gets the lock of the host before it
\* counts, and takes it from nobody.
LEMMA RequestKeepsOrder ==
    ASSUME TypeOK, SessionsSound, AdmittingHolds, NEW k \in Sessions, RequestStep(k)
    PROVE  /\ \A j \in Sessions : j # k => sessions'[j] = sessions[j]
           /\ Sound(sessions'[k])
           /\ sessions'[k].pc \in {"limits", "quota", "host", "save"} => locks'[Capacity] = k
           /\ \A j \in Sessions : j # k /\ locks[Capacity] = j => locks'[Capacity] = j
<1> DEFINE Kept == \A j \in Sessions : j # k => sessions'[j] = sessions[j]
           Right == Sound(sessions'[k])
           Held == sessions'[k].pc \in {"limits", "quota", "host", "save"}
                     => locks'[Capacity] = k
           Others == \A j \in Sessions : j # k /\ locks[Capacity] = j => locks'[Capacity] = j
<1> sessions \in [Sessions -> SessionType] BY DEF TypeOK
<1>0. /\ Capacity \in Locks /\ locks \in [Locks -> Sessions \cup {Free}]
      /\ Free \notin Sessions
  BY AdmissionConstants DEF Locks, TypeOK
<1>1. CASE Ask(k)
  <2>1. Kept /\ Right /\ Held BY <1>1, AskBegins
  <2>2. Others BY <1>1 DEF Ask
  <2> QED BY <2>1, <2>2
<1>2. CASE LockOwner(k)
  <2>1. Goto("capacity", k) BY <1>2 DEF LockOwner
  <2>2. Kept /\ Right /\ Held
    BY <2>1, GotoKeeps DEF Pcs, Sound, SessionsSound
  <2>3. Others BY <1>0, <1>2 DEF LockOwner
  <2> QED BY <2>2, <2>3
<1>3. CASE LockCapacity(k)
  <2>1. locks' = [locks EXCEPT ![Capacity] = k] /\ locks[Capacity] = Free
    BY <1>3 DEF LockCapacity, CapacityLockFree
  <2>2. locks'[Capacity] = k BY <1>0, <2>1
  <2>3. Others BY <1>0, <2>1
  <2>4. Kept /\ Right
    BY <1>3, ChecksGo, GotoKeeps DEF Pcs, Sound, SessionsSound
  <2> QED BY <2>2, <2>3, <2>4
<1>4. CASE CheckLimits(k) \/ CheckQuota(k) \/ CheckHost(k)
  <2>1. Admitting(k) /\ UNCHANGED locks
    BY <1>4 DEF CheckLimits, CheckQuota, CheckHost, At, Admitting
  <2>2. Held /\ Others BY <2>1 DEF AdmittingHolds
  <2>3. \/ Goto("unlock", k) \/ Goto("host", k) \/ Goto("save", k)
        \/ sessions[k].kind = "create" /\ Goto("quota", k)
    BY <1>4, ChecksGo
  <2>4. Kept /\ Right
    BY <2>3, GotoKeeps DEF Pcs, Sound, SessionsSound
  <2> QED BY <2>2, <2>4
<1>5. CASE SaveContainer(k) \/ QueueStart(k) \/ SaveBuild(k) \/ LockFails(k) \/ CheckFails(k)
  <2>1. Goto("unlock", k) /\ UNCHANGED locks
    BY <1>5 DEF SaveContainer, QueueStart, SaveBuild, LockFails, CheckFails, Unlocking
  <2>2. Kept /\ Right /\ Held
    BY <2>1, GotoKeeps DEF Pcs, Sound, SessionsSound
  <2> QED BY <2>1, <2>2
<1>6. CASE QueueExpose(k)
  <2>1. sessions' = [sessions EXCEPT ![k] = Idle] /\ UNCHANGED locks
    BY <1>6 DEF QueueExpose
  <2> QED BY <2>1 DEF Sound, Idle
<1>7. CASE Unlock(k)
  <2>1. sessions' = [sessions EXCEPT ![k] = Idle] BY <1>7 DEF Unlock
  <2>2. Kept /\ Right /\ Held BY <2>1 DEF Sound, Idle
  <2>3. Others BY <1>0, <1>7 DEF Unlock
  <2> QED BY <2>2, <2>3
<1> QED BY <1>1, <1>2, <1>3, <1>4, <1>5, <1>6, <1>7 DEF RequestStep, SessionStep, Save

LEMMA LockStep ==
    ASSUME IInv, Next
    PROVE  SessionsSound' /\ AdmittingHolds'
<1> TypeOK /\ SessionsSound /\ AdmittingHolds BY DEF IInv
<1>1. CASE \E k \in Sessions : RequestStep(k)
  <2> PICK k \in Sessions : RequestStep(k) BY <1>1
  <2>1. SessionsSound' BY RequestKeepsOrder DEF SessionsSound
  <2>2. AdmittingHolds'
    <3> SUFFICES ASSUME NEW j \in Sessions, Admitting(j)' PROVE locks'[Capacity] = j
      BY DEF AdmittingHolds
    <3>1. CASE j = k BY <3>1, RequestKeepsOrder DEF Admitting
    <3>2. CASE j # k BY <3>2, RequestKeepsOrder DEF Admitting, AdmittingHolds
    <3> QED BY <3>1, <3>2
  <2> QED BY <2>1, <2>2
<1>2. CASE Restart
  <2>1. \A k \in Sessions : sessions'[k] = Idle BY <1>2 DEF Restart, Crash
  <2> QED BY <2>1 DEF SessionsSound, AdmittingHolds, Sound, Admitting, Idle
<1>3. CASE UNCHANGED <<sessions, locks>>
  BY <1>3 DEF SessionsSound, AdmittingHolds, Sound, Admitting
<1> QED BY <1>1, <1>2, <1>3, RequestsMove

\* Two requests never admit at the same time.
LEMMA OneAdmits ==
    ASSUME IInv, NEW j \in Sessions, NEW k \in Sessions, Admitting(j), Admitting(k)
    PROVE  j = k
BY DEF IInv, AdmittingHolds

-----------------------------------------------------------------------------
(* Rows and counts *)

Adds(k) ==
    \/ SaveContainer(k) /\ Fresh(Subject(k))
    \/ SaveBuild(k)

\* An operation is queued on, or taken from, one container.
LEMMA QueueKeepsRows ==
    ASSUME TypeOK, OperationsHaveRows, NEW c, NEW kind, NEW status, NEW wanted, NEW prev,
           Queue(c, kind, status, wanted, prev), status # "none"
    PROVE  /\ OperationsHaveRows'
           /\ kind # "create" /\ Exists(c) =>
                 \A d \in Containers :
                     /\ rows'[d] # "none" => rows[d] # "none"
                     /\ ops'[d].kind = "create" => ops[d].kind = "create"
<1> DEFINE op == [kind |-> kind, stage |-> "queued", prev |-> prev]
<1>1. /\ rows' = [rows EXCEPT ![c] = status] /\ ops' = [ops EXCEPT ![c] = op]
      /\ op.kind = kind
  BY DEF Queue
<1>2. rows \in [Containers -> Statuses] /\ ops \in [Containers -> OpType] BY DEF TypeOK
<1> HIDE DEF op
<1> QED BY <1>1, <1>2 DEF OperationsHaveRows, Active, Exists

LEMMA RequestRows ==
    ASSUME TypeOK, SessionsSound, OperationsHaveRows, NEW k \in Sessions, RequestStep(k)
    PROVE  OperationsHaveRows' /\ (Shrinks \/ Adds(k))
<1>1. CASE SaveContainer(k)
  <2>1. CASE ~Fresh(Subject(k))
    <3>1. UNCHANGED <<rows, ops, builds>> BY <1>1, <2>1 DEF SaveContainer
    <3> QED BY <3>1 DEF OperationsHaveRows, Active, Exists, Shrinks
  <2>2. CASE Fresh(Subject(k))
    <3>1. Queue(Subject(k), "create", "pending", "created", "none")
      BY <1>1, <2>2 DEF SaveContainer
    <3> QED BY <1>1, <2>2, <3>1, QueueKeepsRows DEF Adds
  <2> QED BY <2>1, <2>2
<1>2. CASE QueueStart(k)
  <2>1. CASE Active(Subject(k)) \/ ~Exists(Subject(k))
    <3>1. UNCHANGED <<rows, ops, builds>> BY <1>2, <2>1 DEF QueueStart
    <3> QED BY <3>1 DEF OperationsHaveRows, Active, Exists, Shrinks
  <2>2. CASE ~(Active(Subject(k)) \/ ~Exists(Subject(k)))
    <3>1. /\ Queue(Subject(k), "start", "starting", "running", sessions[k].seen.status)
          /\ UNCHANGED builds
      BY <1>2, <2>2 DEF QueueStart
    <3> QED BY <2>2, <3>1, QueueKeepsRows DEF Shrinks
  <2> QED BY <2>1, <2>2
<1>3. CASE QueueExpose(k)
  <2>1. CASE Active(Subject(k)) \/ ~Exists(Subject(k))
    <3>1. UNCHANGED <<rows, ops, builds>> BY <1>3, <2>1 DEF QueueExpose
    <3> QED BY <3>1 DEF OperationsHaveRows, Active, Exists, Shrinks
  <2>2. CASE ~(Active(Subject(k)) \/ ~Exists(Subject(k)))
    <3>1. /\ Queue(Subject(k), "expose", "exposing", sessions[k].seen.desired,
                   sessions[k].seen.status)
          /\ UNCHANGED builds
      BY <1>3, <2>2 DEF QueueExpose
    <3> QED BY <2>2, <3>1, QueueKeepsRows DEF Shrinks
  <2> QED BY <2>1, <2>2
<1>4. CASE SaveBuild(k)
  <2>1. UNCHANGED <<rows, ops>> BY <1>4 DEF SaveBuild, containers
  <2> QED BY <1>4, <2>1 DEF OperationsHaveRows, Active, Exists, Adds
<1>5. CASE \/ Ask(k) \/ LockOwner(k) \/ LockCapacity(k) \/ CheckLimits(k) \/ CheckQuota(k)
           \/ CheckHost(k) \/ Unlock(k) \/ LockFails(k) \/ CheckFails(k)
  <2>1. UNCHANGED <<rows, ops, builds>>
    BY <1>5 DEF Ask, LockOwner, LockCapacity, CheckLimits, CheckQuota, CheckHost, Unlock,
                LockFails, CheckFails, containers
  <2> QED BY <2>1 DEF OperationsHaveRows, Active, Exists, Shrinks
<1> QED BY <1>1, <1>2, <1>3, <1>4, <1>5 DEF RequestStep, SessionStep, Save

LEMMA ContainerRows ==
    ASSUME TypeOK, OperationsHaveRows, NEW c \in Containers, OfContainer(c)
    PROVE  OperationsHaveRows' /\ Shrinks
<1> USE DEF containers
<1>0. /\ rows \in [Containers -> Statuses] /\ ops \in [Containers -> OpType]
      /\ NoOp.kind = "none"
  BY DEF TypeOK, NoOp
<1>1. CASE AskStop(c)
  <2>1. Queue(c, "stop", "stopping", "exited", rows[c]) /\ UNCHANGED builds /\ Exists(c)
    BY <1>1 DEF AskStop, Made, Exists
  <2> QED BY <2>1, QueueKeepsRows DEF Shrinks
<1>2. CASE AskDelete(c)
  <2>1. UNCHANGED builds /\ Exists(c) BY <1>2 DEF AskDelete
  <2>2. CASE Queue(c, "delete", "deleting", "deleting", rows[c])
    BY <2>1, <2>2, QueueKeepsRows DEF Shrinks
  <2>3. CASE rows' = [rows EXCEPT ![c] = "none"] /\ ops' = [ops EXCEPT ![c] = NoOp]
    BY <1>0, <2>1, <2>3 DEF OperationsHaveRows, Active, Exists, Shrinks
  <2> QED BY <1>2, <2>2, <2>3 DEF AskDelete
<1>3. CASE Acts(c)
  <2>1. /\ UNCHANGED <<rows, builds>>
        /\ \A d \in Containers : ops'[d].kind = ops[d].kind
    BY <1>0, <1>3 DEF Acts, OpType
  <2> QED BY <2>1 DEF OperationsHaveRows, Active, Exists, Shrinks
<1>4. CASE OpDone(c)
  <2>1. /\ UNCHANGED builds /\ Exists(c)
        /\ ops' = [ops EXCEPT ![c] = NoOp]
        /\ \A d \in Containers : d # c => rows'[d] = rows[d]
    BY <1>0, <1>4 DEF OpDone, OperationsHaveRows
  <2> QED BY <1>0, <2>1 DEF OperationsHaveRows, Active, Exists, Shrinks
<1>5. CASE FindsNothing(c)
  <2>1. /\ UNCHANGED builds /\ Exists(c)
        /\ ops' = [ops EXCEPT ![c] = NoOp]
        /\ \A d \in Containers : d # c => rows'[d] = rows[d]
    BY <1>0, <1>5 DEF FindsNothing, OperationsHaveRows, Active
  <2> QED BY <1>0, <2>1 DEF OperationsHaveRows, Active, Exists, Shrinks
<1>6. CASE OpFails(c)
  <2>1. /\ UNCHANGED builds /\ Exists(c)
        /\ ops' = [ops EXCEPT ![c] = NoOp]
        /\ \A d \in Containers : d # c => rows'[d] = rows[d]
    BY <1>0, <1>6 DEF OpFails, OperationsHaveRows
  <2> QED BY <1>0, <2>1 DEF OperationsHaveRows, Active, Exists, Shrinks
<1>7. CASE Ends(c) \/ Vanishes(c) \/ InspectFails(c) \/ ApplyFails(c)
  <2>1. UNCHANGED <<rows, ops, builds>> BY <1>7 DEF Ends, Vanishes, InspectFails, ApplyFails
  <2> QED BY <2>1 DEF OperationsHaveRows, Active, Exists, Shrinks
<1>8. CASE AskBlank(c)
  <2>1. /\ UNCHANGED <<ops, builds>> /\ rows[c] # "none"
        /\ \A d \in Containers : d # c => rows'[d] = rows[d]
        /\ rows'[c] # "none"
    BY <1>0, <1>8 DEF AskBlank, Exists
  <2> QED BY <2>1 DEF OperationsHaveRows, Active, Exists, Shrinks
<1> QED BY <1>1, <1>2, <1>3, <1>4, <1>5, <1>6, <1>7, <1>8 DEF OfContainer, ContainerStep

\* The event worker gives rows that are there another status, never none.
LEMMA WriteRowKeeps ==
    ASSUME TypeOK, OperationsHaveRows, NEW found, found.status \in ObservedStates, NEW c,
           WriteRow(found, c), UNCHANGED <<ops, builds>>
    PROVE  OperationsHaveRows' /\ Shrinks
<1>1. \A d \in Containers : rows'[d] = "none" <=> rows[d] = "none"
  BY DEF WriteRow, TypeOK, Exists, ObservedStates
<1> QED BY <1>1 DEF OperationsHaveRows, Active, Exists, Shrinks

LEMMA WatcherRows ==
    ASSUME TypeOK, OperationsHaveRows, FindingsAreStates, Watches
    PROVE  OperationsHaveRows' /\ Shrinks
<1> USE DEF containers
<1>1. CASE TakeEvent
  <2> DEFINE e == Head(events)
             found == [status |-> EventStatus(e.on, e.action), ended |-> e.action = "die"]
  <2>1. found.status \in ObservedStates BY DEF EventStatus, ObservedStates
  <2>2. UNCHANGED rows \/ WriteRow(found, e.on) BY <1>1 DEF TakeEvent
  <2>3. UNCHANGED <<ops, builds>> BY <1>1 DEF TakeEvent
  <2> HIDE DEF e, found
  <2>4. CASE UNCHANGED rows BY <2>3, <2>4 DEF OperationsHaveRows, Active, Exists, Shrinks
  <2> QED BY <2>1, <2>2, <2>3, <2>4, WriteRowKeeps
<1>2. CASE WriteEvent
  <2>1. watch.found.status \in ObservedStates BY <1>2 DEF WriteEvent, FindingsAreStates
  <2>2. UNCHANGED rows \/ WriteRow(watch.found, watch.on) BY <1>2 DEF WriteEvent
  <2>3. UNCHANGED <<ops, builds>> BY <1>2 DEF WriteEvent
  <2>4. CASE UNCHANGED rows BY <2>3, <2>4 DEF OperationsHaveRows, Active, Exists, Shrinks
  <2> QED BY <2>1, <2>2, <2>3, <2>4, WriteRowKeeps
<1>3. CASE WriteObserved
  <2>1. watch.found.status \in ObservedStates BY <1>3 DEF WriteObserved, FindingsAreStates
  <2>2. WriteRow(watch.found, watch.on) /\ UNCHANGED <<ops, builds>> BY <1>3 DEF WriteObserved
  <2> QED BY <2>1, <2>2, WriteRowKeeps
<1>4. CASE ListContainers \/ \E c \in Containers : CheckActive(c) \/ InspectContainer(c)
  <2>1. UNCHANGED <<rows, ops, builds>> BY <1>4 DEF ListContainers, CheckActive, InspectContainer
  <2> QED BY <2>1 DEF OperationsHaveRows, Active, Exists, Shrinks
<1> QED BY <1>1, <1>2, <1>3, <1>4 DEF Watches, WatcherStep

\* What the worker writes it has found in an event or an inspection; a generation
\* that is replaced meanwhile changes nothing of that.
LEMMA FindingsStep ==
    ASSUME TypeOK, FindingsAreStates, Next
    PROVE  FindingsAreStates'
<1> DEFINE Kept == watch'.pc = watch.pc /\ watch'.found = watch.found
           Rests == watch'.pc \notin {"event", "write"}
<1>0. watch \in WatchType BY DEF TypeOK
<1>1. CASE \E k \in Sessions : RequestStep(k)
  <2>1. UNCHANGED watch
    BY <1>1 DEF RequestStep, Ask, SessionStep, LockFails, CheckFails, LockOwner, LockCapacity,
                CheckLimits, CheckQuota, CheckHost, Save, SaveContainer, QueueStart, SaveBuild,
                QueueExpose, Unlock, containers
  <2> QED BY <2>1 DEF FindingsAreStates
<1>2. ASSUME NEW c \in Containers, OfContainer(c) PROVE Kept \/ Rests
  <2>1. CASE OpDone(c)
    <3>1. \/ UNCHANGED watch
          \/ Replaces(c, "up", "other") \/ Replaces(c, "created", "other")
      BY <2>1 DEF OpDone
    <3> QED BY <3>1, ReplacesType DEF EngineStates, Actions
  <2>2. CASE OpFails(c)
    <3>1. UNCHANGED watch \/ Replaces(c, "gone", "destroy") BY <2>2 DEF OpFails
    <3> QED BY <3>1, ReplacesType DEF EngineStates, Actions
  <2>3. CASE InspectFails(c)
    BY <2>3, RowDoneType DEF InspectFails
  <2>4. CASE \/ AskStop(c) \/ AskDelete(c) \/ AskBlank(c) \/ Acts(c) \/ FindsNothing(c)
             \/ Ends(c) \/ Vanishes(c) \/ ApplyFails(c)
    <3>1. UNCHANGED watch
      BY <2>4 DEF AskStop, AskDelete, AskBlank, Acts, FindsNothing, Ends, Vanishes, ApplyFails,
                  containers
    <3> QED BY <3>1
  <2> QED BY <1>2, <2>1, <2>2, <2>3, <2>4 DEF OfContainer, ContainerStep
<1>3. CASE TakeEvent
  <2> DEFINE e == Head(events)
             found == [status |-> EventStatus(e.on, e.action), ended |-> e.action = "die"]
  <2>1. found.status \in ObservedStates BY DEF EventStatus, ObservedStates
  <2>2. \/ watch' = [watch EXCEPT !.pc = "event", !.on = e.on, !.found = found]
        \/ UNCHANGED watch
    BY <1>3 DEF TakeEvent
  <2> HIDE DEF e, found
  <2> QED BY <1>0, <2>1, <2>2 DEF FindingsAreStates, WatchType
<1>4. CASE WriteEvent \/ ListContainers \/ WriteObserved
  <2>1. CASE WriteEvent BY <2>1, WatchingType DEF WriteEvent, FindingsAreStates
  <2>2. CASE ListContainers
    <3>1. watch' = [Watching("sync") EXCEPT !.left = Candidates, !.seen = Snapshot(Candidates)]
      BY <2>2 DEF ListContainers
    <3>2. watch'.pc = "sync" BY <3>1, WatchingType DEF WatchType
    <3> QED BY <3>2 DEF FindingsAreStates
  <2>3. CASE WriteObserved
    <3> DEFINE changed == \/ watch.found.status \in {"running", "missing"}
                          \/ watch.seen[watch.on].status = "running"
    <3>1. RowDone(watch.on, changed) /\ changed \in BOOLEAN BY <2>3 DEF WriteObserved
    <3> HIDE DEF changed
    <3>2. Rests BY <3>1, RowDoneType
    <3> QED BY <3>2 DEF FindingsAreStates
  <2> QED BY <1>4, <2>1, <2>2, <2>3
<1>5. ASSUME NEW c \in Containers, CheckActive(c) PROVE FindingsAreStates'
  <2>1. RowDone(c, FALSE) \/ watch' = [watch EXCEPT !.pc = "inspect", !.on = c]
    BY <1>5 DEF CheckActive
  <2>2. Rests BY <1>0, <2>1, RowDoneType DEF WatchType
  <2> QED BY <2>2 DEF FindingsAreStates
<1>6. ASSUME NEW c \in Containers, InspectContainer(c) PROVE FindingsAreStates'
  <2> DEFINE found == Inspected(c)
  <2>0. found.status \in ObservedStates BY InspectedType
  <2>1. \/ RowDone(c, FALSE)
        \/ watch' = [watch EXCEPT !.pc = "write", !.on = c, !.found = found]
    BY <1>6 DEF InspectContainer
  <2> HIDE DEF found
  <2> QED BY <1>0, <2>0, <2>1, RowDoneType DEF FindingsAreStates, WatchType
<1>7. CASE (\E b \in Builds : BuildEnds(b)) \/ Rebalance \/ ReadFails \/ ConfigStep
  <2>1. UNCHANGED watch
    BY <1>7 DEF BuildEnds, Rebalance, TakeRequest, ReadRunning, Apply, ReadFails, ConfigStep,
                AskRebalance, Reconfigure, containers
  <2> QED BY <2>1 DEF FindingsAreStates
<1>8. CASE Restart BY <1>8, WatchingType DEF Restart, Crash, FindingsAreStates
<1>9. ASSUME NEW c \in Containers, OfContainer(c) PROVE FindingsAreStates'
  BY <1>2, <1>9 DEF FindingsAreStates
<1> QED BY <1>1, <1>3, <1>4, <1>5, <1>6, <1>7, <1>8, <1>9
        DEF Next, OwnStep, RequestStep, OfContainer, WatcherStep

LEMMA OtherRows ==
    ASSUME TypeOK, OperationsHaveRows,
           \/ \E b \in Builds : BuildEnds(b)
           \/ Rebalance \/ ReadFails \/ ConfigStep \/ Restart
    PROVE  OperationsHaveRows' /\ Shrinks
<1> USE DEF containers, OperationsHaveRows, Active, Exists, Shrinks
<1>1. CASE \E b \in Builds : BuildEnds(b) BY <1>1 DEF BuildEnds, TypeOK
<1>2. CASE Rebalance \/ ReadFails \/ ConfigStep
  BY <1>2 DEF Rebalance, TakeRequest, ReadRunning, Apply, ConfigStep, AskRebalance,
              Reconfigure, ReadFails
<1>3. CASE Restart
  <2>1. /\ UNCHANGED <<rows, builds>>
        /\ \A c \in Containers : ops'[c] = NoOp \/ ops'[c] = ops[c]
    BY <1>3 DEF Restart, Crash
  <2> QED BY <2>1 DEF NoOp
<1> QED BY <1>1, <1>2, <1>3

\* Only a request that is about to end adds something.
LEMMA RowsStep ==
    ASSUME IInv, Next
    PROVE  OperationsHaveRows' /\ (Shrinks \/ \E k \in Sessions : Adds(k))
<1> TypeOK /\ SessionsSound /\ OperationsHaveRows /\ FindingsAreStates BY DEF IInv
<1>1. CASE \E k \in Sessions : RequestStep(k) BY <1>1, RequestRows
<1>2. CASE \E c \in Containers : OfContainer(c) BY <1>2, ContainerRows
<1>3. CASE (\E b \in Builds : BuildEnds(b)) \/ Rebalance \/ ReadFails \/ ConfigStep \/ Restart
  BY <1>3, OtherRows
<1>4. CASE Watches BY <1>4, WatcherRows
<1> QED BY <1>1, <1>2, <1>3, <1>4 DEF Next, OwnStep, RequestStep, OfContainer, Watches

LEMMA AddsAdmits ==
    ASSUME IInv, NEW k \in Sessions, Adds(k)
    PROVE  Admitting(k) /\ WithinOwnLimits(k) /\ ~Admitting(k)'
<1>1. At(k, "save") /\ sessions[k].kind \in {"create", "build"} /\ Goto("unlock", k)
  BY DEF Adds, SaveContainer, SaveBuild
<1>2. Passed(k) /\ Admitting(k) BY <1>1 DEF At, Passed, Admitting
<1>3. ~Admitting(k)' BY <1>1, GotoKeeps DEF IInv, TypeOK, Pcs, Admitting
<1> QED BY <1>2, <1>3 DEF IInv, RoomIsLeft

-----------------------------------------------------------------------------
(* Room and limits *)

\* A request that has passed its limits after a step was within them before it.
LEMMA PassedStep ==
    ASSUME IInv, Next, NEW j \in Sessions, Passed(j)'
    PROVE  /\ sessions'[j].kind = sessions[j].kind /\ sessions'[j].on = sessions[j].on
           /\ Admitting(j) /\ WithinOwnLimits(j)
<1> DEFINE Goal == /\ sessions'[j].kind = sessions[j].kind
                   /\ sessions'[j].on = sessions[j].on
                   /\ Admitting(j) /\ WithinOwnLimits(j)
<1> /\ TypeOK /\ SessionsSound /\ AdmittingHolds /\ RoomIsLeft
    /\ sessions \in [Sessions -> SessionType]
  BY DEF IInv, TypeOK
<1>0. ASSUME sessions'[j] = sessions[j] PROVE Goal
  <2>1. Passed(j) BY <1>0 DEF Passed
  <2> QED BY <1>0, <2>1 DEF RoomIsLeft, Passed, Admitting
<1>1. ASSUME RequestStep(j) PROVE Goal
  <2>1. CASE Ask(j) \/ QueueExpose(j) \/ Unlock(j)
    <3>1. sessions'[j].pc \in {"owner", "capacity", "expose", "idle"}
      BY <2>1, AskBegins DEF QueueExpose, Unlock, Idle
    <3> QED BY <3>1 DEF Passed
  <2>2. CASE LockOwner(j) \/ LockFails(j) \/ CheckFails(j) \/ SaveContainer(j)
             \/ QueueStart(j) \/ SaveBuild(j)
    <3>1. Goto("capacity", j) \/ Goto("unlock", j)
      BY <2>2 DEF LockOwner, LockFails, CheckFails, Unlocking, SaveContainer, QueueStart,
                  SaveBuild
    <3>2. sessions'[j].pc \in {"capacity", "unlock"} BY <3>1, GotoKeeps DEF Pcs
    <3> QED BY <3>2 DEF Passed
  <2>3. CASE LockCapacity(j)
    <3>1. CASE Goto("limits", j) BY <3>1, GotoKeeps DEF Pcs, Passed
    <3>2. CASE sessions[j].kind \notin {"create", "build"} /\ Goto("quota", j)
      BY <3>2, GotoKeeps DEF Pcs, Passed
    <3> QED BY <2>3, <3>1, <3>2, ChecksGo
  <2>4. CASE CheckLimits(j)
    <3>1. Admitting(j) BY <2>4 DEF CheckLimits, At, Admitting
    <3>2. CASE Goto("unlock", j) BY <3>2, GotoKeeps DEF Pcs, Passed
    <3>3. CASE WithinOwnLimits(j) /\ (Goto("quota", j) \/ Goto("host", j))
      BY <3>1, <3>3, GotoKeeps DEF Pcs
    <3> QED BY <2>4, <3>2, <3>3, ChecksGo
  <2>5. CASE CheckQuota(j)
    <3>1. sessions[j].pc = "quota" BY <2>5 DEF CheckQuota, At
    <3>2. CASE Goto("unlock", j) BY <3>2, GotoKeeps DEF Pcs, Passed
    <3>3. CASE Goto("host", j)
      <4>1. /\ sessions'[j].kind = sessions[j].kind /\ sessions'[j].on = sessions[j].on
        BY <3>3, GotoKeeps DEF Pcs
      <4>2. sessions[j].kind # "build" => Passed(j) BY <3>1, <4>1 DEF Passed
      <4>3. sessions[j].kind # "build" BY <3>1 DEF SessionsSound, Sound
      <4> QED BY <3>1, <4>1, <4>2, <4>3 DEF RoomIsLeft, Admitting
    <3> QED BY <2>5, <3>2, <3>3, ChecksGo
  <2>6. CASE CheckHost(j)
    <3>1. sessions[j].pc = "host" BY <2>6 DEF CheckHost, At
    <3>2. CASE Goto("unlock", j) BY <3>2, GotoKeeps DEF Pcs, Passed
    <3>3. CASE Goto("save", j)
      <4>1. /\ sessions'[j].kind = sessions[j].kind /\ sessions'[j].on = sessions[j].on
        BY <3>3, GotoKeeps DEF Pcs
      <4> QED BY <3>1, <4>1 DEF Passed, RoomIsLeft, Admitting
    <3> QED BY <2>6, <3>2, <3>3, ChecksGo
  <2> QED BY <1>1, <2>1, <2>2, <2>3, <2>4, <2>5, <2>6 DEF RequestStep, SessionStep, Save
<1>2. ASSUME NEW k \in Sessions, k # j, RequestStep(k) PROVE Goal
  BY <1>0, <1>2, RequestKeepsOrder
<1>3. CASE Restart BY <1>3 DEF Restart, Crash, Idle, Passed
<1>4. CASE UNCHANGED <<sessions, locks>> BY <1>0, <1>4
<1> QED BY <1>1, <1>2, <1>3, <1>4, RequestsMove

LEMMA RoomShrinks ==
    ASSUME IInv, Shrinks, NEW j \in Sessions, WithinOwnLimits(j),
           sessions[j].kind \in {"create", "build"},
           sessions'[j].kind = sessions[j].kind, sessions'[j].on = sessions[j].on
    PROVE  WithinOwnLimits(j)'
<1> PICK u : u = OwnerLock(j) OBVIOUS
<1>1. OwnerLock(j)' = u BY DEF OwnerLock, Subject
<1>2. /\ Cardinality(OwnedBy(u)') <= Cardinality(OwnedBy(u))
      /\ Cardinality(Creates(u)') <= Cardinality(Creates(u))
      /\ Cardinality(BuildsOf(u)') <= Cardinality(BuildsOf(u))
  BY CountsShrink
<1>3. /\ Cardinality(OwnedBy(u)) \in Nat /\ Cardinality(OwnedBy(u)') \in Nat
      /\ Cardinality(Creates(u)) \in Nat /\ Cardinality(Creates(u)') \in Nat
      /\ Cardinality(BuildsOf(u)) \in Nat /\ Cardinality(BuildsOf(u)') \in Nat
  BY CountsAreNumbers, NumbersAfter
<1>4. MaxContainers \in Nat /\ MaxCreates \in Nat /\ MaxBuilds \in Nat
  BY AdmissionConstants
<1>5. CASE sessions[j].kind = "create"
  <2>1. /\ Cardinality(OwnedBy(u)) < MaxContainers
        /\ Below(Cardinality(Creates(u)), MaxCreates)
    BY <1>5 DEF WithinOwnLimits
  <2>2. /\ Cardinality(OwnedBy(u)') < MaxContainers
        /\ Below(Cardinality(Creates(u)'), MaxCreates)
    BY <1>2, <1>3, <1>4, <2>1 DEF Below
  <2> QED BY <1>1, <1>5, <2>2 DEF WithinOwnLimits, Below
<1>6. CASE sessions[j].kind = "build"
  <2>1. Below(Cardinality(BuildsOf(u)), MaxBuilds)
    BY <1>6 DEF WithinOwnLimits
  <2>2. Below(Cardinality(BuildsOf(u)'), MaxBuilds)
    BY <1>2, <1>3, <1>4, <2>1 DEF Below
  <2> QED BY <1>1, <1>6, <2>2 DEF WithinOwnLimits, Below
<1> QED BY <1>5, <1>6

\* What a request adds to the counts while another has passed its limits: nothing.
LEMMA RoomStep ==
    ASSUME IInv, Next
    PROVE  RoomIsLeft'
<1> SUFFICES ASSUME NEW j \in Sessions, Passed(j)' PROVE WithinOwnLimits(j)'
  BY DEF RoomIsLeft
<1>1. /\ sessions'[j].kind = sessions[j].kind /\ sessions'[j].on = sessions[j].on
      /\ Admitting(j) /\ WithinOwnLimits(j)
  BY PassedStep
<1>2. Admitting(j)' /\ sessions[j].kind \in {"create", "build"}
  BY <1>1 DEF Passed, Admitting
<1>3. CASE Shrinks BY <1>1, <1>2, <1>3, RoomShrinks
<1>4. ASSUME NEW k \in Sessions, Adds(k) PROVE FALSE
  <2>1. Admitting(k) /\ ~Admitting(k)' BY <1>4, AddsAdmits
  <2>2. j = k BY <1>1, <2>1, OneAdmits
  <2> QED BY <1>2, <2>1, <2>2
<1> QED BY <1>3, <1>4, RowsStep

\* A container that is created, or a build, is one more of its owner's and no
\* one else's.
LEMMA OneMore ==
    ASSUME TypeOK, SessionsSound, NEW k \in Sessions, Adds(k), NEW u
    PROVE  /\ \/ /\ sessions[k].kind = "create" /\ u = OwnerLock(k)
                 /\ Cardinality(OwnedBy(u)') <= Cardinality(OwnedBy(u)) + 1
                 /\ Cardinality(Creates(u)') <= Cardinality(Creates(u)) + 1
              \/ /\ Cardinality(OwnedBy(u)') <= Cardinality(OwnedBy(u))
                 /\ Cardinality(Creates(u)') <= Cardinality(Creates(u))
           /\ \/ /\ sessions[k].kind = "build" /\ u = OwnerLock(k)
                 /\ Cardinality(BuildsOf(u)') <= Cardinality(BuildsOf(u)) + 1
              \/ Cardinality(BuildsOf(u)') <= Cardinality(BuildsOf(u))
<1> DEFINE x == Subject(k)
<1>0. /\ IsFiniteSet(OwnedBy(u)) /\ IsFiniteSet(Creates(u)) /\ IsFiniteSet(BuildsOf(u))
      /\ Cardinality(OwnedBy(u)) \in Nat /\ Cardinality(Creates(u)) \in Nat
      /\ Cardinality(BuildsOf(u)) \in Nat
  BY CountsAreNumbers
<1>1. ASSUME NEW S, NEW T, IsFiniteSet(S), Cardinality(S) \in Nat, T \subseteq S \cup {x}
      PROVE  Cardinality(T) <= Cardinality(S) + 1
  <2>1. /\ IsFiniteSet(S \cup {x})
        /\ Cardinality(S \cup {x}) = IF x \in S THEN Cardinality(S) ELSE Cardinality(S) + 1
    BY <1>1, FS_AddElement
  <2>2. IsFiniteSet(T) /\ Cardinality(T) <= Cardinality(S \cup {x})
    BY <1>1, <2>1, FS_Subset
  <2>3. Cardinality(T) \in Nat BY <2>2, FS_CardinalityType
  <2> HIDE DEF x
  <2> QED BY <1>1, <2>1, <2>2, <2>3
<1>2. CASE SaveContainer(k) /\ Fresh(x)
  <2>1. /\ sessions[k].kind = "create" /\ UNCHANGED builds
        /\ Queue(x, "create", "pending", "created", "none")
    BY <1>2 DEF SaveContainer
  <2>2. BuildsOf(u)' = BuildsOf(u) BY <2>1 DEF BuildsOf, ActiveBuilds
  <2>3. /\ \A c \in Containers : c # x => rows'[c] = rows[c] /\ ops'[c] = ops[c]
    BY <2>1 DEF Queue, TypeOK
  <2>4. CASE u = OwnerLock(k)
    <3>1. OwnedBy(u)' \subseteq OwnedBy(u) \cup {x}
      BY <2>3 DEF OwnedBy, Exists
    <3>2. Creates(u)' \subseteq Creates(u) \cup {x}
      BY <2>3 DEF Creates, OwnedBy, Exists
    <3>3. /\ Cardinality(OwnedBy(u)') <= Cardinality(OwnedBy(u)) + 1
          /\ Cardinality(Creates(u)') <= Cardinality(Creates(u)) + 1
      BY <1>0, <1>1, <3>1, <3>2
    <3> QED BY <1>0, <2>1, <2>2, <2>4, <3>3
  <2>5. CASE u # OwnerLock(k)
    <3>1. OwnedBy(u)' = OwnedBy(u)
      BY <2>3, <2>5 DEF OwnedBy, Exists, OwnerLock
    <3>2. Creates(u)' = Creates(u)
      BY <2>3, <2>5 DEF Creates, OwnedBy, Exists, OwnerLock
    <3> QED BY <1>0, <2>2, <3>1, <3>2
  <2> QED BY <2>4, <2>5
<1>3. CASE SaveBuild(k)
  <2>1. /\ sessions[k].kind = "build" /\ UNCHANGED <<rows, ops>>
        /\ \A b \in Builds : b # x => builds'[b] = builds[b]
    BY <1>3 DEF SaveBuild, TypeOK, containers
  <2>2. OwnedBy(u)' = OwnedBy(u) /\ Creates(u)' = Creates(u)
    BY <2>1 DEF Creates, OwnedBy, Exists
  <2>3. CASE u = OwnerLock(k)
    <3>1. BuildsOf(u)' \subseteq BuildsOf(u) \cup {x}
      BY <2>1 DEF BuildsOf, ActiveBuilds
    <3>2. Cardinality(BuildsOf(u)') <= Cardinality(BuildsOf(u)) + 1
      BY <1>0, <1>1, <3>1
    <3> QED BY <1>0, <2>1, <2>2, <2>3, <3>2
  <2>4. CASE u # OwnerLock(k)
    <3>1. BuildsOf(u)' = BuildsOf(u)
      BY <2>1, <2>4 DEF BuildsOf, ActiveBuilds, OwnerLock
    <3> QED BY <1>0, <2>2, <3>1
  <2> QED BY <2>3, <2>4
<1> QED BY <1>2, <1>3 DEF Adds

LEMMA LimitsStep ==
    ASSUME IInv, Next
    PROVE  WithinLimits'
<1> SUFFICES ASSUME NEW u \in Users
             PROVE  /\ Cardinality(OwnedBy(u)') <= MaxContainers
                    /\ MaxCreates # 0 => Cardinality(Creates(u)') <= MaxCreates
                    /\ MaxBuilds # 0 => Cardinality(BuildsOf(u)') <= MaxBuilds
  BY DEF WithinLimits
<1>1. /\ Cardinality(OwnedBy(u)) <= MaxContainers
      /\ MaxCreates # 0 => Cardinality(Creates(u)) <= MaxCreates
      /\ MaxBuilds # 0 => Cardinality(BuildsOf(u)) <= MaxBuilds
  BY DEF IInv, WithinLimits
<1>2. /\ Cardinality(OwnedBy(u)) \in Nat /\ Cardinality(OwnedBy(u)') \in Nat
      /\ Cardinality(Creates(u)) \in Nat /\ Cardinality(Creates(u)') \in Nat
      /\ Cardinality(BuildsOf(u)) \in Nat /\ Cardinality(BuildsOf(u)') \in Nat
  BY CountsAreNumbers, NumbersAfter
<1>3. MaxContainers \in Nat /\ MaxCreates \in Nat /\ MaxBuilds \in Nat
  BY AdmissionConstants
<1>4. CASE Shrinks BY <1>1, <1>2, <1>3, <1>4, CountsShrink
<1>5. ASSUME NEW k \in Sessions, Adds(k)
      PROVE  /\ Cardinality(OwnedBy(u)') <= MaxContainers
             /\ MaxCreates # 0 => Cardinality(Creates(u)') <= MaxCreates
             /\ MaxBuilds # 0 => Cardinality(BuildsOf(u)') <= MaxBuilds
  <2>1. WithinOwnLimits(k) BY <1>5, AddsAdmits
  <2>2. sessions[k].kind = "create" /\ u = OwnerLock(k) =>
            /\ Cardinality(OwnedBy(u)) < MaxContainers
            /\ MaxCreates = 0 \/ Cardinality(Creates(u)) < MaxCreates
    BY <2>1 DEF WithinOwnLimits, Below
  <2>3. sessions[k].kind = "build" /\ u = OwnerLock(k) =>
            MaxBuilds = 0 \/ Cardinality(BuildsOf(u)) < MaxBuilds
    BY <2>1 DEF WithinOwnLimits, Below
  <2>4. TypeOK /\ SessionsSound BY DEF IInv
  <2>5. /\ Cardinality(OwnedBy(u)') <= MaxContainers
        /\ MaxCreates # 0 => Cardinality(Creates(u)') <= MaxCreates
    BY <1>1, <1>2, <1>3, <1>5, <2>2, <2>4, OneMore
  <2>6. MaxBuilds # 0 => Cardinality(BuildsOf(u)') <= MaxBuilds
    BY <1>1, <1>2, <1>3, <1>5, <2>3, <2>4, OneMore
  <2> QED BY <2>5, <2>6
<1> QED BY <1>4, <1>5, RowsStep

-----------------------------------------------------------------------------
(* Theorems *)

LEMMA InvariantStep == IInv /\ [Next]_vars => IInv'
<1> USE DEF containers
<1>1. ASSUME IInv, Next PROVE IInv'
  BY <1>1, TypeStep, LockStep, RowsStep, FindingsStep, RoomStep, LimitsStep DEF IInv
<1>2. ASSUME IInv, UNCHANGED vars PROVE IInv'
  <2>1. TypeOK' /\ SessionsSound' /\ AdmittingHolds'
    BY <1>2 DEF vars, IInv, TypeOK, SessionsSound, Sound, AdmittingHolds, Admitting
  <2>2. OperationsHaveRows' /\ FindingsAreStates'
    BY <1>2 DEF vars, IInv, OperationsHaveRows, Active, Exists, FindingsAreStates
  <2>3. \A u \in Users : /\ OwnedBy(u)' = OwnedBy(u) /\ Creates(u)' = Creates(u)
                         /\ BuildsOf(u)' = BuildsOf(u)
    BY <1>2 DEF vars, OwnedBy, Creates, BuildsOf, ActiveBuilds, Exists
  <2>4. WithinLimits'
    BY <1>2, <2>3 DEF IInv, WithinLimits
  <2>5. RoomIsLeft'
    BY <1>2 DEF vars, IInv, RoomIsLeft, Passed, WithinOwnLimits, OwnedBy, Creates, BuildsOf,
                ActiveBuilds, OwnerLock, Subject, Exists, Active
  <2> QED BY <2>1, <2>2, <2>4, <2>5 DEF IInv
<1> QED BY <1>1, <1>2

\* The inductive invariant holds in every state of every behaviour.
THEOREM Invariant == Spec => []IInv
BY InitInvariant, InvariantStep, PTL DEF Spec

\* Every variable keeps its type: requests, operations, locks and the rebalancer.
THEOREM TypeCorrect == Spec => []TypeOK
<1>1. IInv => TypeOK BY DEF IInv
<1> QED BY <1>1, Invariant, PTL

\* Between its first count and what it writes, a request is alone: no two
\* requests are admitted on the same count, those of two owners included.
OneAtATime ==
    \A j, k \in Sessions : Admitting(j) /\ Admitting(k) => j = k
THEOREM Exclusion == Spec => []OneAtATime
<1>1. IInv => OneAtATime BY OneAdmits DEF OneAtATime
<1> QED BY <1>1, Invariant, PTL

\* No owner ever exceeds max_containers_per_user, nor the limits on creations
\* and builds under way, whatever is requested together, ends, fails or restarts.
THEOREM Limits == Spec => []WithinLimits
<1>1. IInv => WithinLimits BY DEF IInv
<1> QED BY <1>1, Invariant, PTL

-----------------------------------------------------------------------------
(* Sums of what containers and builds reserve *)

LEMMA NeedIsNumber ==
    ASSUME NEW c \in Containers, NEW r \in Resources
    PROVE  Need[c][r] \in Nat
BY AdmissionConstants DEF Amounts

LEMMA UnitsFinite ==
    ASSUME NEW set \in SUBSET Containers, NEW r \in Resources
    PROVE  IsFiniteSet(Units(set, r)) /\ Total(set, r) \in Nat
<1> DEFINE Of(c) == {c} \X (1 .. Need[c][r])
           all == {Of(c) : c \in set}
           f == [c \in set |-> Of(c)]
<1>1. IsFiniteSet(set) BY AdmissionConstants, FS_Subset
<1>2. f \in Surjection(set, all) BY DEF Surjection
<1>3. IsFiniteSet(all) BY <1>1, <1>2, FS_Surjection
<1>4. ASSUME NEW c \in set PROVE IsFiniteSet(Of(c))
  <2>1. IsFiniteSet({c}) BY FS_Singleton
  <2>2. IsFiniteSet(1 .. Need[c][r]) BY NeedIsNumber, FS_Interval
  <2> QED BY <2>1, <2>2, FS_Product
<1>5. \A T \in all : IsFiniteSet(T) BY <1>4
<1>6. IsFiniteSet(UNION all) BY <1>3, <1>5, FS_UNION
<1>7. Units(set, r) = UNION all BY DEF Units
<1> HIDE DEF all
<1>8. IsFiniteSet(Units(set, r)) BY <1>6, <1>7
<1> QED BY <1>8, FS_CardinalityType DEF Total

\* More containers reserve no less.
LEMMA TotalGrows ==
    ASSUME NEW large \in SUBSET Containers, NEW small \in SUBSET large, NEW r \in Resources
    PROVE  Total(small, r) <= Total(large, r)
<1>1. Units(small, r) \in SUBSET Units(large, r) BY DEF Units
<1>2. IsFiniteSet(Units(large, r)) BY UnitsFinite
<1> QED BY <1>1, <1>2, FS_Subset DEF Total

\* One more container reserves at most what it needs.
LEMMA TotalAdds ==
    ASSUME NEW set \in SUBSET Containers, NEW c \in Containers, NEW r \in Resources
    PROVE  Total(set \cup {c}, r) <= Total(set, r) + Need[c][r]
<1> DEFINE new == {c} \X (1 .. Need[c][r])
<1>1. Units(set \cup {c}, r) = Units(set, r) \cup new BY DEF Units
<1>2. IsFiniteSet({c}) /\ Cardinality({c}) = 1 BY FS_Singleton
<1>3. IsFiniteSet(1 .. Need[c][r]) /\ Cardinality(1 .. Need[c][r]) = Need[c][r]
  <2>1. Need[c][r] \in Nat BY NeedIsNumber
  <2>2. 1 \in Int /\ Need[c][r] \in Int BY <2>1
  <2>3. /\ IsFiniteSet(1 .. Need[c][r])
        /\ Cardinality(1 .. Need[c][r]) = IF 1 > Need[c][r] THEN 0 ELSE Need[c][r] - 1 + 1
    BY <2>2, FS_Interval
  <2>4. (IF 1 > Need[c][r] THEN 0 ELSE Need[c][r] - 1 + 1) = Need[c][r] BY <2>1
  <2> QED BY <2>3, <2>4
<1>4. IsFiniteSet(new) /\ Cardinality(new) = 1 * Need[c][r]
  <2> DEFINE one == {c}
             units == 1 .. Need[c][r]
  <2>1. IsFiniteSet(one) /\ Cardinality(one) = 1 BY <1>2
  <2>2. IsFiniteSet(units) /\ Cardinality(units) = Need[c][r] BY <1>3
  <2>3. new = one \X units OBVIOUS
  <2> HIDE DEF one, units, new
  <2>4. IsFiniteSet(one \X units) /\ Cardinality(one \X units) = Cardinality(one) * Cardinality(units)
    BY <2>1, <2>2, FS_Product
  <2> QED BY <2>1, <2>2, <2>3, <2>4
<1>5. IsFiniteSet(Units(set, r)) BY UnitsFinite
<1> HIDE DEF new
<1>6. /\ IsFiniteSet(Units(set, r) \cup new)
      /\ Cardinality(Units(set, r) \cup new) =
            Cardinality(Units(set, r)) + Cardinality(new) - Cardinality(Units(set, r) \cap new)
  BY <1>4, <1>5, FS_Union
<1>7. IsFiniteSet(Units(set, r) \cap new)
  <2>1. Units(set, r) \cap new \in SUBSET new OBVIOUS
  <2> QED BY <1>4, <2>1, FS_Subset
<1>8. /\ Cardinality(Units(set, r)) \in Nat /\ Cardinality(new) \in Nat
      /\ Cardinality(Units(set, r) \cap new) \in Nat
  BY <1>4, <1>5, <1>7, FS_CardinalityType
<1>9. Need[c][r] \in Nat BY NeedIsNumber
<1>10. Cardinality(Units(set, r) \cup new) <= Cardinality(Units(set, r)) + Need[c][r]
  BY <1>4, <1>6, <1>8, <1>9
<1> QED BY <1>1, <1>10 DEF Total

LEMMA NothingReserved ==
    ASSUME NEW r
    PROVE  Total({}, r) = 0
<1>1. Units({}, r) = {} BY DEF Units
<1> QED BY <1>1, FS_EmptySet DEF Total

\* A product of numbers, with one factor smaller or one larger.
LEMMA ProductGrows ==
    ASSUME NEW m \in Nat, NEW n \in Nat, NEW x \in Nat, m <= n
    PROVE  m * x \in Nat /\ n * x \in Nat /\ m * x <= n * x
<1>1. PICK d \in Nat : n = m + d
  <2>1. n - m \in Nat OBVIOUS
  <2> QED BY <2>1
<1>2. m * x \in Nat /\ n * x \in Nat /\ d * x \in Nat OBVIOUS
<1>3. (m + d) * x = m * x + d * x OBVIOUS
<1> QED BY <1>1, <1>2, <1>3

LEMMA ProductAdds ==
    ASSUME NEW m \in Nat, NEW x \in Nat
    PROVE  (m + 1) * x = m * x + x
OBVIOUS

\* Fewer builds need no more, and one more build what one build needs.
LEMMA BuildsTotal ==
    ASSUME NEW r \in Resources
    PROVE  /\ BuildTotal(r) \in Nat /\ BuildTotal(r)' \in Nat /\ BuildNeed[r] \in Nat
           /\ ActiveBuilds' \subseteq ActiveBuilds => BuildTotal(r)' <= BuildTotal(r)
           /\ (\E b : ActiveBuilds' \subseteq ActiveBuilds \cup {b}) =>
                 BuildTotal(r)' <= BuildTotal(r) + BuildNeed[r]
<1> PICK x \in Nat : x = BuildNeed[r] BY AdmissionConstants DEF Amounts
<1> PICK old : old = ActiveBuilds OBVIOUS
<1> PICK new : new = ActiveBuilds' OBVIOUS
<1> DEFINE m == Cardinality(new)
           n == Cardinality(old)
<1>1. IsFiniteSet(old) /\ IsFiniteSet(new)
  <2>1. old \in SUBSET Builds /\ new \in SUBSET Builds BY DEF ActiveBuilds
  <2> QED BY <2>1, AdmissionConstants, FS_Subset
<1>2. m \in Nat /\ n \in Nat BY <1>1, FS_CardinalityType
<1>3. BuildTotal(r) = n * x /\ BuildTotal(r)' = m * x BY DEF BuildTotal
<1>4. new \subseteq old => m <= n BY <1>1, FS_Subset
<1>5. ASSUME NEW b, new \subseteq old \cup {b} PROVE m <= n + 1
  <2>1. /\ IsFiniteSet(old \cup {b})
        /\ Cardinality(old \cup {b}) = IF b \in old THEN n ELSE n + 1
    BY <1>1, FS_AddElement
  <2>2. m <= Cardinality(old \cup {b}) BY <1>5, <2>1, FS_Subset
  <2> HIDE DEF m, n
  <2> QED BY <1>2, <2>1, <2>2
<1> HIDE DEF m, n
<1>6. m * x \in Nat /\ n * x \in Nat BY <1>2, ProductGrows
<1>7. m <= n => m * x <= n * x BY <1>2, ProductGrows
<1>8. m <= n + 1 => m * x <= n * x + x
  <2>1. n + 1 \in Nat BY <1>2
  <2>2. m <= n + 1 => m * x <= (n + 1) * x BY <1>2, <2>1, ProductGrows
  <2>3. (n + 1) * x = n * x + x BY <1>2, ProductAdds
  <2> QED BY <2>2, <2>3
<1> QED BY <1>3, <1>4, <1>5, <1>6, <1>7, <1>8

-----------------------------------------------------------------------------
(* Quotas *)

AdmittedOf(u) == {c \in Admitted : Owner[c] = u}

\* What a start has passed leaves room for it until it is written: the quota of
\* its owner, then the host; for a build, the CPU of the host.
RoomOfOwner(k) ==
    \A r \in Resources :
        Total(AdmittedOf(OwnerLock(k)), r) + Need[Subject(k)][r] <= Quota[OwnerLock(k)][r]
RoomOnHost(k) ==
    /\ Total(Admitted, "ram") + Need[Subject(k)]["ram"] <= Pool["ram"]
    /\ Total(Admitted, "cpu") + BuildTotal("cpu") + Need[Subject(k)]["cpu"] <= Pool["cpu"]
RoomForBuild == Total(Admitted, "cpu") + BuildTotal("cpu") + BuildNeed["cpu"] <= Pool["cpu"]

PassedQuota(k) == sessions[k].kind = "start" /\ sessions[k].pc \in {"host", "save"}
PassedHost(k) == sessions[k].kind = "start" /\ sessions[k].pc = "save"
PassedBuild(k) == sessions[k].kind = "build" /\ sessions[k].pc = "save"
HasRoom(k) ==
    /\ PassedQuota(k) => RoomOfOwner(k)
    /\ PassedHost(k) => RoomOnHost(k)
    /\ PassedBuild(k) => RoomForBuild

WishesHaveRoom == \A k \in Sessions : HasRoom(k)
QuotaInv == IInv /\ WishesHaveRoom /\ WantedWithinQuota

\* A step after which no more is admitted, and no more builds.
WishesShrink == Admitted' \subseteq Admitted /\ ActiveBuilds' \subseteq ActiveBuilds
\* A step that admits.
LetsIn(k) ==
    \/ QueueStart(k) /\ Admitted' \subseteq Admitted \cup {Subject(k)} /\ UNCHANGED builds
    \/ SaveBuild(k) /\ Admitted' = Admitted

\* The wish that a queued operation writes.
LEMMA QueueWishes ==
    ASSUME TypeOK, NEW c, NEW kind, NEW status, NEW wanted, NEW prev,
           Queue(c, kind, status, wanted, prev)
    PROVE  /\ wanted # "running" => Wanted' \subseteq Wanted
           /\ Wanted' \subseteq Wanted \cup {c}
<1>1. /\ desired' = [desired EXCEPT ![c] = wanted] /\ desired \in [Containers -> DesiredStatuses]
      /\ rows' = [rows EXCEPT ![c] = status] /\ rows \in [Containers -> Statuses]
  BY DEF Queue, TypeOK
<1> QED BY <1>1 DEF Wanted

\* A wish that is not a Start's is a stray one.
LEMMA StraysStayOut ==
    ASSUME Stray \/ (Wanted' \subseteq Wanted /\ UNCHANGED strays)
    PROVE  Admitted' \subseteq Admitted
BY DEF Stray, Admitted

LEMMA SameRows ==
    ASSUME UNCHANGED <<rows, desired, strays>>
    PROVE  Admitted' = Admitted
BY DEF Admitted, Wanted

LEMMA RequestWishes ==
    ASSUME TypeOK, SessionsSound, NEW k \in Sessions, RequestStep(k)
    PROVE  WishesShrink \/ LetsIn(k)
<1>1. CASE SaveContainer(k)
  <2>1. UNCHANGED <<builds, strays>> BY <1>1 DEF SaveContainer
  <2>2. Wanted' \subseteq Wanted
    <3>1. CASE ~Fresh(Subject(k)) BY <1>1, <3>1 DEF SaveContainer, Wanted
    <3>2. CASE Fresh(Subject(k))
      BY <1>1, <3>2, QueueWishes DEF SaveContainer
    <3> QED BY <3>1, <3>2
  <2> QED BY <2>1, <2>2, StraysStayOut DEF WishesShrink, ActiveBuilds
<1>2. CASE QueueStart(k)
  <2>1. UNCHANGED builds BY <1>2 DEF QueueStart
  <2>2. Admitted' \subseteq Admitted \cup {Subject(k)}
    <3>1. CASE Active(Subject(k)) \/ ~Exists(Subject(k))
      <4>1. UNCHANGED <<rows, desired, strays>> BY <1>2, <3>1 DEF QueueStart
      <4> QED BY <4>1, SameRows
    <3>2. CASE ~(Active(Subject(k)) \/ ~Exists(Subject(k)))
      <4>1. /\ Queue(Subject(k), "start", "starting", "running", sessions[k].seen.status)
            /\ strays' = strays \ {Subject(k)}
        BY <1>2, <3>2 DEF QueueStart
      <4>2. Wanted' \subseteq Wanted \cup {Subject(k)} BY <4>1, QueueWishes
      <4> QED BY <4>1, <4>2 DEF Admitted
    <3> QED BY <3>1, <3>2
  <2> QED BY <1>2, <2>1, <2>2 DEF LetsIn
<1>3. CASE QueueExpose(k)
  <2>1. UNCHANGED builds BY <1>3 DEF QueueExpose
  <2>2. Admitted' \subseteq Admitted
    <3>1. CASE Active(Subject(k)) \/ ~Exists(Subject(k))
      <4>1. UNCHANGED <<rows, desired, strays>> BY <1>3, <3>1 DEF QueueExpose
      <4> QED BY <4>1, SameRows
    <3>2. CASE ~(Active(Subject(k)) \/ ~Exists(Subject(k)))
      <4>1. Stray BY <1>3, <3>2 DEF QueueExpose
      <4> QED BY <4>1, StraysStayOut
    <3> QED BY <3>1, <3>2
  <2> QED BY <2>1, <2>2 DEF WishesShrink, ActiveBuilds
<1>4. CASE SaveBuild(k)
  <2>1. UNCHANGED <<rows, desired, strays>> BY <1>4 DEF SaveBuild, containers
  <2> QED BY <1>4, <2>1, SameRows DEF LetsIn
<1>5. CASE \/ Ask(k) \/ LockOwner(k) \/ LockCapacity(k) \/ CheckLimits(k) \/ CheckQuota(k)
           \/ CheckHost(k) \/ Unlock(k) \/ LockFails(k) \/ CheckFails(k)
  <2>1. UNCHANGED <<rows, desired, strays, builds>>
    BY <1>5 DEF Ask, LockOwner, LockCapacity, CheckLimits, CheckQuota, CheckHost, Unlock,
                LockFails, CheckFails, containers
  <2> QED BY <2>1, SameRows DEF WishesShrink, ActiveBuilds
<1> QED BY <1>1, <1>2, <1>3, <1>4, <1>5 DEF RequestStep, SessionStep, Save

LEMMA ContainerWishes ==
    ASSUME TypeOK, NEW c \in Containers, OfContainer(c)
    PROVE  WishesShrink
<1> USE DEF containers
<1>0. /\ desired \in [Containers -> DesiredStatuses] /\ rows \in [Containers -> Statuses]
      /\ UNCHANGED builds => ActiveBuilds' = ActiveBuilds
  BY DEF TypeOK, ActiveBuilds
<1>1. CASE AskStop(c)
  <2>1. Queue(c, "stop", "stopping", "exited", rows[c]) /\ UNCHANGED <<builds, strays>>
    BY <1>1 DEF AskStop
  <2> QED BY <1>0, <2>1, QueueWishes, StraysStayOut DEF WishesShrink
<1>2. CASE AskDelete(c)
  <2>1. UNCHANGED <<builds, strays>> BY <1>2 DEF AskDelete
  <2>2. Wanted' \subseteq Wanted
    <3>1. CASE Queue(c, "delete", "deleting", "deleting", rows[c]) BY <3>1, QueueWishes
    <3>2. CASE desired' = [desired EXCEPT ![c] = "none"] /\ rows' = [rows EXCEPT ![c] = "none"]
      BY <1>0, <3>2 DEF Wanted
    <3> QED BY <1>2, <3>1, <3>2 DEF AskDelete
  <2> QED BY <1>0, <2>1, <2>2, StraysStayOut DEF WishesShrink
<1>3. CASE Acts(c) \/ Ends(c) \/ Vanishes(c) \/ InspectFails(c) \/ ApplyFails(c)
  <2>1. UNCHANGED <<rows, desired, strays, builds>>
    BY <1>3 DEF Acts, Ends, Vanishes, InspectFails, ApplyFails
  <2> QED BY <1>0, <2>1, SameRows DEF WishesShrink
<1>4. CASE OpDone(c) \/ OpFails(c)
  <2>1. Stray /\ UNCHANGED builds BY <1>4 DEF OpDone, OpFails
  <2> QED BY <1>0, <2>1, StraysStayOut DEF WishesShrink
<1>5. CASE FindsNothing(c) \/ AskBlank(c)
  <2>1. /\ rows' = [rows EXCEPT ![c] = "missing"] /\ UNCHANGED <<desired, strays, builds>>
    BY <1>5 DEF FindsNothing, AskBlank
  <2>2. Wanted' \subseteq Wanted BY <1>0, <2>1 DEF Wanted
  <2> QED BY <1>0, <2>1, <2>2, StraysStayOut DEF WishesShrink
<1> QED BY <1>1, <1>2, <1>3, <1>4, <1>5 DEF OfContainer, ContainerStep

LEMMA OtherWishes ==
    ASSUME TypeOK,
           \/ Watches
           \/ \E b \in Builds : BuildEnds(b)
           \/ Rebalance \/ ReadFails \/ ConfigStep \/ Restart
    PROVE  WishesShrink
<1>1. CASE Watches
  <2>1. UNCHANGED builds
    BY <1>1 DEF Watches, WatcherStep, TakeEvent, WriteEvent, ListContainers, WriteObserved,
                CheckActive, InspectContainer
  <2>2. UNCHANGED <<rows, desired, strays>> \/ Stray
    BY <1>1 DEF Watches, WatcherStep, TakeEvent, WriteEvent, ListContainers, WriteObserved,
                CheckActive, InspectContainer, WriteRow
  <2> QED BY <2>1, <2>2, SameRows, StraysStayOut DEF WishesShrink, ActiveBuilds
<1>2. CASE \E b \in Builds : BuildEnds(b)
  <2>1. UNCHANGED <<rows, desired, strays>> /\ ActiveBuilds' \subseteq ActiveBuilds
    BY <1>2 DEF BuildEnds, containers, TypeOK, ActiveBuilds
  <2> QED BY <2>1, SameRows DEF WishesShrink
<1>3. CASE Rebalance \/ ReadFails \/ ConfigStep \/ Restart
  <2>1. UNCHANGED <<rows, desired, strays, builds>>
    BY <1>3 DEF Rebalance, TakeRequest, ReadRunning, Apply, ConfigStep, AskRebalance,
                Reconfigure, ReadFails, Restart, Crash, containers
  <2> QED BY <2>1, SameRows DEF WishesShrink, ActiveBuilds
<1> QED BY <1>1, <1>2, <1>3

\* More is admitted only by admission.
LEMMA WishesStep ==
    ASSUME IInv, Next
    PROVE  WishesShrink \/ \E k \in Sessions : LetsIn(k)
<1> TypeOK /\ SessionsSound BY DEF IInv
<1>1. CASE \E k \in Sessions : RequestStep(k) BY <1>1, RequestWishes
<1>2. CASE \E c \in Containers : OfContainer(c) BY <1>2, ContainerWishes
<1>3. CASE \/ Watches \/ (\E b \in Builds : BuildEnds(b))
           \/ Rebalance \/ ReadFails \/ ConfigStep \/ Restart
  BY <1>3, OtherWishes
<1> QED BY <1>1, <1>2, <1>3 DEF Next, OwnStep, RequestStep, OfContainer, Watches

\* Sums after a step that wants no more, and after one that wants one more.
LEMMA SumsShrink ==
    ASSUME WishesShrink, NEW u, NEW r \in Resources
    PROVE  /\ Total(Admitted, r)' \in Nat /\ Total(Admitted, r) \in Nat
           /\ Total(AdmittedOf(u), r)' \in Nat /\ Total(AdmittedOf(u), r) \in Nat
           /\ Total(Admitted, r)' <= Total(Admitted, r)
           /\ Total(AdmittedOf(u), r)' <= Total(AdmittedOf(u), r)
           /\ BuildTotal(r)' <= BuildTotal(r)
<1> PICK W : W = Admitted' OBVIOUS
<1> PICK Wu : Wu = AdmittedOf(u)' OBVIOUS
<1>1. Total(Admitted, r)' = Total(W, r) /\ Total(AdmittedOf(u), r)' = Total(Wu, r)
  BY DEF Total, Units
<1>2. W \in SUBSET Admitted /\ Admitted \in SUBSET Containers /\ W \in SUBSET Containers
  BY DEF WishesShrink, Admitted, Wanted
<1>3. /\ Wu \in SUBSET AdmittedOf(u) /\ AdmittedOf(u) \in SUBSET Containers
      /\ Wu \in SUBSET Containers
  BY <1>2 DEF AdmittedOf
<1> QED BY <1>1, <1>2, <1>3, UnitsFinite, TotalGrows, BuildsTotal DEF WishesShrink

LEMMA SumsAdd ==
    ASSUME NEW c \in Containers, Admitted' \subseteq Admitted \cup {c}, UNCHANGED builds,
           NEW u, NEW r \in Resources
    PROVE  /\ Total(Admitted, r)' \in Nat /\ Total(Admitted, r) \in Nat
           /\ Total(AdmittedOf(u), r)' \in Nat /\ Total(AdmittedOf(u), r) \in Nat
           /\ Total(Admitted, r)' <= Total(Admitted, r) + Need[c][r]
           /\ u = Owner[c] => Total(AdmittedOf(u), r)' <= Total(AdmittedOf(u), r) + Need[c][r]
           /\ u # Owner[c] => Total(AdmittedOf(u), r)' <= Total(AdmittedOf(u), r)
           /\ BuildTotal(r)' = BuildTotal(r)
<1> PICK W : W = Admitted' OBVIOUS
<1> PICK Wu : Wu = AdmittedOf(u)' OBVIOUS
<1>1. Total(Admitted, r)' = Total(W, r) /\ Total(AdmittedOf(u), r)' = Total(Wu, r)
  BY DEF Total, Units
<1>2. /\ W \in SUBSET (Admitted \cup {c}) /\ Admitted \in SUBSET Containers
      /\ Admitted \cup {c} \in SUBSET Containers /\ W \in SUBSET Containers
  BY DEF Admitted, Wanted
<1>3. /\ AdmittedOf(u) \in SUBSET Containers /\ Wu \in SUBSET Containers
      /\ AdmittedOf(u) \cup {c} \in SUBSET Containers
      /\ Wu \in SUBSET (AdmittedOf(u) \cup {c})
  BY <1>2 DEF AdmittedOf
<1>4. u # Owner[c] => Wu \in SUBSET AdmittedOf(u) BY <1>2 DEF AdmittedOf
<1>5. /\ Total(W, r) \in Nat /\ Total(Admitted, r) \in Nat
      /\ Total(Wu, r) \in Nat /\ Total(AdmittedOf(u), r) \in Nat
      /\ Total(Admitted \cup {c}, r) \in Nat /\ Total(AdmittedOf(u) \cup {c}, r) \in Nat
  BY <1>2, <1>3, UnitsFinite
<1>6. /\ Total(W, r) <= Total(Admitted \cup {c}, r)
      /\ Total(Admitted \cup {c}, r) <= Total(Admitted, r) + Need[c][r]
  BY <1>2, TotalGrows, TotalAdds
<1>7. /\ Total(Wu, r) <= Total(AdmittedOf(u) \cup {c}, r)
      /\ Total(AdmittedOf(u) \cup {c}, r) <= Total(AdmittedOf(u), r) + Need[c][r]
  BY <1>3, TotalGrows, TotalAdds
<1>8. u # Owner[c] => Total(Wu, r) <= Total(AdmittedOf(u), r)
  BY <1>3, <1>4, TotalGrows
<1>9. Need[c][r] \in Nat BY NeedIsNumber
<1>10. BuildTotal(r)' = BuildTotal(r) BY DEF BuildTotal, ActiveBuilds
<1> QED BY <1>1, <1>5, <1>6, <1>7, <1>8, <1>9, <1>10

LEMMA PoolsAreNumbers ==
    ASSUME NEW r \in Resources
    PROVE  Pool[r] \in Nat /\ BuildNeed[r] \in Nat /\ \A u \in Users : Quota[u][r] \in Nat
BY AdmissionConstants DEF Amounts

\* A start or a build that has passed a check after a step had passed it before,
\* or passes it now.
LEMMA PassedQuotaStep ==
    ASSUME IInv, Next, NEW j \in Sessions,
           PassedQuota(j)' \/ PassedHost(j)' \/ PassedBuild(j)'
    PROVE  /\ Admitting(j) /\ Admitting(j)'
           /\ sessions'[j].kind = sessions[j].kind /\ sessions'[j].on = sessions[j].on
           /\ \/ sessions'[j].pc = sessions[j].pc
              \/ CheckQuota(j) /\ Goto("host", j)
              \/ CheckHost(j) /\ Goto("save", j)
<1> DEFINE Goal ==
             /\ Admitting(j)
             /\ sessions'[j].kind = sessions[j].kind /\ sessions'[j].on = sessions[j].on
             /\ \/ sessions'[j].pc = sessions[j].pc
                \/ CheckQuota(j) /\ Goto("host", j)
                \/ CheckHost(j) /\ Goto("save", j)
<1> /\ TypeOK /\ SessionsSound /\ sessions \in [Sessions -> SessionType]
  BY DEF IInv, TypeOK
<1> /\ sessions'[j].pc \in {"host", "save"} /\ sessions'[j].kind \in {"start", "build"}
    /\ sessions'[j].kind = "build" => sessions'[j].pc = "save"
  BY DEF PassedQuota, PassedHost, PassedBuild
<1>0. ASSUME sessions'[j] = sessions[j] PROVE Goal BY <1>0 DEF Admitting
<1>1. ASSUME RequestStep(j) PROVE Goal
  <2>1. CASE Ask(j) \/ QueueExpose(j) \/ Unlock(j)
    <3>1. sessions'[j].pc \in {"owner", "capacity", "expose", "idle"}
      BY <2>1, AskBegins DEF QueueExpose, Unlock, Idle
    <3> QED BY <3>1
  <2>2. CASE LockOwner(j) \/ LockFails(j) \/ CheckFails(j) \/ SaveContainer(j)
             \/ QueueStart(j) \/ SaveBuild(j)
    <3>1. Goto("capacity", j) \/ Goto("unlock", j)
      BY <2>2 DEF LockOwner, LockFails, CheckFails, Unlocking, SaveContainer, QueueStart,
                  SaveBuild
    <3>2. sessions'[j].pc \in {"capacity", "unlock"} BY <3>1, GotoKeeps DEF Pcs
    <3> QED BY <3>2
  <2>3. CASE LockCapacity(j)
    <3>1. Goto("limits", j) \/ Goto("quota", j) BY <2>3, ChecksGo
    <3>2. sessions'[j].pc \in {"limits", "quota"} BY <3>1, GotoKeeps DEF Pcs
    <3> QED BY <3>2
  <2>4. CASE CheckLimits(j)
    <3>1. CASE Goto("unlock", j) \/ Goto("quota", j)
      <4>1. sessions'[j].pc \in {"unlock", "quota"} BY <3>1, GotoKeeps DEF Pcs
      <4> QED BY <4>1
    <3>2. CASE sessions[j].kind = "build" /\ Goto("host", j)
      <4>1. sessions'[j].pc = "host" /\ sessions'[j].kind = "build"
        BY <3>2, GotoKeeps DEF Pcs
      <4> QED BY <4>1
    <3> QED BY <2>4, <3>1, <3>2, ChecksGo
  <2>5. CASE CheckQuota(j)
    <3>1. CASE Goto("unlock", j)
      <4>1. sessions'[j].pc = "unlock" BY <3>1, GotoKeeps DEF Pcs
      <4> QED BY <4>1
    <3>2. CASE Goto("host", j)
      BY <2>5, <3>2, GotoKeeps DEF Pcs, CheckQuota, At, Admitting
    <3> QED BY <2>5, <3>1, <3>2, ChecksGo
  <2>6. CASE CheckHost(j)
    <3>1. CASE Goto("unlock", j)
      <4>1. sessions'[j].pc = "unlock" BY <3>1, GotoKeeps DEF Pcs
      <4> QED BY <4>1
    <3>2. CASE Goto("save", j)
      BY <2>6, <3>2, GotoKeeps DEF Pcs, CheckHost, At, Admitting
    <3> QED BY <2>6, <3>1, <3>2, ChecksGo
  <2> QED BY <1>1, <2>1, <2>2, <2>3, <2>4, <2>5, <2>6 DEF RequestStep, SessionStep, Save
<1>2. ASSUME NEW k \in Sessions, k # j, RequestStep(k) PROVE Goal
  BY <1>0, <1>2, RequestKeepsOrder DEF IInv
<1>3. ASSUME Restart PROVE Goal
  <2>1. sessions'[j].pc = "idle" BY <1>3 DEF Restart, Crash, Idle
  <2> QED BY <2>1
<1>4. ASSUME UNCHANGED <<sessions, locks>> PROVE Goal BY <1>0, <1>4
<1>5. Goal BY <1>1, <1>2, <1>3, <1>4, RequestsMove
<1>6. Admitting(j)' BY DEF Admitting
<1> QED BY <1>5, <1>6

\* A start has passed the owner's quota in the state it is checked in.
LEMMA QuotaChecked ==
    ASSUME IInv, NEW k \in Sessions, CheckQuota(k), Goto("host", k), sessions[k].kind = "start"
    PROVE  RoomOfOwner(k)
<1> SUFFICES ASSUME NEW r \in Resources
             PROVE  Total(AdmittedOf(OwnerLock(k)), r) + Need[Subject(k)][r]
                       <= Quota[OwnerLock(k)][r]
  BY DEF RoomOfOwner
<1>0. /\ sessions \in [Sessions -> SessionType] /\ Subject(k) \in Containers
      /\ OwnerLock(k) \in Users
  BY AdmissionConstants DEF IInv, TypeOK, SessionsSound, Sound, Subject, OwnerLock
<1>1. WithinQuota(k, r)
  <2>1. sessions'[k].pc = "host" BY <1>0, GotoKeeps DEF Pcs
  <2>2. ASSUME ~(\A x \in Resources : WithinQuota(k, x)) PROVE FALSE
    <3>1. Goto("unlock", k) BY <2>2 DEF CheckQuota, Unlocking
    <3>2. sessions'[k].pc = "unlock" BY <1>0, <3>1, GotoKeeps DEF Pcs
    <3> QED BY <2>1, <3>2
  <2> QED BY <2>2
<1> DEFINE used == {c \in Reserving : Owner[c] = OwnerLock(k)}
<1>2. used \in SUBSET Containers /\ AdmittedOf(OwnerLock(k)) \in SUBSET used
  BY DEF Reserving, AdmittedOf, Admitted, Wanted
<1>3. Total(used, r) + Need[Subject(k)][r] <= Quota[OwnerLock(k)][r]
  BY <1>1 DEF WithinQuota, UsedBy
<1> HIDE DEF used
<1>4. AdmittedOf(OwnerLock(k)) \in SUBSET Containers BY <1>2
<1>5. Total(AdmittedOf(OwnerLock(k)), r) <= Total(used, r) BY <1>2, TotalGrows
<1>6. Total(AdmittedOf(OwnerLock(k)), r) \in Nat /\ Total(used, r) \in Nat
  BY <1>2, <1>4, UnitsFinite
<1>7. Need[Subject(k)][r] \in Nat /\ Quota[OwnerLock(k)][r] \in Nat
  BY <1>0, NeedIsNumber, PoolsAreNumbers
<1> QED BY <1>3, <1>5, <1>6, <1>7

\* The same of the host.
LEMMA HostChecked ==
    ASSUME IInv, NEW k \in Sessions, CheckHost(k), Goto("save", k)
    PROVE  /\ sessions[k].kind = "start" => RoomOnHost(k)
           /\ sessions[k].kind = "build" => RoomForBuild
<1>0. /\ sessions \in [Sessions -> SessionType]
      /\ sessions[k].kind = "start" => Subject(k) \in Containers
      /\ "ram" \in Resources /\ "cpu" \in Resources
  BY DEF IInv, TypeOK, SessionsSound, Sound, Subject, Resources
<1>1. \A r \in Resources : Fits(k, r)
  <2>1. sessions'[k].pc = "save" BY <1>0, GotoKeeps DEF Pcs
  <2>2. ASSUME ~(\A x \in Resources : Fits(k, x)) PROVE FALSE
    <3>1. Goto("unlock", k) BY <2>2 DEF CheckHost, Unlocking
    <3>2. sessions'[k].pc = "unlock" BY <1>0, <3>1, GotoKeeps DEF Pcs
    <3> QED BY <2>1, <3>2
  <2> QED BY <2>2
<1>2. Admitted \in SUBSET Reserving /\ Reserving \in SUBSET Containers /\ Admitted \in SUBSET Containers
  BY DEF Reserving, Admitted, Wanted
<1>3. ASSUME NEW r \in Resources
      PROVE  /\ Total(Admitted, r) \in Nat /\ Total(Reserving, r) \in Nat
             /\ Total(Admitted, r) <= Total(Reserving, r)
             /\ BuildTotal(r) \in Nat /\ Pool[r] \in Nat /\ BuildNeed[r] \in Nat
  BY <1>2, UnitsFinite, TotalGrows, BuildsTotal, PoolsAreNumbers
<1>4. ASSUME sessions[k].kind = "start" PROVE RoomOnHost(k)
  <2>1. Total(Reserving, "ram") + Need[Subject(k)]["ram"] <= Pool["ram"]
    <3>1. Fits(k, "ram") BY <1>0, <1>1
    <3>2. HostUse(k, "ram") = Total(Reserving, "ram") + 0 BY <1>4 DEF HostUse
    <3>3. Wants(k, "ram") = Need[Subject(k)]["ram"] BY <1>4 DEF Wants
    <3> QED BY <1>0, <1>3, <3>1, <3>2, <3>3 DEF Fits
  <2>2. Total(Reserving, "cpu") + BuildTotal("cpu") + Need[Subject(k)]["cpu"] <= Pool["cpu"]
    <3>1. Fits(k, "cpu") BY <1>0, <1>1
    <3>2. HostUse(k, "cpu") = Total(Reserving, "cpu") + BuildTotal("cpu")
      BY <1>4 DEF HostUse
    <3>3. Wants(k, "cpu") = Need[Subject(k)]["cpu"] BY <1>4 DEF Wants
    <3> QED BY <3>1, <3>2, <3>3 DEF Fits
  <2>3. Need[Subject(k)]["ram"] \in Nat /\ Need[Subject(k)]["cpu"] \in Nat
    BY <1>0, <1>4, NeedIsNumber
  <2>4. Total(Admitted, "ram") + Need[Subject(k)]["ram"] <= Pool["ram"]
    BY <1>0, <1>3, <2>1, <2>3
  <2>5. Total(Admitted, "cpu") + BuildTotal("cpu") + Need[Subject(k)]["cpu"] <= Pool["cpu"]
    BY <1>0, <1>3, <2>2, <2>3
  <2> QED BY <2>4, <2>5 DEF RoomOnHost
<1>5. ASSUME sessions[k].kind = "build" PROVE RoomForBuild
  <2>1. Fits(k, "cpu") BY <1>0, <1>1
  <2>2. HostUse(k, "cpu") = Total(Reserving, "cpu") + BuildTotal("cpu")
    BY <1>5 DEF HostUse
  <2>3. Wants(k, "cpu") = BuildNeed["cpu"] BY <1>5 DEF Wants
  <2>4. Total(Reserving, "cpu") + BuildTotal("cpu") + BuildNeed["cpu"] <= Pool["cpu"]
    BY <2>1, <2>2, <2>3 DEF Fits
  <2>5. Total(Admitted, "cpu") + BuildTotal("cpu") + BuildNeed["cpu"] <= Pool["cpu"]
    BY <1>0, <1>3, <2>4
  <2> QED BY <2>5 DEF RoomForBuild
<1> QED BY <1>4, <1>5

\* Whoever lets something in is alone in admitting, and has room for it.
LEMMA LetsInAdmits ==
    ASSUME IInv, NEW k \in Sessions, LetsIn(k)
    PROVE  /\ Admitting(k) /\ ~Admitting(k)'
           /\ QueueStart(k) => PassedQuota(k) /\ PassedHost(k) /\ Subject(k) \in Containers
           /\ SaveBuild(k) => PassedBuild(k)
<1>1. At(k, "save") /\ Goto("unlock", k) BY DEF LetsIn, QueueStart, SaveBuild
<1>2. ~Admitting(k)' BY <1>1, GotoKeeps DEF IInv, TypeOK, Pcs, Admitting
<1>3. QueueStart(k) => sessions[k].kind = "start" /\ Subject(k) \in Containers
  BY DEF QueueStart, IInv, SessionsSound, Sound, Subject
<1> QED
  BY <1>1, <1>2, <1>3
     DEF At, Admitting, SaveBuild, PassedQuota, PassedHost, PassedBuild

LEMMA RoomStays ==
    ASSUME IInv, WishesShrink, NEW j \in Sessions,
           PassedQuota(j)' \/ PassedHost(j)' \/ PassedBuild(j)',
           sessions'[j].kind = sessions[j].kind, sessions'[j].on = sessions[j].on
    PROVE  /\ RoomOfOwner(j) /\ sessions[j].kind = "start" => RoomOfOwner(j)'
           /\ RoomOnHost(j) /\ sessions[j].kind = "start" => RoomOnHost(j)'
           /\ RoomForBuild => RoomForBuild'
<1> PICK c : c = Subject(j) OBVIOUS
<1> PICK u : u = OwnerLock(j) OBVIOUS
<1>1. Subject(j)' = c /\ OwnerLock(j)' = u BY DEF Subject, OwnerLock
<1>2. "ram" \in Resources /\ "cpu" \in Resources BY DEF Resources
<1>3. sessions[j].kind = "start" => c \in Containers /\ u \in Users
  BY AdmissionConstants DEF IInv, SessionsSound, Sound, Subject, OwnerLock
<1>4. ASSUME NEW r \in Resources
      PROVE  /\ Total(Admitted, r)' \in Nat /\ Total(Admitted, r) \in Nat
             /\ Total(AdmittedOf(u), r)' \in Nat /\ Total(AdmittedOf(u), r) \in Nat
             /\ Total(Admitted, r)' <= Total(Admitted, r)
             /\ Total(AdmittedOf(u), r)' <= Total(AdmittedOf(u), r)
             /\ BuildTotal(r)' <= BuildTotal(r)
             /\ BuildTotal(r) \in Nat /\ BuildTotal(r)' \in Nat
             /\ Pool[r] \in Nat /\ BuildNeed[r] \in Nat
             /\ \A x \in Users : Quota[x][r] \in Nat
             /\ \A x \in Containers : Need[x][r] \in Nat
  BY SumsShrink, BuildsTotal, PoolsAreNumbers, NeedIsNumber
<1>5. ASSUME RoomOfOwner(j), sessions[j].kind = "start" PROVE RoomOfOwner(j)'
  <2>1. ASSUME NEW r \in Resources
        PROVE  Total(AdmittedOf(u), r)' + Need[c][r] <= Quota[u][r]
    <3>1. Total(AdmittedOf(u), r) + Need[c][r] <= Quota[u][r] BY <1>5 DEF RoomOfOwner
    <3>2. Need[c][r] \in Nat /\ Quota[u][r] \in Nat BY <1>3, <1>4, <1>5
    <3> QED BY <1>4, <3>1, <3>2
  <2> QED BY <1>1, <2>1 DEF RoomOfOwner, AdmittedOf, Total, Units
<1>6. ASSUME RoomOnHost(j), sessions[j].kind = "start" PROVE RoomOnHost(j)'
  <2>1. Need[c]["ram"] \in Nat /\ Need[c]["cpu"] \in Nat BY <1>2, <1>3, <1>4, <1>6
  <2>2. /\ Total(Admitted, "ram") + Need[c]["ram"] <= Pool["ram"]
        /\ Total(Admitted, "cpu") + BuildTotal("cpu") + Need[c]["cpu"] <= Pool["cpu"]
    BY <1>6 DEF RoomOnHost
  <2>3. Total(Admitted, "ram")' + Need[c]["ram"] <= Pool["ram"] BY <1>2, <1>4, <2>1, <2>2
  <2>4. Total(Admitted, "cpu")' + BuildTotal("cpu")' + Need[c]["cpu"] <= Pool["cpu"]
    BY <1>2, <1>4, <2>1, <2>2
  <2> QED BY <1>1, <2>3, <2>4 DEF RoomOnHost
<1>7. ASSUME RoomForBuild PROVE RoomForBuild'
  <2>1. Total(Admitted, "cpu")' + BuildTotal("cpu")' + BuildNeed["cpu"] <= Pool["cpu"]
    BY <1>2, <1>4, <1>7 DEF RoomForBuild
  <2> QED BY <2>1 DEF RoomForBuild
<1> QED BY <1>5, <1>6, <1>7

LEMMA HasRoomStep ==
    ASSUME QuotaInv, Next, NEW j \in Sessions
    PROVE  HasRoom(j)'
<1> SUFFICES ASSUME PassedQuota(j)' \/ PassedHost(j)' \/ PassedBuild(j)'
             PROVE  HasRoom(j)'
  BY DEF HasRoom
<1>1. IInv /\ HasRoom(j) BY DEF QuotaInv, WishesHaveRoom
<1>2. /\ Admitting(j) /\ Admitting(j)'
      /\ sessions'[j].kind = sessions[j].kind /\ sessions'[j].on = sessions[j].on
      /\ \/ sessions'[j].pc = sessions[j].pc
         \/ CheckQuota(j) /\ Goto("host", j)
         \/ CheckHost(j) /\ Goto("save", j)
  BY <1>1, PassedQuotaStep
<1>3. WishesShrink
  <2>1. ASSUME NEW k \in Sessions, LetsIn(k) PROVE FALSE
    <3>1. Admitting(k) /\ ~Admitting(k)' BY <1>1, <2>1, LetsInAdmits
    <3>2. j = k BY <1>1, <1>2, <3>1, OneAdmits
    <3> QED BY <1>2, <3>1, <3>2
  <2> QED BY <1>1, <2>1, WishesStep
<1>4. /\ RoomOfOwner(j) /\ sessions[j].kind = "start" => RoomOfOwner(j)'
      /\ RoomOnHost(j) /\ sessions[j].kind = "start" => RoomOnHost(j)'
      /\ RoomForBuild => RoomForBuild'
  BY <1>1, <1>2, <1>3, RoomStays
<1>5. /\ PassedQuota(j)' => sessions[j].kind = "start" /\ RoomOfOwner(j)
      /\ PassedHost(j)' => sessions[j].kind = "start" /\ RoomOnHost(j)
      /\ PassedBuild(j)' => RoomForBuild
  <2>0. sessions \in [Sessions -> SessionType] BY <1>1 DEF IInv, TypeOK
  <2>1. CASE sessions'[j].pc = sessions[j].pc
    BY <1>1, <1>2, <2>1 DEF HasRoom, PassedQuota, PassedHost, PassedBuild
  <2>2. CASE CheckQuota(j) /\ Goto("host", j)
    <3>1. sessions'[j].pc = "host" BY <2>0, <2>2, GotoKeeps DEF Pcs
    <3>2. sessions[j].kind = "start" => RoomOfOwner(j) BY <1>1, <2>2, QuotaChecked
    <3> QED BY <1>2, <3>1, <3>2 DEF PassedQuota, PassedHost, PassedBuild
  <2>3. CASE CheckHost(j) /\ Goto("save", j)
    <3>1. sessions[j].pc = "host" BY <2>3 DEF CheckHost, At
    <3>2. /\ sessions[j].kind = "start" => RoomOnHost(j)
          /\ sessions[j].kind = "build" => RoomForBuild
      BY <1>1, <2>3, HostChecked
    <3>3. sessions[j].kind = "start" => RoomOfOwner(j)
      BY <1>1, <3>1 DEF HasRoom, PassedQuota
    <3> QED BY <1>2, <3>2, <3>3 DEF PassedQuota, PassedHost, PassedBuild
  <2> QED BY <1>2, <2>1, <2>2, <2>3
<1> QED BY <1>4, <1>5 DEF HasRoom

LEMMA QuotaStep ==
    ASSUME QuotaInv, Next
    PROVE  WantedWithinQuota'
<1> SUFFICES /\ \A u \in Users, r \in Resources : Total(AdmittedOf(u), r)' <= Quota[u][r]
             /\ Total(Admitted, "ram")' <= Pool["ram"]
             /\ Total(Admitted, "cpu")' + BuildTotal("cpu")' <= Pool["cpu"]
  BY DEF WantedWithinQuota, AdmittedOf, Total, Units
<1>0. "ram" \in Resources /\ "cpu" \in Resources BY DEF Resources
<1>1. IInv /\ \A k \in Sessions : HasRoom(k) BY DEF QuotaInv, WishesHaveRoom
<1>2. /\ \A u \in Users, r \in Resources : Total(AdmittedOf(u), r) <= Quota[u][r]
      /\ Total(Admitted, "ram") <= Pool["ram"]
      /\ Total(Admitted, "cpu") + BuildTotal("cpu") <= Pool["cpu"]
  BY <1>1 DEF QuotaInv, WantedWithinQuota, AdmittedOf
<1>3. ASSUME NEW r \in Resources
      PROVE  /\ BuildTotal(r) \in Nat /\ BuildTotal(r)' \in Nat
             /\ Pool[r] \in Nat /\ BuildNeed[r] \in Nat
             /\ \A x \in Users : Quota[x][r] \in Nat
             /\ \A x \in Containers : Need[x][r] \in Nat
  BY BuildsTotal, PoolsAreNumbers, NeedIsNumber
<1>4. CASE WishesShrink
  <2>1. ASSUME NEW u \in Users, NEW r \in Resources
        PROVE  Total(AdmittedOf(u), r)' <= Quota[u][r]
    BY <1>2, <1>3, <1>4, SumsShrink
  <2>2. ASSUME NEW r \in Resources
        PROVE  /\ Total(Admitted, r)' \in Nat /\ Total(Admitted, r) \in Nat
               /\ Total(Admitted, r)' <= Total(Admitted, r)
               /\ BuildTotal(r)' <= BuildTotal(r)
    BY <1>4, SumsShrink
  <2>3. Total(Admitted, "ram")' <= Pool["ram"] BY <1>0, <1>2, <1>3, <2>2
  <2>4. Total(Admitted, "cpu")' + BuildTotal("cpu")' <= Pool["cpu"] BY <1>0, <1>2, <1>3, <2>2
  <2> QED BY <2>1, <2>3, <2>4
<1>5. ASSUME NEW k \in Sessions, QueueStart(k), Admitted' \subseteq Admitted \cup {Subject(k)},
             UNCHANGED builds
      PROVE  /\ \A u \in Users, r \in Resources : Total(AdmittedOf(u), r)' <= Quota[u][r]
             /\ Total(Admitted, "ram")' <= Pool["ram"]
             /\ Total(Admitted, "cpu")' + BuildTotal("cpu")' <= Pool["cpu"]
  <2> PICK c : c = Subject(k) OBVIOUS
  <2>1. PassedQuota(k) /\ PassedHost(k) /\ c \in Containers
    BY <1>1, <1>5, LetsInAdmits DEF LetsIn
  <2>2. RoomOfOwner(k) /\ RoomOnHost(k) BY <1>1, <2>1 DEF HasRoom
  <2>3. OwnerLock(k) = Owner[c] BY DEF OwnerLock
  <2>4. ASSUME NEW u \in Users, NEW r \in Resources
        PROVE  Total(AdmittedOf(u), r)' <= Quota[u][r]
    <3>0. /\ Need[c][r] \in Nat /\ Quota[u][r] \in Nat
          /\ Total(AdmittedOf(u), r)' \in Nat /\ Total(AdmittedOf(u), r) \in Nat
      BY <1>3, <1>5, <2>1, SumsAdd
    <3>1. CASE u = Owner[c]
      <4>1. Total(AdmittedOf(u), r) + Need[c][r] <= Quota[u][r]
        BY <2>2, <2>3, <3>1 DEF RoomOfOwner
      <4>2. Total(AdmittedOf(u), r)' <= Total(AdmittedOf(u), r) + Need[c][r]
        BY <1>5, <2>1, <3>1, SumsAdd
      <4> QED BY <3>0, <4>1, <4>2
    <3>2. CASE u # Owner[c]
      <4>1. Total(AdmittedOf(u), r)' <= Total(AdmittedOf(u), r)
        BY <1>5, <2>1, <3>2, SumsAdd
      <4>2. Total(AdmittedOf(u), r) <= Quota[u][r] BY <1>2
      <4> QED BY <3>0, <4>1, <4>2
    <3> QED BY <3>1, <3>2
  <2>5. ASSUME NEW r \in Resources
        PROVE  /\ Total(Admitted, r)' \in Nat /\ Total(Admitted, r) \in Nat /\ Need[c][r] \in Nat
               /\ Total(Admitted, r)' <= Total(Admitted, r) + Need[c][r]
               /\ BuildTotal(r)' = BuildTotal(r)
    BY <1>3, <1>5, <2>1, SumsAdd
  <2>6. /\ Total(Admitted, "ram") + Need[c]["ram"] <= Pool["ram"]
        /\ Total(Admitted, "cpu") + BuildTotal("cpu") + Need[c]["cpu"] <= Pool["cpu"]
    BY <2>2 DEF RoomOnHost
  <2>7. Total(Admitted, "ram")' <= Pool["ram"] BY <1>0, <1>3, <2>5, <2>6
  <2>8. Total(Admitted, "cpu")' + BuildTotal("cpu")' <= Pool["cpu"] BY <1>0, <1>3, <2>5, <2>6
  <2> QED BY <2>4, <2>7, <2>8
<1>6. ASSUME NEW k \in Sessions, SaveBuild(k), Admitted' = Admitted
      PROVE  /\ \A u \in Users, r \in Resources : Total(AdmittedOf(u), r)' <= Quota[u][r]
             /\ Total(Admitted, "ram")' <= Pool["ram"]
             /\ Total(Admitted, "cpu")' + BuildTotal("cpu")' <= Pool["cpu"]
  <2>1. RoomForBuild
    BY <1>1, <1>6, LetsInAdmits DEF LetsIn, HasRoom
  <2>2. Admitted' = Admitted /\ \A u : AdmittedOf(u)' = AdmittedOf(u)
    BY <1>6 DEF AdmittedOf
  <2>3. ActiveBuilds' \subseteq ActiveBuilds \cup {Subject(k)}
    BY <1>1, <1>6 DEF SaveBuild, ActiveBuilds, IInv, TypeOK
  <2>4. BuildTotal("cpu")' <= BuildTotal("cpu") + BuildNeed["cpu"]
    BY <1>0, <2>3, BuildsTotal
  <2>5. /\ Total(Admitted, "ram")' = Total(Admitted, "ram")
        /\ Total(Admitted, "cpu")' = Total(Admitted, "cpu")
        /\ \A u \in Users, r \in Resources : Total(AdmittedOf(u), r)' = Total(AdmittedOf(u), r)
    BY <2>2 DEF Total, Units
  <2>6. Total(Admitted, "cpu") \in Nat
    <3>1. Admitted \in SUBSET Containers BY DEF Admitted, Wanted
    <3> QED BY <1>0, <3>1, UnitsFinite
  <2>7. Total(Admitted, "cpu")' + BuildTotal("cpu")' <= Pool["cpu"]
    BY <1>0, <1>3, <2>1, <2>4, <2>5, <2>6 DEF RoomForBuild
  <2> QED BY <1>2, <2>5, <2>7
<1> QED BY <1>1, <1>4, <1>5, <1>6, WishesStep DEF LetsIn

LEMMA QuotaInit == Init => QuotaInv
<1> SUFFICES ASSUME Init PROVE QuotaInv OBVIOUS
<1>1. IInv BY InitInvariant
<1>2. \A k \in Sessions : sessions[k] = Idle BY DEF Init
<1>3. WishesHaveRoom
  BY <1>2 DEF WishesHaveRoom, HasRoom, PassedQuota, PassedHost, PassedBuild, Idle
<1>4. Admitted = {} /\ ActiveBuilds = {} BY DEF Init, Admitted, Wanted, ActiveBuilds
<1>5. \A u : {c \in Admitted : Owner[c] = u} = {} BY <1>4
<1>6. \A r : Total({}, r) = 0 BY NothingReserved
<1>7. BuildTotal("cpu") = 0
  <2>1. BuildNeed["cpu"] \in Nat BY PoolsAreNumbers DEF Resources
  <2> QED BY <1>4, <2>1, FS_EmptySet DEF BuildTotal
<1>8. \A r \in Resources : Pool[r] \in Nat /\ \A u \in Users : Quota[u][r] \in Nat
  BY PoolsAreNumbers
<1>9. \A u \in Users, r \in Resources : Total({c \in Admitted : Owner[c] = u}, r) <= Quota[u][r]
  BY <1>5, <1>6, <1>8
<1>10. Total(Admitted, "ram") <= Pool["ram"] /\ Total(Admitted, "cpu") + BuildTotal("cpu") <= Pool["cpu"]
  BY <1>4, <1>6, <1>7, <1>8 DEF Resources
<1>11. WantedWithinQuota BY <1>9, <1>10 DEF WantedWithinQuota
<1> QED BY <1>1, <1>3, <1>11 DEF QuotaInv

LEMMA QuotaInvStep == QuotaInv /\ [Next]_vars => QuotaInv'
<1> USE DEF containers
<1>1. ASSUME QuotaInv, Next PROVE QuotaInv'
  <2>1. IInv' BY <1>1, InvariantStep DEF QuotaInv
  <2>2. WishesHaveRoom' BY <1>1, HasRoomStep DEF WishesHaveRoom
  <2> QED BY <1>1, <2>1, <2>2, QuotaStep DEF QuotaInv
<1>2. ASSUME QuotaInv, UNCHANGED vars PROVE QuotaInv'
  <2>1. IInv' BY <1>2, InvariantStep DEF QuotaInv
  <2>2. WishesHaveRoom'
    BY <1>2 DEF vars, QuotaInv, WishesHaveRoom, HasRoom, PassedQuota, PassedHost, PassedBuild,
                RoomOfOwner, RoomOnHost, RoomForBuild, AdmittedOf, Admitted, Wanted, BuildTotal,
                ActiveBuilds, Total, Units, OwnerLock, Subject
  <2>3. WantedWithinQuota'
    BY <1>2 DEF vars, QuotaInv, WantedWithinQuota, Admitted, Wanted, BuildTotal, ActiveBuilds, Total, Units
  <2> QED BY <2>1, <2>2, <2>3 DEF QuotaInv
<1> QED BY <1>1, <1>2

\* What is admitted to run stays within the quota of its owner and within the host,
\* whatever fails, ends, goes missing or is written late: counting and queueing are
\* one step to every other admission, and a write that holds no lock admits nothing.
THEOREM Quotas == Spec => []WantedWithinQuota
<1>1. QuotaInv => WantedWithinQuota BY DEF QuotaInv
<1> QED BY <1>1, QuotaInit, QuotaInvStep, PTL DEF Spec

=============================================================================
