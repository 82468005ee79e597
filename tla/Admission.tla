------------------------------- MODULE Admission -------------------------------
(***************************************************************************)
(* What Core lets in: the creation and the start of containers, the checks *)
(* made for deployments and projects, and the creation of builds.  They    *)
(* count what is there under two advisory locks of the database, an        *)
(* owner's and the host's, and write what they admit before they let go.   *)
(* Everything else that changes the counts holds no lock: operations that  *)
(* end or fail, stops, deletions, builds that end, and the event worker,   *)
(* which writes what Docker has reported or shown some time before.  The   *)
(* rebalancer shares the host among the containers that run.               *)
(*                                                                         *)
(* One step is one query, one transaction or one call; the sums of memory  *)
(* and CPU are one query each in the code and one step here.  The          *)
(* lifecycle queue appears by its contract, as in ProjectLifecycle.        *)
(***************************************************************************)
EXTENDS FiniteSets, Integers, Sequences

CONSTANTS
    Users, Containers, Builds,
    Owner,          \* the user of a container or a build
    Need,           \* what a container reserves, by resource
    BuildNeed,      \* what a build reserves
    Quota,          \* the quota of a user, by resource
    Pool,           \* what the host has to give, by resource
    MaxContainers,  \* max_containers_per_user
    MaxCreates,     \* max_queued_container_creates_per_user, 0 for no limit
    MaxBuilds,      \* max_queued_builds_per_user, 0 for no limit
    Existing,       \* sets of containers, one of which exists at first
    Sessions,       \* requests handled at the same time
    Kinds,          \* which requests are made in this model
    Free,           \* of a lock nobody holds
    MaxRequests, MaxFaults, MaxSyncs,   \* bounds
    MaxLag          \* bound: events of Docker the worker has not handled

Resources == {"ram", "cpu"}
Amounts == [Resources -> Nat]

ASSUME AdmissionConstants ==
    /\ Owner \in [Containers \cup Builds -> Users]
    /\ Need \in [Containers -> Amounts] /\ BuildNeed \in Amounts
    /\ Quota \in [Users -> Amounts] /\ Pool \in Amounts
    /\ MaxContainers \in Nat /\ MaxCreates \in Nat /\ MaxBuilds \in Nat
    /\ Kinds \subseteq {"create", "start", "check", "build", "stop", "delete", "expose"}
    /\ IsFiniteSet(Containers) /\ IsFiniteSet(Builds)
    /\ Sessions \subseteq Nat /\ Free \notin Sessions /\ Free \notin Containers
    /\ Existing \subseteq SUBSET Containers
    /\ MaxRequests \in Nat /\ MaxFaults \in Nat /\ MaxSyncs \in Nat /\ MaxLag \in Nat

VARIABLES
    rows,      \* the status of a container row
    desired,   \* its desired status
    ops,       \* the active operation on it
    engine,    \* the container in Docker that the row names
    events,    \* what Docker has reported and the event worker has not read
    watch,     \* the event worker
    strays,    \* containers that are wanted without having been admitted
    builds,    \* the rows of builds
    locks,     \* who holds "dcm:owner:<user>" and "dcm:capacity"
    sessions,  \* the requests
    balance,   \* the rebalancer and the request in its channel
    applied,   \* what the limits in Docker were computed from
    spent      \* what has gone wrong or been asked so often; vain: operations that
               \* found no container; config: changes of what the shares are computed
               \* from; overtaken: writes in place of another configuration than the
               \* one compared with, or of another status than the one listed

containers == <<rows, desired, ops, engine, events, watch, strays>>
vars == <<containers, builds, locks, sessions, balance, applied, spent>>
balancing == <<balance, applied>>

-----------------------------------------------------------------------------
(* States *)

Busy == {"starting", "stopping", "exposing", "deleting"}
Statuses == Busy \cup {"none", "pending", "created", "running", "exited", "error", "missing"}
DesiredStatuses == {"none", "created", "running", "exited", "deleting"}

\* prev: PreviousStatus of the message; an Expose may have started the new
\* generation.
OpType == [kind : {"none", "create", "start", "stop", "delete", "expose"},
           stage : {"queued", "acted", "started"}, prev : Statuses]
NoOp == [kind |-> "none", stage |-> "queued", prev |-> "none"]
Active(c) == ops[c].kind # "none"

\* It ended with zero (exited) or not (broken), was removed (gone), or the row
\* names none yet.
EngineStates == {"none", "created", "up", "exited", "broken", "gone"}
There == {"created", "up", "exited", "broken"}

\* "new" is the start of a generation the row does not name yet, "other" is about
\* one it names no more.  A signal and the end it leads to are one event here.
EventType == [on : Containers, action : {"start", "die", "break", "destroy", "new", "other"}]

\* left: rows of the list a synchronisation has still to finish; seen: what the
\* list said of them, and whether it named a generation that is gone.  on: the row
\* it inspects, or an event is about; found: what it is about to write there;
\* changed: whether it will ask for a rebalancing.
SnapshotType == [status : Statuses, desired : DesiredStatuses, old : BOOLEAN]
FoundType == [status : Statuses, ended : BOOLEAN]
WatchType == [pc : {"idle", "event", "sync", "inspect", "write"},
              left : SUBSET Containers, seen : [Containers -> SnapshotType],
              on : Containers \cup {Free}, found : FoundType, changed : BOOLEAN]

\* on: the container or build it is about; seen: the status and the desired
\* status of the container as the request read them.
SessionType ==
    [pc : {"idle", "owner", "capacity", "limits", "quota", "host", "save",
           "expose", "unlock"},
     kind : Kinds \cup {"none"},
     on : Containers \cup Builds \cup {Free},
     seen : [status : Statuses, desired : DesiredStatuses]]
Unseen == [status |-> "none", desired |-> "none"]
Idle == [pc |-> "idle", kind |-> "none", on |-> Free, seen |-> Unseen]

\* The rebalancer starts with a request of its own.  left: containers it has still
\* to update.
ShareType == [config : Nat, on : SUBSET Containers]
BalanceType == [pc : {"idle", "read", "apply"}, wanted : BOOLEAN, seen : ShareType,
                left : SUBSET Containers]
Nothing == [config |-> 0, on |-> {}]
Awake == [pc |-> "idle", wanted |-> TRUE, seen |-> Nothing, left |-> {}]

Capacity == "dcm:capacity"
Locks == Users \cup {Capacity}

Spendings == {"requests", "faults", "failures", "syncs", "vain", "config", "overtaken"}
Spend(what) == spent' = [spent EXCEPT ![what] = @ + 1]
Request == spent.requests < MaxRequests /\ Spend("requests")
Trouble == spent.faults + spent.failures < MaxFaults
Fault == Trouble /\ Spend("faults")
Failure == Trouble /\ Spend("failures")

Unlisted == [status |-> "none", desired |-> "none", old |-> FALSE]
Snapshot(left) ==
    [c \in Containers |-> IF c \in left
        THEN [status |-> rows[c], desired |-> desired[c], old |-> FALSE] ELSE Unlisted]
NothingFound == [status |-> "none", ended |-> FALSE]
Watching(pc) == [pc |-> pc, left |-> {}, seen |-> [c \in Containers |-> Unlisted],
                 on |-> Free, found |-> NothingFound, changed |-> FALSE]

Exists(c) == rows[c] # "none"
OwnedBy(u) == {c \in Containers : Owner[c] = u /\ Exists(c)}

\* Containers that were created and stopped since, and others still to be created.
Init ==
    /\ \E existing \in Existing :
           rows = [c \in Containers |-> IF c \in existing THEN "exited" ELSE "none"]
    /\ \A u \in Users : Cardinality(OwnedBy(u)) <= MaxContainers
    /\ desired = rows
    /\ ops = [c \in Containers |-> NoOp]
    /\ engine = [c \in Containers |-> IF Exists(c) THEN "exited" ELSE "none"]
    /\ events = <<>>
    /\ watch = Watching("idle")
    /\ strays = {}
    /\ builds = [b \in Builds |-> "none"]
    /\ locks = [l \in Locks |-> Free]
    /\ sessions = [k \in Sessions |-> Idle]
    /\ balance = Awake
    /\ applied = [c \in Containers |-> Nothing]
    /\ spent = [x \in Spendings |-> 0]

-----------------------------------------------------------------------------
(* What is counted *)

Creates(u) == {c \in OwnedBy(u) : ops[c].kind = "create"}
ActiveBuilds == {b \in Builds : builds[b] = "active"}
BuildsOf(u) == {b \in ActiveBuilds : Owner[b] = u}

\* What runs and what is meant to run is reserved, except by what is missing.
Reserving == {c \in Containers : /\ rows[c] # "missing"
                                 /\ rows[c] = "running" \/ desired[c] = "running"}
Units(set, r) == UNION {{c} \X (1 .. Need[c][r]) : c \in set}
Total(set, r) == Cardinality(Units(set, r))
UsedBy(u, r) == Total({c \in Reserving : Owner[c] = u}, r)
BuildTotal(r) == Cardinality(ActiveBuilds) * BuildNeed[r]

-----------------------------------------------------------------------------
(* Requests *)

Begin(k, kind, on, pc) ==
    sessions' = [sessions EXCEPT ![k] =
        [pc |-> pc, kind |-> kind, on |-> on,
         seen |-> IF on \in Containers
                  THEN [status |-> rows[on], desired |-> desired[on]] ELSE Unseen]]

\* An identifier is not used again once a row has named its container.
Fresh(c) == ~Exists(c) /\ engine[c] = "none"
AskCreate(k, c) == Fresh(c) /\ Begin(k, "create", c, "owner")
\* Requests about a missing container end at once, as do those about one whose row
\* names none yet, or never will, which AskBlank models.
Named(c) == engine[c] # "none" /\ ops[c].kind # "create"
Made(c) == Exists(c) /\ rows[c] # "missing" /\ Named(c)
AskStart(k, c) == Made(c) /\ Begin(k, "start", c, "owner")
\* CheckCapacity, for a deployment or for the start of a project.
AskCheck(k, c) == Begin(k, "check", c, "owner")
AskBuild(k, b) == builds[b] = "none" /\ Begin(k, "build", b, "capacity")
AskExpose(k, c) == Made(c) /\ Begin(k, "expose", c, "expose")

\* Handlers have no identity: the first idle one answers.
Ask(k) ==
    /\ sessions[k].pc = "idle"
    /\ \A j \in Sessions : j < k => sessions[j].pc # "idle"
    /\ Request
    /\ \/ \E c \in Containers :
              \/ "create" \in Kinds /\ AskCreate(k, c)
              \/ "start" \in Kinds /\ AskStart(k, c)
              \/ "check" \in Kinds /\ AskCheck(k, c)
              \/ "expose" \in Kinds /\ AskExpose(k, c)
       \/ \E b \in Builds : "build" \in Kinds /\ AskBuild(k, b)
    /\ UNCHANGED <<containers, builds, locks, balancing>>

Subject(k) == sessions[k].on
OwnerLock(k) == Owner[Subject(k)]
At(k, pc) == sessions[k].pc = pc
Goto(pc, k) == sessions' = [sessions EXCEPT ![k].pc = pc]

\* AcquireOwnerCapacityLock: the owner's lock first.
LockOwner(k) ==
    /\ At(k, "owner")
    /\ locks[OwnerLock(k)] = Free
    /\ locks' = [locks EXCEPT ![OwnerLock(k)] = k]
    /\ Goto("capacity", k)
    /\ UNCHANGED <<containers, builds, balancing, spent>>

\* Mutant: admission does not wait for the host's lock.
CapacityLockIgnored(k) == TRUE

CapacityLockFree(k) == locks[Capacity] = Free

FirstCheck(kind) == IF kind \in {"create", "build"} THEN "limits" ELSE "quota"
LockCapacity(k) ==
    /\ At(k, "capacity")
    /\ CapacityLockFree(k)
    /\ locks' = [locks EXCEPT ![Capacity] = k]
    /\ Goto(FirstCheck(sessions[k].kind), k)
    /\ UNCHANGED <<containers, builds, balancing, spent>>

\* Mutant: an admission that is refused forgets its locks.
ReturnsAtOnce == "idle"

\* Whatever the outcome, the deferred unlock runs.
Unlocking == "unlock"

Below(n, limit) == limit = 0 \/ n < limit
WithinOwnLimits(k) ==
    LET u == OwnerLock(k) IN
    CASE sessions[k].kind = "create" -> /\ Cardinality(OwnedBy(u)) < MaxContainers
                                        /\ Below(Cardinality(Creates(u)), MaxCreates)
      [] sessions[k].kind = "build" -> Below(Cardinality(BuildsOf(u)), MaxBuilds)
CheckLimits(k) ==
    /\ At(k, "limits")
    /\ Goto(IF ~WithinOwnLimits(k) THEN Unlocking
            ELSE IF sessions[k].kind = "create" THEN "quota" ELSE "host", k)
    /\ UNCHANGED <<containers, builds, locks, balancing, spent>>

\* checkUserQuota, checkUserCPUQuota.
WithinQuota(k, r) ==
    UsedBy(OwnerLock(k), r) + Need[Subject(k)][r] <= Quota[OwnerLock(k)][r]
CheckQuota(k) ==
    /\ At(k, "quota")
    /\ Goto(IF \A r \in Resources : WithinQuota(k, r) THEN "host" ELSE Unlocking, k)
    /\ UNCHANGED <<containers, builds, locks, balancing, spent>>

\* Mutant: the CPU of builds is not counted when a container asks.
WithoutBuilds(k, r) == Total(Reserving, r)

\* A container's memory is weighed against that of containers only, its CPU
\* against that of builds as well, a build against both.
HostUse(k, r) ==
    Total(Reserving, r) +
    (IF r = "cpu" \/ sessions[k].kind = "build" THEN BuildTotal(r) ELSE 0)
\* ensureHostMemoryCapacity and ensureHostCPUCapacity.
Wants(k, r) == IF sessions[k].kind = "build" THEN BuildNeed[r] ELSE Need[Subject(k)][r]
Fits(k, r) == HostUse(k, r) + Wants(k, r) <= Pool[r]
CheckHost(k) ==
    /\ At(k, "host")
    /\ Goto(IF sessions[k].kind # "check" /\ \A r \in Resources : Fits(k, r)
            THEN "save" ELSE Unlocking, k)
    /\ UNCHANGED <<containers, builds, locks, balancing, spent>>

\* A query fails, the domain is taken, a disk quota or the disk is full.
CheckFails(k) ==
    /\ sessions[k].pc \in {"limits", "quota", "host", "save"}
    /\ Goto(Unlocking, k)
    /\ UNCHANGED <<containers, builds, locks, balancing, spent>>

\* The caller gives up or the connection fails while it waits for a lock.
LockFails(k) ==
    /\ sessions[k].pc \in {"owner", "capacity"}
    /\ Goto("unlock", k)
    /\ UNCHANGED <<containers, builds, locks, balancing, spent>>

-----------------------------------------------------------------------------
(* What an admitted request writes, in one transaction *)

Queue(c, kind, status, wanted, prev) ==
    /\ rows' = [rows EXCEPT ![c] = status]
    /\ desired' = [desired EXCEPT ![c] = wanted]
    /\ ops' = [ops EXCEPT ![c] = [kind |-> kind, stage |-> "queued", prev |-> prev]]

\* Writes other than that of a Start may bring a wish into the sums: one read
\* earlier, or that of a row which was missing.
Wanted == {c \in Containers : rows[c] # "missing" /\ desired[c] = "running"}
Stray == strays' = strays \cup (Wanted' \ Wanted)

SaveContainer(k) ==
    /\ At(k, "save") /\ sessions[k].kind = "create"
    /\ IF Fresh(Subject(k)) THEN Queue(Subject(k), "create", "pending", "created", "none")
       ELSE UNCHANGED <<rows, desired, ops>>
    /\ Goto("unlock", k)
    /\ UNCHANGED <<engine, events, watch, strays, builds, locks, balancing, spent>>

\* A container with an active operation, or one that is gone, conflicts.
QueueStart(k) ==
    /\ At(k, "save") /\ sessions[k].kind = "start"
    /\ IF Active(Subject(k)) \/ ~Exists(Subject(k)) THEN UNCHANGED <<rows, desired, ops, strays>>
       ELSE /\ Queue(Subject(k), "start", "starting", "running", sessions[k].seen.status)
            /\ strays' = strays \ {Subject(k)}
    /\ Goto("unlock", k)
    /\ UNCHANGED <<engine, events, watch, builds, locks, balancing, spent>>

SaveBuild(k) ==
    /\ At(k, "save") /\ sessions[k].kind = "build"
    /\ builds' = [builds EXCEPT ![Subject(k)] = IF @ = "none" THEN "active" ELSE @]
    /\ Goto("unlock", k)
    /\ UNCHANGED <<containers, locks, balancing, spent>>

\* Expose asks for no lock and writes back the desired status it has read.
QueueExpose(k) ==
    /\ At(k, "expose")
    /\ LET c == Subject(k) seen == sessions[k].seen IN
       IF Active(c) \/ ~Exists(c) THEN UNCHANGED <<rows, desired, ops, strays>>
       ELSE Queue(c, "expose", "exposing", seen.desired, seen.status) /\ Stray
    /\ sessions' = [sessions EXCEPT ![k] = Idle]
    /\ UNCHANGED <<engine, events, watch, builds, locks, balancing, spent>>

\* pg_advisory_unlock frees a lock of one's own only, so a request that waited
\* in vain frees no one else's.
Unlock(k) ==
    /\ At(k, "unlock")
    /\ locks' = [l \in Locks |-> IF locks[l] = k THEN Free ELSE locks[l]]
    /\ sessions' = [sessions EXCEPT ![k] = Idle]
    /\ UNCHANGED <<containers, builds, balancing, spent>>

Save(k) == SaveContainer(k) \/ QueueStart(k) \/ SaveBuild(k) \/ QueueExpose(k)
SessionStep(k) ==
    \/ LockOwner(k) \/ LockCapacity(k)
    \/ CheckLimits(k) \/ CheckQuota(k) \/ CheckHost(k)
    \/ Save(k) \/ Unlock(k)

-----------------------------------------------------------------------------
(* What holds no lock *)

\* Stop and Delete; Delete of a container that is still to be created cancels
\* the creation.
AskStop(c) ==
    /\ "stop" \in Kinds /\ Request
    /\ Made(c) /\ ~Active(c)
    /\ Queue(c, "stop", "stopping", "exited", rows[c])
    /\ UNCHANGED <<engine, events, watch, strays, builds, locks, sessions, balancing>>
AskDelete(c) ==
    /\ "delete" \in Kinds /\ Request
    /\ Exists(c)
    /\ \/ /\ rows[c] = "pending"
          /\ rows' = [rows EXCEPT ![c] = "none"]
          /\ desired' = [desired EXCEPT ![c] = "none"]
          /\ ops' = [ops EXCEPT ![c] = NoOp]
          /\ engine' = [engine EXCEPT ![c] = "none"]
       \/ /\ rows[c] # "pending" /\ ~Active(c)
          /\ Queue(c, "delete", "deleting", "deleting", rows[c])
          /\ UNCHANGED engine
    /\ UNCHANGED <<events, watch, strays, builds, locks, sessions, balancing>>

\* Start, Stop and Expose of a container whose row names none: the row is missing.
AskBlank(c) ==
    /\ Kinds \cap {"start", "stop", "expose"} # {} /\ Request
    /\ Exists(c) /\ rows[c] # "missing" /\ ~Named(c)
    /\ rows' = [rows EXCEPT ![c] = "missing"]
    /\ UNCHANGED <<desired, ops, engine, events, watch, strays, builds, locks, sessions,
                   balancing>>

\* Mutant: a channel without a slot; who asks while the rebalancer works is
\* turned away.
WithoutSlot == balance.pc = "idle" \/ balance.wanted

OneSlot == TRUE
RebalanceRequested == balance' = [balance EXCEPT !.wanted = OneSlot]

Report(c, action) ==
    /\ Len(events) < MaxLag
    /\ events' = Append(events, [on |-> c, action |-> action])
\* Expose starts the new generation of a container that runs or is meant to.
Starts(c) == ops[c].prev = "running" \/ desired[c] = "running"

\* Docker does what the operation is for and reports it.
Docker(c, state, action) == engine' = [engine EXCEPT ![c] = state] /\ Report(c, action)

\* A stopped process ends with zero or with another code.
EngineActs(c) ==
    CASE ops[c].kind = "create" ->
             engine' = [engine EXCEPT ![c] = "created"] /\ UNCHANGED events
      [] ops[c].kind = "start" ->
             (IF engine[c] = "up" THEN UNCHANGED <<engine, events>> ELSE Docker(c, "up", "start"))
      [] ops[c].kind = "stop" ->
             (IF engine[c] # "up" THEN UNCHANGED <<engine, events>>
              ELSE Docker(c, "exited", "die") \/ Docker(c, "broken", "break"))
      [] ops[c].kind = "delete" ->
             (IF engine[c] \notin There THEN UNCHANGED <<engine, events>>
              ELSE Docker(c, "gone", "destroy"))
      [] ops[c].kind = "expose" ->
             UNCHANGED engine /\ IF Starts(c) THEN Report(c, "new") ELSE UNCHANGED events
Acts(c) ==
    /\ Active(c) /\ ops[c].stage = "queued"
    /\ ops[c].kind \in {"create", "delete"} \/ engine[c] \in There
    /\ EngineActs(c)
    /\ ops' = [ops EXCEPT ![c].stage = IF ops[c].kind = "expose" /\ Starts(c)
                                       THEN "started" ELSE "acted"]
    /\ UNCHANGED <<rows, desired, watch, strays, builds, locks, sessions, balancing, spent>>

\* Docker does not know the container.
FindsNothing(c) ==
    /\ ops[c].kind \in {"start", "stop", "expose"} /\ ops[c].stage = "queued"
    /\ engine[c] = "gone"
    /\ rows' = [rows EXCEPT ![c] = "missing"]
    /\ ops' = [ops EXCEPT ![c] = NoOp]
    /\ Spend("vain")
    /\ UNCHANGED <<desired, engine, events, watch, strays, builds, locks, sessions, balancing>>

\* From now on the row names the new generation of c: what was reported of the
\* earlier one is about no row, nor is an event the worker has in hand, and a
\* synchronisation that has listed it will not find it.
Renamed(c) ==
    [i \in DOMAIN events |->
        IF events[i].on # c THEN events[i]
        ELSE [on |-> c, action |-> IF events[i].action = "new" THEN "start" ELSE "other"]]
Replaces(c, state, action) ==
    /\ engine' = [engine EXCEPT ![c] = state]
    /\ Len(events) < MaxLag
    /\ events' = Append(Renamed(c), [on |-> c, action |-> action])
    /\ watch' = [watch EXCEPT !.seen[c].old = (watch.on = c) \/ c \in watch.left]

\* The executor records the end and asks for a rebalancing; for Expose, which
\* leaves the status as it was, the event of the generation it removes does.
Ended(c) ==
    CASE ops[c].kind = "create" -> "created" [] ops[c].kind = "start" -> "running"
      [] ops[c].kind = "stop" -> "exited" [] ops[c].kind = "delete" -> "none"
      [] ops[c].kind = "expose" -> ops[c].prev
OpDone(c) ==
    /\ Active(c) /\ ops[c].stage # "queued"
    /\ rows' = [rows EXCEPT ![c] = Ended(c)]
    /\ desired' = [desired EXCEPT ![c] = CASE ops[c].kind = "delete" -> "none"
                                           [] ops[c].kind = "create" -> "created"
                                           [] OTHER -> @]
    /\ ops' = [ops EXCEPT ![c] = NoOp]
    /\ IF ops[c].kind # "expose" THEN UNCHANGED <<engine, events, watch>>
       ELSE Replaces(c, IF ops[c].stage = "started" THEN "up" ELSE "created", "other")
    /\ Stray
    /\ IF ops[c].kind \in {"start", "stop"} THEN RebalanceRequested ELSE UNCHANGED balance
    /\ UNCHANGED <<builds, locks, sessions, applied, spent>>

\* failQueuedLifecycle and failQueuedCreate, before Docker acted or after: the
\* earlier status comes back, the desired one stays.  A failing creation or Expose
\* removes the container it has made, which the row may name already; what is
\* reported of that one before the row names it is left out, its start excepted.
OpFails(c) ==
    /\ Active(c) /\ Failure
    /\ rows' = [rows EXCEPT ![c] = IF ops[c].prev \in Busy \cup {"none"} THEN "error"
                                   ELSE ops[c].prev]
    /\ ops' = [ops EXCEPT ![c] = NoOp]
    /\ \/ /\ engine' = IF ops[c].kind = "create" THEN [engine EXCEPT ![c] = "none"] ELSE engine
          /\ UNCHANGED <<events, watch>>
       \/ /\ ops[c].kind = "expose" /\ ops[c].stage # "queued"
          /\ Replaces(c, "gone", "destroy")
    /\ UNCHANGED <<desired, builds, locks, sessions, balancing>>
    /\ Stray

-----------------------------------------------------------------------------
(* Docker without Core, and the event worker, which reads its events one by  *)
(* one and now and then the state of every container.  Its writes ask for no *)
(* operation; that they fail is left out.                                    *)

\* A container ends by itself, or someone removes it past Core.
Ends(c) ==
    /\ engine[c] = "up" /\ Fault
    /\ Docker(c, "exited", "die") \/ Docker(c, "broken", "break")
    /\ UNCHANGED <<rows, desired, ops, watch, strays, builds, locks, sessions, balancing>>
Vanishes(c) ==
    /\ engine[c] \in There /\ Named(c) /\ Fault
    /\ Docker(c, "gone", "destroy")
    /\ UNCHANGED <<rows, desired, ops, watch, strays, builds, locks, sessions, balancing>>

\* The write goes to the row as it is by now.
WriteRow(found, c) ==
    /\ rows' = IF Exists(c) THEN [rows EXCEPT ![c] = found.status] ELSE rows
    /\ desired' = IF found.ended /\ Exists(c) THEN [desired EXCEPT ![c] = "exited"] ELSE desired
    /\ Stray

\* observedStateFromExitEvent with adjustExpectedExitState.
ExpectedExit(wanted) == wanted \in {"exited", "deleting"}
EventStatus(c, action) ==
    CASE action = "start" -> "running" [] action = "die" -> "exited"
      [] ExpectedExit(desired[c]) -> "exited"
      [] action = "break" -> "error" [] OTHER -> "missing"

\* An event that gives a cause is written after the row was read for it.  One about
\* another generation writes nothing.
TakeEvent ==
    /\ watch.pc = "idle" /\ events # <<>>
    /\ LET e == Head(events)
           found == [status |-> EventStatus(e.on, e.action), ended |-> e.action = "die"]
       IN CASE e.action \in {"break", "destroy"} ->
                   /\ watch' = [watch EXCEPT !.pc = "event", !.on = e.on, !.found = found]
                   /\ UNCHANGED <<rows, desired, strays, balance>>
            [] e.action \in {"start", "die"} ->
                   WriteRow(found, e.on) /\ RebalanceRequested /\ UNCHANGED watch
            [] OTHER -> RebalanceRequested /\ UNCHANGED <<rows, desired, strays, watch>>
    /\ events' = Tail(events)
    /\ UNCHANGED <<ops, engine, builds, locks, sessions, applied, spent>>
WriteEvent ==
    /\ watch.pc = "event"
    /\ IF watch.seen[watch.on].old THEN UNCHANGED <<rows, desired, strays>>
       ELSE WriteRow(watch.found, watch.on)
    /\ RebalanceRequested
    /\ watch' = Watching("idle")
    /\ UNCHANGED <<ops, engine, events, builds, locks, sessions, applied, spent>>

\* GetNonExited; rows that name no container are left to their operation.
Candidates == {c \in Containers :
    /\ rows[c] # "missing" /\ Named(c)
    /\ rows[c] \in Busy \cup {"created", "running"} \/ desired[c] \in {"created", "running", "deleting"}}
ListContainers ==
    /\ watch.pc = "idle" /\ Candidates # {}
    /\ spent.syncs < MaxSyncs /\ Spend("syncs")
    /\ watch' = [Watching("sync") EXCEPT !.left = Candidates, !.seen = Snapshot(Candidates)]
    /\ UNCHANGED <<rows, desired, ops, engine, events, strays, builds, locks, sessions, balancing>>

\* The next row of the list; at its end a rebalancing is asked for if a row was
\* changed from or to running.
RowDone(c, changed) ==
    IF watch.left = {c}
    THEN /\ watch' = Watching("idle")
         /\ IF watch.changed \/ changed THEN RebalanceRequested ELSE UNCHANGED balance
    ELSE /\ watch' = [Watching("sync") EXCEPT !.left = watch.left \ {c},
                          !.seen = [watch.seen EXCEPT ![c] = Unlisted],
                          !.changed = watch.changed \/ changed]
         /\ UNCHANGED balance

\* Only of a row that was listed as busy it is asked whether an operation is active.
Turn(c) == watch.pc = "sync" /\ c \in watch.left
CheckActive(c) ==
    /\ Turn(c) /\ watch.seen[c].status \in Busy
    /\ IF Active(c) THEN RowDone(c, FALSE)
       ELSE watch' = [watch EXCEPT !.pc = "inspect", !.on = c] /\ UNCHANGED balance
    /\ UNCHANGED <<rows, desired, ops, engine, events, strays, builds, locks, sessions,
                   applied, spent>>

\* observedStateFromInspect, of the row as it was listed.
Inspected(c) ==
    LET seen == watch.seen[c] IN
    CASE seen.old \/ engine[c] \notin There -> [status |-> "missing", ended |-> FALSE]
      [] engine[c] = "up" -> [status |-> "running", ended |-> FALSE]
      [] engine[c] = "created" /\ seen.status = "created" -> [status |-> "created", ended |-> FALSE]
      [] engine[c] = "broken" ->
             [status |-> IF ExpectedExit(seen.desired) THEN "exited" ELSE "error", ended |-> FALSE]
      [] OTHER -> [status |-> "exited", ended |-> TRUE]
Differs(c) == \/ watch.seen[c].status # Inspected(c).status
              \/ Inspected(c).ended /\ watch.seen[c].desired # "exited"

Inspects(c) == \/ watch.pc = "inspect" /\ watch.on = c
               \/ Turn(c) /\ watch.seen[c].status \notin Busy
InspectContainer(c) ==
    /\ Inspects(c)
    /\ IF Differs(c)
       THEN /\ watch' = [watch EXCEPT !.pc = "write", !.on = c, !.found = Inspected(c)]
            /\ UNCHANGED balance
       ELSE RowDone(c, FALSE)
    /\ UNCHANGED <<rows, desired, ops, engine, events, strays, builds, locks, sessions,
                   applied, spent>>
\* The question or the inspection fails: the row waits for the next pass.
InspectFails(c) ==
    /\ (watch.pc = "inspect" /\ watch.on = c) \/ Turn(c)
    /\ Failure
    /\ RowDone(c, FALSE)
    /\ UNCHANGED <<rows, desired, ops, engine, events, strays, builds, locks, sessions, applied>>

WriteObserved ==
    /\ watch.pc = "write"
    /\ WriteRow(watch.found, watch.on)
    /\ RowDone(watch.on, \/ watch.found.status \in {"running", "missing"}
                         \/ watch.seen[watch.on].status = "running")
    /\ IF rows[watch.on] = watch.seen[watch.on].status THEN UNCHANGED spent ELSE Spend("overtaken")
    /\ UNCHANGED <<ops, engine, events, builds, locks, sessions, applied>>

WatcherStep ==
    \/ TakeEvent \/ WriteEvent \/ WriteObserved
    \/ \E c \in Containers : CheckActive(c) \/ InspectContainer(c)

-----------------------------------------------------------------------------
(* Builds *)

BuildEnds(b) ==
    /\ builds[b] = "active"
    /\ builds' = [builds EXCEPT ![b] = "ended"]
    /\ UNCHANGED <<containers, locks, sessions, balancing, spent>>

-----------------------------------------------------------------------------
(* The rebalancer: a channel for one request, taken before the rows are      *)
(* read.  What the builds under way take off the shares is left out, and so  *)
(* is a failing count of them, which counts as none.                         *)

Running == {c \in Containers : rows[c] = "running"}

TakeRequest ==
    /\ balance.pc = "idle" /\ balance.wanted
    /\ balance' = [pc |-> "read", wanted |-> FALSE,
                   seen |-> [Nothing EXCEPT !.config = spent.config], left |-> {}]
    /\ UNCHANGED <<containers, builds, locks, sessions, applied, spent>>
ReadRunning ==
    /\ balance.pc = "read"
    /\ balance' = IF Running = {} THEN [balance EXCEPT !.pc = "idle", !.seen = Nothing]
                  ELSE [balance EXCEPT !.pc = "apply", !.seen.on = Running, !.left = Running]
    /\ UNCHANGED <<containers, builds, locks, sessions, applied, spent>>
\* One container after another; one that Docker does not update, or does not know,
\* keeps its limits.
AfterUpdate(c) ==
    LET left == balance.left \ {c} IN
    balance' = IF left = {} THEN [balance EXCEPT !.pc = "idle", !.seen = Nothing, !.left = {}]
               ELSE [balance EXCEPT !.left = left]
Apply(c) ==
    /\ balance.pc = "apply" /\ c \in balance.left
    /\ AfterUpdate(c)
    /\ applied' = [applied EXCEPT ![c] = IF engine[c] \in There THEN balance.seen ELSE @]
    /\ UNCHANGED <<containers, builds, locks, sessions, spent>>
ApplyFails(c) ==
    /\ balance.pc = "apply" /\ c \in balance.left /\ Failure
    /\ AfterUpdate(c)
    /\ UNCHANGED <<containers, builds, locks, sessions, applied>>

\* Manager.Update has changed what the shares are computed from, or replaced
\* another configuration than UpdateConfig compares with; who then asks is
\* UpdateConfig.
Counted(changed, stale) ==
    [spent EXCEPT !.config = IF changed THEN @ + 1 ELSE @,
                  !.overtaken = IF stale THEN @ + 1 ELSE @]
Reconfigure(changed, stale) ==
    /\ spent' = Counted(changed, stale)
    /\ UNCHANGED <<containers, builds, locks, sessions, balancing>>
AskRebalance ==
    /\ RebalanceRequested
    /\ UNCHANGED <<containers, builds, locks, sessions, applied, spent>>

\* A query or a reading of the host fails: the request is gone.
ReadFails ==
    /\ balance.pc = "read" /\ Failure
    /\ balance' = [balance EXCEPT !.pc = "idle", !.seen = Nothing]
    /\ UNCHANGED <<containers, builds, locks, sessions, applied>>
Rebalance == TakeRequest \/ ReadRunning \/ \E c \in Containers : Apply(c)

-----------------------------------------------------------------------------
(* A restart of Core: connections are closed and their locks with them, and  *)
(* the operations an executor had claimed are failed; what Docker reported   *)
(* before is not reported again; the configuration may have changed.         *)

Crash(changed) ==
    /\ Trouble
    /\ spent' = [Counted(changed, FALSE) EXCEPT !.faults = @ + 1]
    /\ sessions' = [k \in Sessions |-> Idle]
    /\ locks' = [l \in Locks |-> Free]
    /\ \E claimed \in SUBSET {c \in Containers : Active(c) /\ ops[c].kind # "create"} :
           ops' = [c \in Containers |-> IF c \in claimed THEN NoOp ELSE ops[c]]
    /\ balance' = Awake
    /\ events' = <<>> /\ watch' = Watching("idle")
    /\ UNCHANGED <<rows, desired, engine, strays, builds, applied>>

-----------------------------------------------------------------------------

ContainerStep(c) == Acts(c) \/ FindsNothing(c) \/ OpDone(c)
\* What Core does without its configuration, and with it.
OwnStep ==
    \/ \E k \in Sessions : Ask(k) \/ SessionStep(k) \/ LockFails(k) \/ CheckFails(k)
    \/ \E c \in Containers :
           \/ AskStop(c) \/ AskDelete(c) \/ AskBlank(c)
           \/ ContainerStep(c) \/ OpFails(c) \/ Ends(c) \/ Vanishes(c)
           \/ InspectFails(c) \/ ApplyFails(c)
    \/ WatcherStep \/ ListContainers
    \/ \E b \in Builds : BuildEnds(b)
    \/ Rebalance \/ ReadFails
ConfigStep == AskRebalance \/ \E changed, stale \in BOOLEAN : Reconfigure(changed, stale)
Restart == \E changed \in BOOLEAN : Crash(changed)
Next == OwnStep \/ ConfigStep \/ Restart

Spec == Init /\ [][Next]_vars

\* Handlers go on without ever having to give up, and the database grants a lock
\* to those who wait in turn; accepted operations end; the rebalancer runs, and
\* the event worker goes on with events and with a synchronisation it has begun.
Fairness ==
    /\ \A k \in Sessions : /\ WF_vars(SessionStep(k))
                           /\ SF_vars(LockOwner(k)) /\ SF_vars(LockCapacity(k))
    /\ \A c \in Containers : WF_vars(ContainerStep(c))
    /\ WF_vars(WatcherStep) /\ WF_vars(Rebalance)

-----------------------------------------------------------------------------
(* Properties *)

TypeOK ==
    /\ rows \in [Containers -> Statuses]
    /\ desired \in [Containers -> DesiredStatuses]
    /\ ops \in [Containers -> OpType]
    /\ engine \in [Containers -> EngineStates]
    /\ events \in Seq(EventType)
    /\ watch \in WatchType
    /\ strays \subseteq Containers
    /\ builds \in [Builds -> {"none", "active", "ended"}]
    /\ locks \in [Locks -> Sessions \cup {Free}]
    /\ sessions \in [Sessions -> SessionType]
    /\ balance \in BalanceType
    /\ applied \in [Containers -> ShareType]
    /\ spent \in [Spendings -> Nat]

\* Requests handled together never take an owner over a limit: containers,
\* creations under way, builds under way.
WithinLimits ==
    \A u \in Users :
        /\ Cardinality(OwnedBy(u)) <= MaxContainers
        /\ MaxCreates # 0 => Cardinality(Creates(u)) <= MaxCreates
        /\ MaxBuilds # 0 => Cardinality(BuildsOf(u)) <= MaxBuilds

\* What is meant to run stays within the quota of its owner, and together with
\* the builds within the CPU of the host, whatever ends, fails, goes missing or
\* restarts.  Outside are the containers whose wish came back without a request to
\* start them: an Expose wrote back the one it had read, or a row that was missing,
\* and counted for nothing, was given another status.
Admitted == Wanted \ strays
WantedWithinQuota ==
    /\ \A u \in Users, r \in Resources :
           Total({c \in Admitted : Owner[c] = u}, r) <= Quota[u][r]
    /\ Total(Admitted, "ram") <= Pool["ram"]
    /\ Total(Admitted, "cpu") + BuildTotal("cpu") <= Pool["cpu"]

\* Every request is answered: no order of the two locks makes requests wait for
\* each other, and none keeps a lock.
AdmissionEnds == \A k \in Sessions : sessions[k].pc # "idle" ~> sessions[k].pc = "idle"

=============================================================================
