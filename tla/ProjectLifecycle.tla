--------------------------- MODULE ProjectLifecycle ---------------------------
(***************************************************************************)
(* The life of a deployed Compose project: requests to start, stop and     *)
(* delete it, the coordinator that carries them out container by container *)
(* in the order of the saved service graph, the refreshes that derive the  *)
(* project's status from its containers, and the event worker that follows *)
(* Docker, event by event and by its periodic synchronisation.             *)
(*                                                                         *)
(* One step is one query, one transaction or one call of Docker.  The      *)
(* lifecycle queue of containers, which has a module of its own, appears   *)
(* here by its contract: an operation is queued, Docker acts, the executor *)
(* records the end; or it fails and the earlier status comes back.         *)
(***************************************************************************)
EXTENDS ComposePlan, Naturals

CONSTANTS
    Plan,         \* the deployed plan
    OneShots,     \* its services whose process ends when its work is done
    Callers,      \* API handlers
    MaxRequests,  \* bound: requests about the project
    MaxTroubles,  \* bound: failing calls, containers that end, vanish or turn
                  \* unhealthy unasked, restarts, requests about single containers;
                  \* that one-shot services complete, as often as they do, counts once
    Troubles,     \* which of them happen in this model
    MaxLag        \* bound: events of Docker the worker has not handled

Watcher == "event worker"

ASSUME ProjectConstants ==
    /\ Watcher \notin Services /\ Absent \notin Services
    /\ OneShots \subseteq Services
    /\ MaxRequests \in Nat /\ MaxTroubles \in Nat /\ MaxLag \in Nat \ {0}
    /\ Troubles \subseteq {"docker", "capacity", "list", "end", "complete", "vanish", "crash",
                     "unhealthy", "start", "stop", "delete"}

VARIABLES
    project,    \* the row of projects: its status, "none" when deleted
    rows,       \* the status of the container row of a service
    desired,    \* its desired status
    ops,        \* the active operation on it
    engine,     \* its container in Docker
    events,     \* what Docker has reported and the worker has not read
    watch,      \* the event worker
    refresh,    \* RefreshProjectStatus in flight, by its caller
    coord,      \* the lifecycle coordinator
    callers,    \* Start, Stop and Delete of the project in flight
    spent       \* how much of each bound is used

containers == <<rows, desired, ops, engine, events>>
vars == <<project, rows, desired, ops, engine, events, watch, refresh, coord,
          callers, spent>>

-----------------------------------------------------------------------------
(* States *)

Busy == {"starting", "stopping", "deleting"}
ProjectStatuses == Busy \cup {"running", "stopped", "failed", "none"}

ActiveRow == {"starting", "stopping", "deleting"}
RowStatuses == ActiveRow \cup {"running", "exited", "error", "missing", "none"}
Up == {"running", "healthy", "unhealthy"}
Down == {"exited", "broken"}

\* prev: PreviousStatus of the message.
OpType == [kind : {"none", "start", "stop", "delete"},
           stage : {"queued", "signaled", "acted"}, prev : RowStatuses]
NoOp == [kind |-> "none", stage |-> "queued", prev |-> "none"]
Active(s) == ops[s].kind # "none"

EventType == [service : Services, action : {"start", "kill", "die", "break", "destroy"}]

\* left: rows of the list a synchronisation has still to finish; seen: what the
\* list said of them.  on: the row it inspects, or an event is about; found: what
\* it is about to write to that row.
SnapshotType == [status : RowStatuses, desired : {"running", "exited", "deleting"}]
FoundType == [status : RowStatuses, ended : BOOLEAN]
WatchType == [pc : {"idle", "sync", "inspect", "write", "event", "refresh"},
              left : SUBSET Services, seen : [Services -> SnapshotType],
              on : Services \cup {Absent}, found : FoundType]
Unlisted == [status |-> "none", desired |-> "running"]
Listed(left) ==
    [s \in Services |-> IF s \in left THEN [status |-> rows[s], desired |-> desired[s]]
                        ELSE Unlisted]
NothingFound == [status |-> "none", ended |-> FALSE]
Watching(pc) == [pc |-> pc, left |-> {}, seen |-> Listed({}), on |-> Absent,
                 found |-> NothingFound]

\* to: the status a refresh has computed.
RefreshType == [pc : {"idle", "project", "containers", "write"},
                to : ProjectStatuses]
NoRefresh == [pc |-> "idle", to |-> "none"]

Edges == Graph(Plan, Services)
Needs(s) == {d \in Edges : d.service = s}

\* task: the status of the project in the list of the tick; left: the nodes of
\* the graph still to visit; looked: dependencies of the first it has inspected.
\* lapsed is history, which no step reads: those that ended or turned unhealthy
\* after it had inspected them.
CoordType == [pc : {"idle", "graph", "walk", "wait", "act", "finish", "fail"},
              task : Busy \cup {"none"}, left : Seq(Services), looked : SUBSET Edges,
              lapsed : SUBSET Services]
Resting == [pc |-> "idle", task |-> "none", left |-> <<>>, looked |-> {},
            lapsed |-> {}]
Lapse(s) ==
    coord' = [coord EXCEPT !.lapsed = @ \cup ({s} \cap {d.on : d \in coord.looked})]

CallerType == [pc : {"idle", "write"}, to : Busy \cup {"none"}]
NoCall == [pc |-> "idle", to |-> "none"]

Spend(what) == spent' = [spent EXCEPT ![what] = @ + 1]
Trouble(what) ==
    /\ what \in Troubles
    /\ spent.manual + spent.faults + spent.completing < MaxTroubles
    /\ Spend(CASE what \in {"start", "stop", "delete"} -> "manual"
               [] what = "complete" -> "completing"
               [] OTHER -> "faults")

\* A project that was deployed, or deployed and stopped since.
Deployed ==
    /\ project = "running"
    /\ rows = [s \in Services |-> "running"]
    /\ engine = [s \in Services |->
                    IF Plan.services[s].check THEN "healthy" ELSE "running"]
Stopped ==
    /\ project = "stopped"
    /\ rows = [s \in Services |-> "exited"]
    /\ \E end \in Down : engine = [s \in Services |-> end]
Init ==
    /\ Deployed \/ Stopped
    /\ desired = rows
    /\ ops = [s \in Services |-> NoOp]
    /\ events = <<>>
    /\ watch = Watching("idle")
    /\ refresh = [c \in Services \cup {Watcher} |-> NoRefresh]
    /\ coord = Resting
    /\ callers = [k \in Callers |-> NoCall]
    /\ spent = [requests |-> 0, manual |-> 0, completing |-> 0, faults |-> 0]

-----------------------------------------------------------------------------
(* Requests about the project: read the row, then write it *)

Accepting == project \notin Busy \cup {"none"}

ReadProject(k) ==
    /\ callers[k].pc = "idle"
    /\ Accepting
    /\ spent.requests < MaxRequests /\ Spend("requests")
    /\ \E to \in Busy : callers' = [callers EXCEPT ![k] = [pc |-> "write", to |-> to]]
    /\ UNCHANGED <<project, rows, desired, ops, engine, events, watch, refresh, coord>>

\* ensureStartCapacity refuses.
StartRefused(k) ==
    /\ callers[k] = [pc |-> "write", to |-> "starting"]
    /\ Trouble("capacity")
    /\ callers' = [callers EXCEPT ![k] = NoCall]
    /\ UNCHANGED <<project, rows, desired, ops, engine, events, watch, refresh, coord>>

\* UpdateStatus of a row that is gone changes nothing.
Update(status) == project' = IF project = "none" THEN "none" ELSE status

AcceptRequest(k) ==
    /\ callers[k].pc = "write"
    /\ Update(callers[k].to)
    /\ callers' = [callers EXCEPT ![k] = NoCall]
    /\ UNCHANGED <<containers, watch, refresh, coord, spent>>

-----------------------------------------------------------------------------
(* Operations on containers *)

BusyStatus(kind) ==
    CASE kind = "start" -> "starting" [] kind = "stop" -> "stopping"
      [] kind = "delete" -> "deleting"
DesiredStatus(kind) ==
    CASE kind = "start" -> "running" [] kind = "stop" -> "exited"
      [] kind = "delete" -> "deleting"

\* ContainerService.Start, Stop and Delete: one active operation for a row.
Refused(s, kind) ==
    \/ Active(s)
    \/ rows[s] = "none"
    \/ kind # "delete" /\ rows[s] = "missing"
QueueOp(s, kind) ==
    /\ ops' = [ops EXCEPT ![s] = [kind |-> kind, stage |-> "queued", prev |-> rows[s]]]
    /\ rows' = [rows EXCEPT ![s] = BusyStatus(kind)]
    /\ desired' = [desired EXCEPT ![s] = DesiredStatus(kind)]

\* The user's own request about one container.
ManualOp(s) ==
    /\ \E kind \in {"start", "stop", "delete"} :
           Trouble(kind) /\ ~Refused(s, kind) /\ QueueOp(s, kind)
    /\ UNCHANGED <<project, engine, events, watch, refresh, coord, callers>>

Report(s, action) ==
    /\ Len(events) < MaxLag
    /\ events' = Append(events, [service |-> s, action |-> action])

\* Docker carries out the operation of the executor.
StartActs(s) ==
    /\ ops[s].kind = "start" /\ ops[s].stage = "queued"
    /\ engine[s] # "none"
    /\ ops' = [ops EXCEPT ![s].stage = "acted"]
    /\ IF engine[s] \in Up THEN UNCHANGED <<engine, events>>
       ELSE engine' = [engine EXCEPT ![s] = "running"] /\ Report(s, "start")
    /\ UNCHANGED <<project, rows, desired, watch, refresh, coord, callers, spent>>

\* Docker reports the signal at once; the process may take its time to end.
StopSignals(s) ==
    /\ ops[s].kind = "stop" /\ ops[s].stage = "queued"
    /\ engine[s] # "none"
    /\ ops' = [ops EXCEPT ![s].stage = "signaled"]
    /\ IF engine[s] \in Up THEN Report(s, "kill") ELSE UNCHANGED events
    /\ UNCHANGED <<project, rows, desired, engine, watch, refresh, coord, callers, spent>>

\* It ends with zero or with another code.
StopActs(s) ==
    /\ ops[s].kind = "stop" /\ ops[s].stage = "signaled"
    /\ engine[s] # "none"
    /\ ops' = [ops EXCEPT ![s].stage = "acted"]
    /\ IF engine[s] \notin Up THEN UNCHANGED <<engine, events>>
       ELSE \/ engine' = [engine EXCEPT ![s] = "exited"] /\ Report(s, "die")
            \/ engine' = [engine EXCEPT ![s] = "broken"] /\ Report(s, "break")
    /\ UNCHANGED <<project, rows, desired, watch, refresh, coord, callers, spent>>

DeleteActs(s) ==
    /\ ops[s].kind = "delete" /\ ops[s].stage = "queued"
    /\ ops' = [ops EXCEPT ![s].stage = "acted"]
    /\ IF engine[s] = "none" THEN UNCHANGED <<engine, events>>
       ELSE engine' = [engine EXCEPT ![s] = "none"] /\ Report(s, "destroy")
    /\ UNCHANGED <<project, rows, desired, watch, refresh, coord, callers, spent>>

\* The executor records the end and refreshes the project.  A refresh of the
\* container's earlier operation has ended by then (a bound of the model).
EndStatus(kind) ==
    CASE kind = "start" -> "running" [] kind = "stop" -> "exited"
      [] kind = "delete" -> "none"
OpDone(s) ==
    /\ Active(s) /\ ops[s].stage = "acted"
    /\ refresh[s].pc = "idle"
    /\ rows' = [rows EXCEPT ![s] = EndStatus(ops[s].kind)]
    /\ ops' = [ops EXCEPT ![s] = NoOp]
    /\ refresh' = [refresh EXCEPT ![s].pc = "project"]
    /\ UNCHANGED <<project, desired, engine, events, watch, coord, callers, spent>>

\* failQueuedLifecycle, before Docker acted or after.
Restored(prev) == IF prev \in ActiveRow THEN "error" ELSE prev
OpFails(s) ==
    /\ Active(s)
    /\ Trouble("docker")
    /\ rows' = [rows EXCEPT ![s] = Restored(ops[s].prev)]
    /\ ops' = [ops EXCEPT ![s] = NoOp]
    /\ UNCHANGED <<project, desired, engine, events, watch, refresh, coord, callers>>

\* Docker does not know the container.
OpFindsNothing(s) ==
    /\ ops[s].kind \in {"start", "stop"} /\ ops[s].stage # "acted"
    /\ engine[s] = "none"
    /\ rows' = [rows EXCEPT ![s] = "missing"]
    /\ ops' = [ops EXCEPT ![s] = NoOp]
    /\ UNCHANGED <<project, desired, engine, events, watch, refresh, coord, callers, spent>>

-----------------------------------------------------------------------------
(* The containers *)

Die(s, state, action) ==
    /\ engine[s] \in Up
    /\ engine' = [engine EXCEPT ![s] = state]
    /\ Report(s, action) /\ Lapse(s)
    /\ UNCHANGED <<project, rows, desired, ops, watch, refresh, callers>>

Ends(s) == Trouble("end") /\ (Die(s, "exited", "die") \/ Die(s, "broken", "break"))

\* A one-shot service has done its work, at the first start or a later one.
Completes(s) ==
    /\ s \in OneShots
    /\ IF spent.completing > 0 THEN UNCHANGED spent ELSE Trouble("complete")
    /\ Die(s, "exited", "die")

\* Someone removes the container past Core.
Vanishes(s) ==
    /\ engine[s] # "none"
    /\ Trouble("vanish")
    /\ engine' = [engine EXCEPT ![s] = "none"]
    /\ Report(s, "destroy")
    /\ UNCHANGED <<project, rows, desired, ops, watch, refresh, coord, callers>>

GetsHealthy(s) ==
    /\ Plan.services[s].check
    /\ engine[s] = "running"
    /\ engine' = [engine EXCEPT ![s] = "healthy"]
    /\ UNCHANGED <<project, rows, desired, ops, events, watch, refresh, coord, callers, spent>>

\* A health check fails, from the start or later, and may pass again.
TurnsUnhealthy(s) ==
    /\ Plan.services[s].check
    /\ engine[s] \in {"running", "healthy"}
    /\ Trouble("unhealthy")
    /\ engine' = [engine EXCEPT ![s] = "unhealthy"]
    /\ Lapse(s)
    /\ UNCHANGED <<project, rows, desired, ops, events, watch, refresh, callers>>

Recovers(s) ==
    /\ engine[s] = "unhealthy"
    /\ engine' = [engine EXCEPT ![s] = "healthy"]
    /\ UNCHANGED <<project, rows, desired, ops, events, watch, refresh, coord, callers, spent>>

-----------------------------------------------------------------------------
(* The event worker *)

ExpectedExit(wanted) == wanted \in {"exited", "deleting"}

\* observedStateFromExitEvent with adjustExpectedExitState.
EventStatus(s, action) ==
    CASE action = "start" -> "running"
      [] action \in {"kill", "die"} -> "exited"
      [] action = "break" -> (IF ExpectedExit(desired[s]) THEN "exited" ELSE "error")
      [] OTHER -> (IF ExpectedExit(desired[s]) THEN "exited" ELSE "missing")

Observe(s, status, ended) ==
    /\ rows' = [rows EXCEPT ![s] = IF @ = "none" THEN @ ELSE status]
    /\ desired' = IF ended /\ rows[s] # "none" THEN [desired EXCEPT ![s] = "exited"]
                  ELSE desired

\* The write, to the row as it is by now, and the refresh of its project.
WriteRow(s, found, refreshes) ==
    /\ Observe(s, found.status, found.ended)
    /\ refresh' = [refresh EXCEPT ![Watcher].pc = IF refreshes THEN "project" ELSE "idle"]

\* An event that gives a cause: it reads the row first, for adjustExpectedExitState.
Caused(action) == action \in {"break", "destroy"}
TakeEvent ==
    /\ watch.pc = "idle" /\ events # <<>>
    /\ LET e == Head(events)
           found == [status |-> EventStatus(e.service, e.action), ended |-> e.action = "die"]
       IN IF Caused(e.action)
          THEN /\ watch' = [Watching("event") EXCEPT !.on = e.service, !.found = found]
               /\ UNCHANGED <<rows, desired, refresh>>
          ELSE /\ watch' = Watching("refresh")
               /\ WriteRow(e.service, found, rows[e.service] # "none")
    /\ events' = Tail(events)
    /\ UNCHANGED <<project, ops, engine, coord, callers, spent>>

WriteEvent ==
    /\ watch.pc = "event"
    /\ WriteRow(watch.on, watch.found, rows[watch.on] # "none")
    /\ watch' = Watching("refresh")
    /\ UNCHANGED <<project, ops, engine, events, coord, callers, spent>>

\* GetNonExited: rows that are busy or up, and others that should not be down.
Candidates == {s \in Services :
    /\ rows[s] \notin {"none", "missing"}
    /\ rows[s] \in ActiveRow \cup {"running"} \/ desired[s] \in {"running", "deleting"}}

ListContainers ==
    /\ watch.pc = "idle"
    /\ Candidates # {}
    /\ watch' = [Watching("sync") EXCEPT !.left = Candidates, !.seen = Listed(Candidates)]
    /\ UNCHANGED <<project, containers, refresh, coord, callers, spent>>

\* Mutant: a busy row is left to its operation, whether there is one or not.
SkipsBusy(s) == watch.seen[s].status \in ActiveRow

SkipsSync(s) == watch.seen[s].status \in ActiveRow /\ Active(s)

\* The next row of the list, or the end of it.
RowDone(s) ==
    LET left == watch.left \ {s} IN
    watch' = IF left = {} THEN Watching("refresh")
             ELSE [Watching("sync") EXCEPT !.left = left,
                       !.seen = [watch.seen EXCEPT ![s] = Unlisted]]

\* The next row: HasActiveOperation is asked about one that was listed as busy.
Turn(s) == watch.pc = "sync" /\ refresh[Watcher].pc = "idle" /\ s \in watch.left
CheckActive(s) ==
    /\ Turn(s)
    /\ watch.seen[s].status \in ActiveRow
    /\ IF SkipsSync(s) THEN RowDone(s)
       ELSE watch' = [watch EXCEPT !.pc = "inspect", !.on = s]
    /\ UNCHANGED <<project, containers, refresh, coord, callers, spent>>

\* observedStateFromInspect, of the row as it was listed.
Inspected(s) ==
    CASE engine[s] = "none" -> "missing"
      [] engine[s] \in Up -> "running"
      [] engine[s] = "exited" -> "exited"
      [] engine[s] = "broken" ->
           (IF ExpectedExit(watch.seen[s].desired) THEN "exited" ELSE "error")
Differs(s) == \/ watch.seen[s].status # Inspected(s)
              \/ engine[s] = "exited" /\ watch.seen[s].desired # "exited"

Inspects(s) == \/ watch.pc = "inspect" /\ watch.on = s
               \/ Turn(s) /\ watch.seen[s].status \notin ActiveRow
InspectContainer(s) ==
    /\ Inspects(s)
    /\ IF Differs(s)
       THEN watch' = [watch EXCEPT !.pc = "write", !.on = s,
                          !.found = [status |-> Inspected(s), ended |-> engine[s] = "exited"]]
       ELSE RowDone(s)
    /\ UNCHANGED <<project, containers, refresh, coord, callers, spent>>

\* The inspection fails: the row waits for the next synchronisation.
InspectFails(s) ==
    /\ Inspects(s)
    /\ Trouble("list")
    /\ RowDone(s)
    /\ UNCHANGED <<project, containers, refresh, coord, callers>>

WriteObserved ==
    /\ watch.pc = "write"
    /\ WriteRow(watch.on, watch.found, watch.seen[watch.on].status # watch.found.status)
    /\ RowDone(watch.on)
    /\ UNCHANGED <<project, ops, engine, events, coord, callers, spent>>

WatcherRests ==
    /\ watch.pc = "refresh" /\ refresh[Watcher].pc = "idle"
    /\ watch' = Watching("idle")
    /\ UNCHANGED <<project, containers, refresh, coord, callers, spent>>

-----------------------------------------------------------------------------
(* RefreshProjectStatus, for the executor of a container's operation or for  *)
(* the event worker                                                          *)

ReadStatus(c) ==
    /\ refresh[c].pc = "project"
    /\ refresh' = [refresh EXCEPT ![c] =
                       IF Accepting THEN [@ EXCEPT !.pc = "containers"] ELSE NoRefresh]
    /\ UNCHANGED <<project, containers, watch, coord, callers, spent>>

\* Mutant: a container that is being deleted counts as gone.
WithoutDeleting == {s \in Services : rows[s] \notin {"none", "deleting"}}

Present == {s \in Services : rows[s] # "none"}
Lost == {s \in Present : rows[s] \in {"missing", "error"}}
Running == {s \in Present : rows[s] = "running"}

\* Mutant: the status of a container is taken for one of a project.
OfContainers ==
    IF Lost # {} THEN "failed" ELSE IF Running # {} THEN "running"
    ELSE IF Present # {} /\ \A s \in Present : rows[s] = "exited" THEN "exited"
    ELSE "none"

\* The first lost container in the query's order decides, then a running one.
Aggregate ==
    IF Lost # {} THEN "failed"
    ELSE IF Running # {} THEN "running"
    ELSE IF Present # {} /\ \A s \in Present : rows[s] = "exited" THEN "stopped"
    ELSE "none"

ReadContainers(c) ==
    /\ refresh[c].pc = "containers"
    /\ refresh' = [refresh EXCEPT ![c] =
                       IF Aggregate = "none" THEN NoRefresh
                       ELSE [pc |-> "write", to |-> Aggregate]]
    /\ UNCHANGED <<project, containers, watch, coord, callers, spent>>

WriteAggregate(c) ==
    /\ refresh[c].pc = "write"
    /\ Update(refresh[c].to)
    /\ refresh' = [refresh EXCEPT ![c] = NoRefresh]
    /\ UNCHANGED <<containers, watch, coord, callers, spent>>

-----------------------------------------------------------------------------
(* The coordinator *)

\* ListByStatuses.
Tick ==
    /\ coord.pc = "idle"
    /\ project \in Busy
    /\ coord' = [coord EXCEPT !.pc = IF project = "deleting" THEN "walk" ELSE "graph",
                              !.task = project]
    /\ UNCHANGED <<project, containers, watch, refresh, callers, spent>>

\* GetServiceGraph; the nodes in reverse order for a stop.
InGraph == SelectSeq(Plan.order, LAMBDA s : rows[s] # "none")
ReadGraph ==
    /\ coord.pc = "graph"
    /\ coord' = IF InGraph = <<>> THEN [coord EXCEPT !.pc = "fail"]
                ELSE [coord EXCEPT !.pc = "walk",
                          !.left = IF coord.task = "stopping" THEN Reverse(InGraph)
                                   ELSE InGraph]
    /\ UNCHANGED <<project, containers, watch, refresh, callers, spent>>

Walking(task) == coord.pc = "walk" /\ coord.task = task
Node == Head(coord.left)
NextNode == [coord EXCEPT !.left = Tail(@)]


\* containerStatusBlocksProjectTick.
Blocks(status) == status \in ActiveRow

VisitStart ==
    /\ Walking("starting")
    /\ coord' =
         IF coord.left = <<>> THEN [coord EXCEPT !.pc = "finish"]
         ELSE CASE rows[Node] = "running" -> NextNode
                [] rows[Node] \in {"none", "missing", "error"} -> [coord EXCEPT !.pc = "fail"]
                [] Blocks(rows[Node]) -> Resting
                [] OTHER -> [coord EXCEPT !.pc = "wait", !.looked = {}, !.lapsed = {}]
    /\ UNCHANGED <<project, containers, watch, refresh, callers, spent>>

\* projectDependencyReady: one that cannot be inspected counts as failed.
Verdict(d) ==
    IF rows[d.on] = "none" \/ engine[d.on] = "none" THEN "error"
    ELSE Evaluate(engine[d.on], d.condition, Plan.services[d.on].check)
Fails(d) == d.required /\ Verdict(d) = "error"
\* Mutant: the coordinator does not wait for dependencies.
NeverAwaited(d) == FALSE

Awaited(d) == Verdict(d) = "wait"

\* One dependency after another; one that is optional may fail.
LookAtDependency ==
    /\ coord.pc = "wait"
    /\ \E d \in Needs(Node) \ coord.looked :
           coord' = IF Fails(d) THEN [coord EXCEPT !.pc = "fail"]
                    ELSE IF Awaited(d) THEN Resting
                    ELSE [coord EXCEPT !.looked = @ \cup {d}]
    /\ UNCHANGED <<project, containers, watch, refresh, callers, spent>>

DependenciesReady ==
    /\ coord.pc = "wait"
    /\ Needs(Node) \subseteq coord.looked
    /\ coord' = [coord EXCEPT !.pc = "act"]
    /\ UNCHANGED <<project, containers, watch, refresh, callers, spent>>

VisitStop ==
    /\ Walking("stopping")
    /\ coord' =
         IF coord.left = <<>> THEN [coord EXCEPT !.pc = "finish"]
         ELSE CASE rows[Node] \in {"exited", "missing"} -> NextNode
                [] rows[Node] = "none" -> [coord EXCEPT !.pc = "fail"]
                [] Blocks(rows[Node]) -> Resting
                [] OTHER -> [coord EXCEPT !.pc = "act"]
    /\ UNCHANGED <<project, containers, watch, refresh, callers, spent>>

\* GetByProjectID lists the containers in no order; the first one is deleted.
VisitDelete ==
    /\ Walking("deleting")
    /\ \/ Present = {} /\ coord' = [coord EXCEPT !.pc = "finish"]
       \/ \E s \in Present :
              coord' = IF rows[s] = "deleting" THEN Resting
                       ELSE [coord EXCEPT !.pc = "act", !.left = <<s>>]
    /\ UNCHANGED <<project, containers, watch, refresh, callers, spent>>

TaskOp ==
    CASE coord.task = "starting" -> "start" [] coord.task = "stopping" -> "stop"
      [] coord.task = "deleting" -> "delete"

\* A container that is gone by the time it is deleted is no error.
Act ==
    /\ coord.pc = "act"
    /\ IF Refused(Node, TaskOp)
       THEN /\ coord' = IF TaskOp = "delete" /\ rows[Node] = "none" THEN Resting
                        ELSE [coord EXCEPT !.pc = "fail"]
            /\ UNCHANGED <<rows, desired, ops>>
       ELSE QueueOp(Node, TaskOp) /\ coord' = Resting
    /\ UNCHANGED <<project, engine, events, watch, refresh, callers, spent>>

\* UpdateStatus after the last container, or the row's deletion, which takes
\* the rows of containers with it.
Finish ==
    /\ coord.pc = "finish"
    /\ Update(CASE coord.task = "starting" -> "running" [] coord.task = "stopping" -> "stopped"
                [] coord.task = "deleting" -> "none")
    /\ rows' = IF coord.task = "deleting" THEN [s \in Services |-> "none"] ELSE rows
    /\ coord' = Resting
    /\ UNCHANGED <<desired, ops, engine, events, watch, refresh, callers, spent>>

\* A query or a capacity check fails.
CoordinatorFails ==
    /\ coord.pc \in {"graph", "walk", "wait", "act", "finish"}
    /\ Trouble("list")
    /\ coord' = [coord EXCEPT !.pc = "fail"]
    /\ UNCHANGED <<project, containers, watch, refresh, callers>>

FailProject ==
    /\ coord.pc = "fail"
    /\ Update("failed")
    /\ coord' = Resting
    /\ UNCHANGED <<containers, watch, refresh, callers, spent>>

-----------------------------------------------------------------------------
(* A restart of Core: processes and unread events are gone, and operations   *)
(* an executor had claimed are failed; the rows stay as they are             *)

Crash ==
    /\ Trouble("crash")
    /\ \E claimed \in SUBSET {s \in Services : ops[s].stage = "queued"} :
           ops' = [s \in Services |-> IF ops[s].stage # "queued" \/ s \in claimed
                                      THEN NoOp ELSE ops[s]]
    /\ events' = <<>>
    /\ watch' = Watching("idle")
    /\ refresh' = [c \in DOMAIN refresh |-> NoRefresh]
    /\ coord' = Resting
    /\ callers' = [k \in Callers |-> NoCall]
    /\ UNCHANGED <<project, rows, desired, engine>>

-----------------------------------------------------------------------------

CallerStep == \E k \in Callers : ReadProject(k) \/ StartRefused(k) \/ AcceptRequest(k)
ExecutorStep(s) ==
    \/ StartActs(s) \/ StopSignals(s) \/ StopActs(s) \/ DeleteActs(s)
    \/ OpDone(s) \/ OpFails(s) \/ OpFindsNothing(s)
ContainerStep(s) ==
    \/ Ends(s) \/ Completes(s) \/ Vanishes(s)
    \/ GetsHealthy(s) \/ TurnsUnhealthy(s) \/ Recovers(s)
WatcherStep ==
    \/ TakeEvent \/ WriteEvent
    \/ ListContainers
    \/ \E s \in Services : CheckActive(s) \/ InspectContainer(s) \/ InspectFails(s)
    \/ WriteObserved \/ WatcherRests
RefreshStep(c) == ReadStatus(c) \/ ReadContainers(c) \/ WriteAggregate(c)
CoordinatorStep ==
    \/ Tick \/ ReadGraph \/ VisitStart \/ LookAtDependency
    \/ DependenciesReady \/ VisitStop \/ VisitDelete \/ Act \/ Finish \/ CoordinatorFails \/ FailProject

Next ==
    \/ CallerStep
    \/ \E s \in Services : ManualOp(s) \/ ExecutorStep(s) \/ ContainerStep(s)
    \/ WatcherStep
    \/ \E c \in Services \cup {Watcher} : RefreshStep(c)
    \/ CoordinatorStep
    \/ Crash

Spec == Init /\ [][Next]_vars

\* Core's processes take their steps; the synchronisation's ticker fires and
\* select chooses fairly between it and an event; Docker carries out what it
\* was asked, and a health check that runs comes to a result.
FairSpec ==
    /\ Spec
    /\ \A k \in Callers : WF_vars(AcceptRequest(k))
    /\ \A s \in Services : WF_vars(ExecutorStep(s)) /\ WF_vars(GetsHealthy(s))
    /\ WF_vars(WatcherStep) /\ SF_vars(TakeEvent) /\ SF_vars(ListContainers)
    /\ \A c \in Services \cup {Watcher} : WF_vars(RefreshStep(c))
    /\ WF_vars(CoordinatorStep)

-----------------------------------------------------------------------------
(* Properties *)

\* Every variable keeps its type.
TypeOK ==
    /\ project \in ProjectStatuses
    /\ rows \in [Services -> RowStatuses]
    /\ desired \in [Services -> {"running", "exited", "deleting"}]
    /\ ops \in [Services -> OpType]
    /\ engine \in [Services -> EngineStates]
    /\ events \in Seq(EventType) /\ Len(events) <= MaxLag
    /\ watch \in WatchType
    /\ refresh \in [Services \cup {Watcher} -> RefreshType]
    /\ coord \in CoordType
    /\ callers \in [Callers -> CallerType]
    /\ spent \in [{"requests", "manual", "completing", "faults"} -> Nat]
    /\ spent.requests <= MaxRequests
    /\ spent.manual + spent.faults + spent.completing <= MaxTroubles

\* The row of a project is deleted only when none of its containers is left in
\* Docker: the deletion of the row takes the rows of containers with it, and
\* with them the last trace of a container.
DeletedLeavesNothing ==
    project = "none" => \A s \in Services : engine[s] = "none"

\* The coordinator starts a service only when the required dependencies that are
\* up are ready, however much its queries, late events, failing operations and
\* restarts of Core interleave.  It looks at each of them once before it acts, so
\* it starts the service also when one ended or turned unhealthy after its look:
\* those are the exception, and whatever a user starts by hand meanwhile.
StartsInOrder ==
    [][\A s \in Services :
          (/\ coord.pc = "act" /\ coord' = Resting
           /\ ops[s].kind = "none" /\ ops'[s].kind = "start")
          => \A d \in Needs(s) :
                 /\ d.required /\ d.condition # "service_completed_successfully"
                 /\ engine[d.on] \in Up
                 /\ spent.manual = 0 /\ d.on \notin coord.lapsed
                 => Evaluate(engine[d.on], d.condition, Plan.services[d.on].check) = "ready"]_vars


\* Restarts lose events and leave rows busy without an operation; the
\* synchronisation repairs every row that says running of a container that
\* is not, and every busy row that nothing works on.
RowsAreRepaired ==
    []<>(\A s \in Services : /\ rows[s] = "running" => engine[s] \in Up
                             /\ rows[s] \in ActiveRow => Active(s))

\* Docs: starting and stopping go by the order of dependencies.  The
\* coordinator queues the stop of a dependency only after what needs it is down.
StopsInOrder ==
    [][\A s \in Services :
          (/\ coord.pc = "act" /\ coord' = Resting
           /\ ops[s].kind = "none" /\ ops'[s].kind = "stop")
          => \A d \in Edges : d.on = s => engine[d.service] \notin Up]_vars
===============================================================================
