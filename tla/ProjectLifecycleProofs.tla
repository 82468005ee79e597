----------------------- MODULE ProjectLifecycleProofs -----------------------
(***************************************************************************)
(* Proofs about ProjectLifecycle, for every plan, every set of callers and *)
(* every bound: a deleted project leaves no container in Docker, and the   *)
(* coordinator starts containers in the order of their dependencies.       *)
(***************************************************************************)
EXTENDS ProjectLifecycle, TLAPS

-----------------------------------------------------------------------------
(* The shape of the variables.  The nodes a coordinator has left come from   *)
(* SelectSeq, which is recursive: no theorem here is about their type.       *)

CoordTyped ==
    /\ coord = [pc |-> coord.pc, task |-> coord.task, left |-> coord.left,
                looked |-> coord.looked, lapsed |-> coord.lapsed]
    /\ coord.looked \subseteq Edges
    /\ coord.pc \in {"idle", "graph", "walk", "wait", "act", "finish", "fail"}
    /\ coord.task \in Busy \cup {"none"}
    /\ coord.pc # "idle" => coord.task \in Busy
Shape ==
    /\ project \in ProjectStatuses
    /\ rows \in [Services -> RowStatuses]
    /\ ops \in [Services -> OpType]
    /\ engine \in [Services -> EngineStates \ {"created"}]
    /\ refresh \in [Services \cup {Watcher} -> RefreshType]
    /\ callers \in [Callers -> CallerType]
    /\ spent \in [{"requests", "manual", "completing", "faults"} -> Nat]
    /\ CoordTyped

\* What is about to be written to the project's row never deletes it: only
\* the coordinator's last step does.
WritesKeep ==
    /\ \A c \in Services \cup {Watcher} : refresh[c].pc = "write" => refresh[c].to # "none"
    /\ \A k \in Callers : callers[k].pc = "write" => callers[k].to # "none"

\* What the event worker is about to write to a row keeps the row.
FoundKeeps ==
    /\ watch = [pc |-> watch.pc, left |-> watch.left, seen |-> watch.seen,
                on |-> watch.on, found |-> watch.found]
    /\ watch.pc \in {"write", "event"} => watch.found.status \in RowStatuses \ {"none"}

\* A row goes only after its container, and nothing brings it back: no operation
\* is active on it, and an operation that fails restores a row that was there.
RowGoesLast(s) ==
    /\ rows[s] = "none" => engine[s] = "none" /\ ~Active(s)
    /\ Active(s) => ops[s].prev # "none"
    /\ ops[s].kind = "delete" /\ ops[s].stage = "acted" => engine[s] = "none"
AllRowsGone == \A s \in Services : rows[s] = "none"

Typed == Shape /\ WritesKeep /\ FoundKeeps /\ (coord.pc = "wait" => coord.task = "starting")

GoneInv ==
    /\ Typed
    /\ \A s \in Services : RowGoesLast(s)
    /\ coord.pc = "finish" /\ coord.task = "deleting" => AllRowsGone
    /\ project = "none" => AllRowsGone

\* From the coordinator's look at a dependency to its act the dependency stays
\* ready, or it is down and nothing that is queued will start it, or it lapsed.
Holds(d) ==
    \/ Evaluate(engine[d.on], d.condition, Plan.services[d.on].check) = "ready"
    \/ engine[d.on] = "none"
    \/ engine[d.on] \notin Up /\ ~(ops[d.on].kind = "start" /\ ops[d.on].stage = "queued")
Uncompleted(d) == d.required /\ d.condition # "service_completed_successfully"
Undisturbed == spent.manual = 0
LookedInv ==
    /\ Typed
    /\ coord.pc = "act" /\ coord.task = "starting" => Needs(Node) \subseteq coord.looked
    /\ coord.pc \in {"wait", "act"} /\ coord.task = "starting" /\ Undisturbed
       => \A d \in coord.looked : Uncompleted(d) => Holds(d) \/ d.on \in coord.lapsed

-----------------------------------------------------------------------------
(* What the steps do to one variable *)

LEMMA SpendTyped ==
    ASSUME Shape, NEW what \in {"requests", "manual", "completing", "faults"}, Spend(what)
    PROVE  /\ spent' \in [{"requests", "manual", "completing", "faults"} -> Nat]
           /\ Undisturbed' => Undisturbed
           /\ what = "manual" => ~Undisturbed'
<1>1. \A x \in {"requests", "manual", "completing", "faults"} :
          spent'[x] = IF x = what THEN spent[x] + 1 ELSE spent[x]
  BY DEF Spend, Shape
<1>2. spent' \in [{"requests", "manual", "completing", "faults"} -> Nat]
  BY <1>1 DEF Spend, Shape
<1> QED BY <1>1, <1>2 DEF Shape, Undisturbed

LEMMA TroubleTyped ==
    ASSUME Shape, NEW what, Trouble(what)
    PROVE  /\ spent' \in [{"requests", "manual", "completing", "faults"} -> Nat]
           /\ Undisturbed' => Undisturbed
           /\ what \in {"start", "stop", "delete"} => ~Undisturbed'
<1> DEFINE kind == CASE what \in {"start", "stop", "delete"} -> "manual"
                     [] what = "complete" -> "completing"
                     [] OTHER -> "faults"
<1>1. Spend(kind)
  BY DEF Trouble
<1>2. /\ kind \in {"requests", "manual", "completing", "faults"}
      /\ what \in {"start", "stop", "delete"} => kind = "manual"
  OBVIOUS
<1> HIDE DEF kind
<1> QED BY <1>1, <1>2, SpendTyped

\* An operation that is queued: nothing was active on the row, and it was there.
LEMMA QueueTyped ==
    ASSUME Shape, NEW s, NEW kind \in {"start", "stop", "delete"},
           QueueOp(s, kind)
    PROVE  /\ rows' \in [Services -> RowStatuses]
           /\ ops' \in [Services -> OpType]
           /\ \A t \in Services :
                 IF t = s THEN /\ ops'[t] = [kind |-> kind, stage |-> "queued", prev |-> rows[t]]
                               /\ rows'[t] = BusyStatus(kind)
                 ELSE ops'[t] = ops[t] /\ rows'[t] = rows[t]
<1>1. BusyStatus(kind) \in RowStatuses
  BY DEF BusyStatus, RowStatuses, ActiveRow
<1>2. rows' = [rows EXCEPT ![s] = BusyStatus(kind)]
  BY DEF QueueOp
<1>3. ops' = [ops EXCEPT ![s] = [kind |-> kind, stage |-> "queued", prev |-> rows[s]]]
  BY DEF QueueOp
<1>4. s \in Services => [kind |-> kind, stage |-> "queued", prev |-> rows[s]] \in OpType
  BY DEF Shape, OpType
<1>5. rows' \in [Services -> RowStatuses]
  BY <1>1, <1>2 DEF Shape
<1>6. ops' \in [Services -> OpType]
  BY <1>3, <1>4 DEF Shape
<1> QED BY <1>2, <1>3, <1>5, <1>6 DEF Shape

LEMMA EndTyped ==
    ASSUME Shape, NEW s \in Services, NEW status \in RowStatuses,
           rows' = [rows EXCEPT ![s] = status],
           ops' = [ops EXCEPT ![s] = NoOp]
    PROVE  /\ rows' \in [Services -> RowStatuses]
           /\ ops' \in [Services -> OpType]
           /\ \A t \in Services :
                 IF t = s THEN ops'[t] = NoOp /\ rows'[t] = status
                 ELSE ops'[t] = ops[t] /\ rows'[t] = rows[t]
<1>1. NoOp \in OpType
  BY DEF NoOp, OpType, RowStatuses
<1> QED BY <1>1 DEF Shape

LEMMA StageTyped ==
    ASSUME Shape, NEW s \in Services, NEW stage \in {"signaled", "acted"},
           ops' = [ops EXCEPT ![s].stage = stage]
    PROVE  /\ ops' \in [Services -> OpType]
           /\ \A t \in Services :
                 IF t = s THEN ops'[t] = [kind |-> ops[t].kind, stage |-> stage,
                                          prev |-> ops[t].prev]
                 ELSE ops'[t] = ops[t]
<1>1. ops[s] = [kind |-> ops[s].kind, stage |-> ops[s].stage, prev |-> ops[s].prev]
      /\ ops[s] \in OpType
  BY DEF Shape, OpType
<1>2. [ops[s] EXCEPT !.stage = stage]
          = [kind |-> ops[s].kind, stage |-> stage, prev |-> ops[s].prev]
  BY <1>1
<1>3. [ops[s] EXCEPT !.stage = stage] \in OpType
  BY <1>1, <1>2 DEF OpType
<1>4. ops' = [ops EXCEPT ![s] = [ops[s] EXCEPT !.stage = stage]]
  BY DEF Shape
<1> QED BY <1>2, <1>3, <1>4 DEF Shape

LEMMA UpdateTyped ==
    ASSUME Shape, NEW status \in ProjectStatuses, Update(status)
    PROVE  /\ project' \in ProjectStatuses
           /\ project = "none" \/ status = "none" <=> project' = "none"
BY DEF Shape, Update, ProjectStatuses, Busy

LEMMA ObserveTyped ==
    ASSUME Shape, NEW s, NEW status \in RowStatuses \ {"none"}, NEW ended,
           Observe(s, status, ended)
    PROVE  /\ rows' \in [Services -> RowStatuses]
           /\ \A t \in Services : rows'[t] = "none" <=> rows[t] = "none"
<1>1. rows' = [rows EXCEPT ![s] = IF rows[s] = "none" THEN rows[s] ELSE status]
  BY DEF Observe, Shape
<1> QED BY <1>1 DEF Shape

LEMMA RefreshTyped ==
    ASSUME Shape, WritesKeep, NEW c,
           NEW r \in RefreshType, r.pc = "write" => r.to # "none",
           refresh' = [refresh EXCEPT ![c] = r]
    PROVE  /\ refresh' \in [Services \cup {Watcher} -> RefreshType]
           /\ \A d \in Services \cup {Watcher} :
                 refresh'[d].pc = "write" => refresh'[d].to # "none"
BY DEF Shape, WritesKeep

LEMMA RefreshStarts ==
    ASSUME Shape, WritesKeep, NEW c, NEW pc \in {"idle", "project", "containers"},
           refresh' = [refresh EXCEPT ![c].pc = pc]
    PROVE  /\ refresh' \in [Services \cup {Watcher} -> RefreshType]
           /\ \A d \in Services \cup {Watcher} :
                 refresh'[d].pc = "write" => refresh'[d].to # "none"
<1>0. CASE c \notin Services \cup {Watcher}
  <2>1. refresh' = refresh
    BY <1>0 DEF Shape
  <2> QED BY <2>1 DEF Shape, WritesKeep
<1>1. CASE c \in Services \cup {Watcher}
  <2> DEFINE r == [pc |-> pc, to |-> refresh[c].to]
  <2>1. refresh[c] = [pc |-> refresh[c].pc, to |-> refresh[c].to]
        /\ refresh[c].to \in ProjectStatuses
    BY <1>1 DEF Shape, RefreshType
  <2>2. [refresh[c] EXCEPT !.pc = pc] = r
    BY <2>1
  <2>3. refresh' = [refresh EXCEPT ![c] = r]
    BY <1>1, <2>2 DEF Shape
  <2>4. r \in RefreshType /\ r.pc # "write"
    BY <2>1 DEF RefreshType
  <2> HIDE DEF r
  <2> QED BY <2>3, <2>4, RefreshTyped
<1> QED BY <1>0, <1>1

LEMMA CallersTyped ==
    ASSUME Shape, WritesKeep, NEW k,
           NEW r \in CallerType, r.pc = "write" => r.to # "none",
           callers' = [callers EXCEPT ![k] = r]
    PROVE  /\ callers' \in [Callers -> CallerType]
           /\ \A j \in Callers : callers'[j].pc = "write" => callers'[j].to # "none"
BY DEF Shape, WritesKeep

-----------------------------------------------------------------------------
(* The shape is kept *)

LEMMA ShapeInit ==
    ASSUME Init
    PROVE  Shape
<1>1. project \in ProjectStatuses /\ rows \in [Services -> RowStatuses]
  BY DEF Init, Deployed, Stopped, ProjectStatuses, Busy, RowStatuses, ActiveRow
<1>2. ops \in [Services -> OpType] /\ refresh \in [Services \cup {Watcher} -> RefreshType]
  BY DEF Init, NoOp, OpType, RowStatuses, NoRefresh, RefreshType, ProjectStatuses
<1>3. engine \in [Services -> EngineStates \ {"created"}]
  BY DEF Init, Deployed, Stopped, Down, EngineStates
<1>4. callers \in [Callers -> CallerType] /\ CoordTyped
  BY DEF Init, NoCall, CallerType, CoordTyped, Resting
<1>5. spent \in [{"requests", "manual", "completing", "faults"} -> Nat]
  BY DEF Init
<1> QED BY <1>1, <1>2, <1>3, <1>4, <1>5 DEF Shape

\* The steps of the coordinator, one record at a time.
LEMMA CoordGoes ==
    ASSUME Shape, coord.pc # "idle", NEW pc \in {"graph", "walk", "wait", "act", "finish", "fail"},
           coord' = [coord EXCEPT !.pc = pc]
    PROVE  CoordTyped' /\ coord'.pc = pc /\ coord'.task = coord.task
           /\ coord'.left = coord.left /\ coord'.looked = coord.looked
           /\ coord'.lapsed = coord.lapsed
<1>1. coord' = [pc |-> pc, task |-> coord.task, left |-> coord.left, looked |-> coord.looked,
                lapsed |-> coord.lapsed]
  BY DEF Shape, CoordTyped
<1> QED BY <1>1 DEF Shape, CoordTyped
LEMMA CoordNext ==
    ASSUME Shape, coord.pc # "idle", NEW pc \in {"graph", "walk", "wait", "act", "finish", "fail"},
           NEW left, coord' = [coord EXCEPT !.pc = pc, !.left = left]
    PROVE  CoordTyped' /\ coord'.pc = pc /\ coord'.task = coord.task
<1>1. coord' = [pc |-> pc, task |-> coord.task, left |-> left, looked |-> coord.looked,
                lapsed |-> coord.lapsed]
  BY DEF Shape, CoordTyped
<1> QED BY <1>1 DEF Shape, CoordTyped
LEMMA CoordLooks ==
    ASSUME Shape, coord.pc # "idle", NEW pc \in {"graph", "walk", "wait", "act", "finish", "fail"},
           NEW looked \in SUBSET Edges, NEW lapsed,
           coord' = [coord EXCEPT !.pc = pc, !.looked = looked, !.lapsed = lapsed]
    PROVE  CoordTyped' /\ coord'.pc = pc /\ coord'.task = coord.task
           /\ coord'.left = coord.left /\ coord'.looked = looked /\ coord'.lapsed = lapsed
<1>1. coord' = [pc |-> pc, task |-> coord.task, left |-> coord.left, looked |-> looked,
                lapsed |-> lapsed]
  BY DEF Shape, CoordTyped
<1> QED BY <1>1 DEF Shape, CoordTyped
LEMMA CoordNode ==
    ASSUME Shape, coord.pc # "idle", coord' = NextNode
    PROVE  CoordTyped' /\ coord'.pc = coord.pc /\ coord'.task = coord.task
<1>1. coord' = [pc |-> coord.pc, task |-> coord.task, left |-> Tail(coord.left),
                looked |-> coord.looked,
                lapsed |-> coord.lapsed]
  BY DEF Shape, CoordTyped, NextNode
<1> QED BY <1>1 DEF Shape, CoordTyped
LEMMA CoordRests ==
    ASSUME coord' = Resting
    PROVE  CoordTyped' /\ coord'.pc = "idle" /\ coord'.looked = {}
BY DEF CoordTyped, Resting

\* A step of Docker's leaves the coordinator where it is; one that a dependency
\* it has looked at goes through may be on record.
CoordStays ==
    /\ CoordTyped'
    /\ coord'.pc = coord.pc /\ coord'.task = coord.task
    /\ coord'.left = coord.left /\ coord'.looked = coord.looked
    /\ coord.lapsed \subseteq coord'.lapsed
Recorded(s) == (\E d \in coord.looked : d.on = s) => s \in coord'.lapsed
LEMMA CoordLapses ==
    ASSUME Shape, NEW s, Lapse(s)
    PROVE  CoordStays /\ Recorded(s)
<1> DEFINE lapsed == coord.lapsed \cup ({s} \cap {d.on : d \in coord.looked})
<1>1. coord' = [coord EXCEPT !.lapsed = lapsed]
  BY DEF Lapse
<1>2. coord' = [pc |-> coord.pc, task |-> coord.task, left |-> coord.left,
                looked |-> coord.looked, lapsed |-> lapsed]
  BY <1>1 DEF Shape, CoordTyped
<1>3. CoordTyped'
  BY <1>2 DEF Shape, CoordTyped
<1> QED BY <1>2, <1>3 DEF CoordStays, Recorded
LEMMA CoordSame ==
    ASSUME Shape, UNCHANGED coord
    PROVE  CoordStays
BY DEF Shape, CoordTyped, CoordStays

\* A step of the coordinator that looks, and changes nothing else.
Looks == UNCHANGED <<project, containers, watch, refresh, callers>>
SpendsTyped ==
    /\ spent' \in [{"requests", "manual", "completing", "faults"} -> Nat]
    /\ Undisturbed' => Undisturbed
CoordMeans ==
    /\ coord'.pc = "wait" => coord'.task = "starting"
    /\ coord'.pc = "finish" /\ coord'.task = "deleting" => AllRowsGone
    /\ coord'.pc = "act" /\ coord'.task = "starting" =>
         /\ coord.pc = "wait" /\ Needs(Node) \subseteq coord.looked
         /\ coord'.left = coord.left /\ coord'.looked = coord.looked
         /\ coord'.lapsed = coord.lapsed
    /\ coord'.pc = "wait" /\ coord.pc # "wait" => coord'.looked = {}
    /\ coord'.pc = "wait" /\ coord.pc = "wait" =>
         /\ coord'.left = coord.left /\ coord'.lapsed = coord.lapsed
         /\ \E d \in Needs(Node) : /\ coord'.looked = coord.looked \cup {d}
                                   /\ ~Fails(d) /\ ~Awaited(d)
LEMMA LookTyped ==
    ASSUME Shape, coord.pc = "wait" => coord.task = "starting",
           \/ Tick \/ ReadGraph \/ VisitStart \/ LookAtDependency
           \/ DependenciesReady \/ VisitStop \/ VisitDelete \/ CoordinatorFails
    PROVE  CoordTyped' /\ Looks /\ SpendsTyped /\ CoordMeans
<1>1. CASE Tick
  <2> DEFINE pc == IF project = "deleting" THEN "walk" ELSE "graph"
  <2>1. coord' = [pc |-> pc, task |-> project, left |-> coord.left, looked |-> coord.looked,
                  lapsed |-> coord.lapsed]
    BY <1>1 DEF Tick, Shape, CoordTyped
  <2>2. project \in Busy /\ Looks /\ spent' = spent
    BY <1>1 DEF Tick, Looks
  <2> QED BY <2>1, <2>2 DEF CoordTyped, Shape, Undisturbed, SpendsTyped, CoordMeans
<1>2. CASE ReadGraph
  <2>0. Looks /\ spent' = spent /\ coord.pc = "graph"
    BY <1>2 DEF ReadGraph, Looks
  <2>1. CASE InGraph = <<>>
    <3>1. coord' = [coord EXCEPT !.pc = "fail"]
      BY <1>2, <2>1 DEF ReadGraph
    <3> QED BY <3>1, <2>0, CoordGoes DEF Shape, Undisturbed, SpendsTyped, CoordMeans
  <2>2. CASE InGraph # <<>>
    <3> DEFINE left == IF coord.task = "stopping" THEN Reverse(InGraph) ELSE InGraph
    <3>1. coord' = [coord EXCEPT !.pc = "walk", !.left = left]
      BY <1>2, <2>2 DEF ReadGraph
    <3> HIDE DEF left
    <3> QED BY <3>1, <2>0, CoordNext DEF Shape, Undisturbed, SpendsTyped, CoordMeans
  <2> QED BY <2>1, <2>2
<1>3. CASE VisitStart
  <2>0. Looks /\ spent' = spent /\ coord.task = "starting" /\ coord.pc = "walk"
    BY <1>3 DEF VisitStart, Looks, Walking
  <2>1. \/ \E pc \in {"finish", "fail"} : coord' = [coord EXCEPT !.pc = pc]
        \/ coord' = [coord EXCEPT !.pc = "wait", !.looked = {}, !.lapsed = {}]
        \/ coord' = NextNode
        \/ coord' = Resting
    BY <1>3 DEF VisitStart
  <2>2. CASE \E pc \in {"finish", "fail"} : coord' = [coord EXCEPT !.pc = pc]
    BY <2>0, <2>2, CoordGoes DEF Shape, Undisturbed, SpendsTyped, CoordMeans
  <2>3. CASE coord' = [coord EXCEPT !.pc = "wait", !.looked = {}, !.lapsed = {}]
    <3>1. {} \in SUBSET Edges
      OBVIOUS
    <3>2. CoordTyped' /\ coord'.pc = "wait" /\ coord'.task = coord.task /\ coord'.looked = {}
      BY <2>0, <2>3, <3>1, CoordLooks
    <3> QED BY <2>0, <3>2 DEF Shape, Undisturbed, SpendsTyped, CoordMeans
  <2>4. CASE coord' = NextNode
    BY <2>0, <2>4, CoordNode DEF Shape, Undisturbed, SpendsTyped, CoordMeans
  <2>5. CASE coord' = Resting
    BY <2>0, <2>5, CoordRests DEF Shape, Undisturbed, SpendsTyped, CoordMeans
  <2> QED BY <2>1, <2>2, <2>3, <2>4, <2>5
<1>4. CASE LookAtDependency
  <2>0. Looks /\ spent' = spent /\ coord.pc = "wait"
    BY <1>4 DEF LookAtDependency, Looks
  <2>1. PICK d \in Needs(Node) \ coord.looked :
            coord' = IF Fails(d) THEN [coord EXCEPT !.pc = "fail"]
                     ELSE IF Awaited(d) THEN Resting
                     ELSE [coord EXCEPT !.looked = @ \cup {d}]
    BY <1>4 DEF LookAtDependency
  <2>2. CASE Fails(d)
    <3>1. coord' = [coord EXCEPT !.pc = "fail"]
      BY <2>1, <2>2
    <3> QED BY <3>1, <2>0, CoordGoes DEF Shape, Undisturbed, SpendsTyped, CoordMeans
  <2>3. CASE ~Fails(d) /\ Awaited(d)
    <3>1. coord' = Resting
      BY <2>1, <2>3
    <3> QED BY <3>1, <2>0, CoordRests DEF Shape, Undisturbed, SpendsTyped, CoordMeans
  <2>4. CASE ~Fails(d) /\ ~Awaited(d)
    <3> DEFINE looked == coord.looked \cup {d}
    <3>1. looked \in SUBSET Edges
      BY <2>1 DEF Shape, CoordTyped, Needs
    <3>2. coord' = [coord EXCEPT !.pc = "wait", !.looked = looked, !.lapsed = coord.lapsed]
      BY <2>0, <2>1, <2>4 DEF Shape, CoordTyped
    <3> HIDE DEF looked
    <3>3. CoordTyped' /\ coord'.pc = "wait" /\ coord'.task = coord.task
          /\ coord'.left = coord.left /\ coord'.looked = looked
          /\ coord'.lapsed = coord.lapsed
      BY <2>0, <3>1, <3>2, CoordLooks
    <3> QED BY <3>3, <2>0, <2>1, <2>4 DEF Shape, Undisturbed, SpendsTyped, CoordMeans, looked
  <2> QED BY <2>2, <2>3, <2>4
<1>5. CASE DependenciesReady
  <2>0. Looks /\ spent' = spent /\ coord.pc = "wait" /\ Needs(Node) \subseteq coord.looked
        /\ coord' = [coord EXCEPT !.pc = "act"]
    BY <1>5 DEF DependenciesReady, Looks
  <2> QED BY <2>0, CoordGoes DEF Shape, Undisturbed, SpendsTyped, CoordMeans
<1>6. CASE VisitStop
  <2>0. Looks /\ spent' = spent /\ coord.task = "stopping" /\ coord.pc = "walk"
    BY <1>6 DEF VisitStop, Looks, Walking
  <2>1. \/ \E pc \in {"finish", "fail", "act"} : coord' = [coord EXCEPT !.pc = pc]
        \/ coord' = NextNode
        \/ coord' = Resting
    BY <1>6 DEF VisitStop
  <2>2. CASE \E pc \in {"finish", "fail", "act"} : coord' = [coord EXCEPT !.pc = pc]
    BY <2>0, <2>2, CoordGoes DEF Shape, Undisturbed, SpendsTyped, CoordMeans
  <2>4. CASE coord' = NextNode
    BY <2>0, <2>4, CoordNode DEF Shape, Undisturbed, SpendsTyped, CoordMeans
  <2>5. CASE coord' = Resting
    BY <2>0, <2>5, CoordRests DEF Shape, Undisturbed, SpendsTyped, CoordMeans
  <2> QED BY <2>1, <2>2, <2>4, <2>5
<1>7. CASE VisitDelete
  <2>0. Looks /\ spent' = spent /\ coord.task = "deleting" /\ coord.pc = "walk"
    BY <1>7 DEF VisitDelete, Looks, Walking
  <2>1. \/ Present = {} /\ coord' = [coord EXCEPT !.pc = "finish"]
        \/ \E s \in Present : coord' = [coord EXCEPT !.pc = "act", !.left = <<s>>]
        \/ coord' = Resting
    BY <1>7 DEF VisitDelete
  <2>2. CASE Present = {} /\ coord' = [coord EXCEPT !.pc = "finish"]
    <3>1. AllRowsGone
      BY <2>2 DEF AllRowsGone, Present
    <3> QED BY <2>0, <2>2, <3>1, CoordGoes DEF Shape, Undisturbed, SpendsTyped, CoordMeans
  <2>4. CASE \E s \in Present : coord' = [coord EXCEPT !.pc = "act", !.left = <<s>>]
    BY <2>0, <2>4, CoordNext DEF Shape, Undisturbed, SpendsTyped, CoordMeans
  <2>5. CASE coord' = Resting
    BY <2>0, <2>5, CoordRests DEF Shape, Undisturbed, SpendsTyped, CoordMeans
  <2> QED BY <2>1, <2>2, <2>4, <2>5
<1>8. CASE CoordinatorFails
  <2>0. Looks /\ coord.pc # "idle" /\ coord' = [coord EXCEPT !.pc = "fail"]
    BY <1>8 DEF CoordinatorFails, Looks
  <2>1. SpendsTyped
    BY <1>8, TroubleTyped DEF CoordinatorFails, SpendsTyped
  <2> QED BY <2>0, <2>1, CoordGoes DEF Shape, Undisturbed, CoordMeans
<1> QED BY <1>1, <1>2, <1>3, <1>4, <1>5, <1>6, <1>7, <1>8

\* Whatever a step does, what it leaves keeps its shape.
LEMMA TypedKept ==
    ASSUME Typed, project' \in ProjectStatuses,
           rows' \in [Services -> RowStatuses], ops' \in [Services -> OpType],
           engine' \in [Services -> EngineStates \ {"created"}],
           UNCHANGED <<refresh, callers, watch>>, spent' = spent \/ SpendsTyped,
           coord' = coord \/ CoordStays \/ (CoordTyped' /\ coord'.pc # "wait")
    PROVE  Typed'
<1>1. CoordTyped' /\ (coord'.pc = "wait" => coord'.task = "starting")
  BY DEF Typed, Shape, CoordTyped, CoordStays
<1>2. refresh' = refresh /\ callers' = callers /\ watch' = watch
  OBVIOUS
<1>3. spent' \in [{"requests", "manual", "completing", "faults"} -> Nat]
  BY DEF Typed, Shape, SpendsTyped
<1> QED BY <1>1, <1>2, <1>3 DEF Typed, Shape, WritesKeep, FoundKeeps

LEMMA CallerTyped ==
    ASSUME Typed, CallerStep
    PROVE  /\ Typed' /\ UNCHANGED <<containers, coord>>
           /\ Undisturbed' => Undisturbed
           /\ project' = "none" => project = "none"
<1>1. PICK k \in Callers : ReadProject(k) \/ StartRefused(k) \/ AcceptRequest(k)
  BY DEF CallerStep
<1>2. CASE ReadProject(k)
  <2>1. PICK to \in Busy : callers' = [callers EXCEPT ![k] = [pc |-> "write", to |-> to]]
    BY <1>2 DEF ReadProject
  <2> DEFINE r == [pc |-> "write", to |-> to]
  <2>2. r \in CallerType /\ (r.pc = "write" => r.to # "none")
    BY <2>1 DEF CallerType, Busy
  <2> HIDE DEF r
  <2>3. callers' \in [Callers -> CallerType]
        /\ \A j \in Callers : callers'[j].pc = "write" => callers'[j].to # "none"
    BY <2>1, <2>2, CallersTyped DEF Typed, r
  <2>4. SpendsTyped
    BY <1>2, SpendTyped DEF ReadProject, SpendsTyped, Typed
  <2>5. UNCHANGED <<project, rows, desired, ops, engine, events, watch, refresh, coord>>
    BY <1>2 DEF ReadProject
  <2> QED BY <2>3, <2>4, <2>5
          DEF Typed, Shape, WritesKeep, FoundKeeps, SpendsTyped, CoordTyped, containers
<1>3. CASE StartRefused(k)
  <2>1. callers' = [callers EXCEPT ![k] = NoCall]
    BY <1>3 DEF StartRefused
  <2>2. NoCall \in CallerType /\ (NoCall.pc = "write" => NoCall.to # "none")
    BY DEF CallerType, NoCall
  <2>3. callers' \in [Callers -> CallerType]
        /\ \A j \in Callers : callers'[j].pc = "write" => callers'[j].to # "none"
    BY <2>1, <2>2, CallersTyped DEF Typed
  <2>4. SpendsTyped
    BY <1>3, TroubleTyped DEF StartRefused, SpendsTyped, Typed
  <2>5. UNCHANGED <<project, rows, desired, ops, engine, events, watch, refresh, coord>>
    BY <1>3 DEF StartRefused
  <2> QED BY <2>3, <2>4, <2>5
          DEF Typed, Shape, WritesKeep, FoundKeeps, SpendsTyped, CoordTyped, containers
<1>4. CASE AcceptRequest(k)
  <2>1. callers' = [callers EXCEPT ![k] = NoCall]
    BY <1>4 DEF AcceptRequest
  <2>2. NoCall \in CallerType /\ (NoCall.pc = "write" => NoCall.to # "none")
    BY DEF CallerType, NoCall
  <2>3. callers' \in [Callers -> CallerType]
        /\ \A j \in Callers : callers'[j].pc = "write" => callers'[j].to # "none"
    BY <2>1, <2>2, CallersTyped DEF Typed
  <2>4. /\ UNCHANGED <<rows, desired, ops, engine, events, watch, refresh, coord, spent>>
        /\ Update(callers[k].to) /\ callers[k].pc = "write"
    BY <1>4 DEF AcceptRequest, containers
  <2>5. callers[k].to \in ProjectStatuses /\ callers[k].to # "none"
    BY <2>4 DEF Typed, Shape, WritesKeep, CallerType, ProjectStatuses
  <2>6. project' \in ProjectStatuses /\ (project' = "none" => project = "none")
    BY <2>4, <2>5, UpdateTyped DEF Typed
  <2> QED BY <2>3, <2>4, <2>6
          DEF Typed, Shape, WritesKeep, FoundKeeps, CoordTyped, containers, Undisturbed
<1> QED BY <1>1, <1>2, <1>3, <1>4

\* What any step but the coordinator's own may do to the container of a service:
\* a row that goes is the last to go, and a dependency that was looked at is not
\* started unready, unless it is on record that it ended or turned unhealthy.
QueuedStart(s) == ops[s].kind = "start" /\ ops[s].stage = "queued"
Kept(s) ==
    RowGoesLast(s) => RowGoesLast(s)' /\ (rows[s] = "none" => rows'[s] = "none")
Steady(s) ==
    /\ QueuedStart(s)' => QueuedStart(s)
    /\ \/ engine'[s] = "none"
       \/ engine'[s] = engine[s]
       \/ engine[s] \in {"running", "unhealthy"} /\ engine'[s] = "healthy"
       \/ engine[s] \in Up /\ engine'[s] \in Down /\ ~QueuedStart(s)
       \/ engine[s] \notin Up \cup {"none"} /\ QueuedStart(s)
Effect ==
    /\ Typed'
    /\ Undisturbed' => Undisturbed
    /\ \A s \in Services : Kept(s) /\ (Undisturbed' => Steady(s) \/ Recorded(s))

LEMMA SteadyHolds ==
    ASSUME NEW d, Holds(d), Uncompleted(d), Steady(d.on)
    PROVE  Holds(d)'
<1> DEFINE ready(e) == Evaluate(e, d.condition, Plan.services[d.on].check) = "ready"
<1>1. \A e : ready(e) => e \in Up
  BY DEF Evaluate, Up, Uncompleted
<1>2. ready("running") \/ ready("unhealthy") => ready("healthy")
  BY DEF Evaluate
<1>3. engine'[d.on] \in Down => engine'[d.on] \notin Up
  BY DEF Up, Down
<1>4. ready(engine[d.on]) \/ engine[d.on] = "none" \/ (engine[d.on] \notin Up /\ ~QueuedStart(d.on))
  BY DEF Holds, QueuedStart
<1>5. "running" \in Up /\ "unhealthy" \in Up /\ "none" \notin Up
  BY DEF Up
<1> HIDE DEF ready
<1>6. ready(engine'[d.on]) \/ engine'[d.on] = "none"
      \/ (engine'[d.on] \notin Up /\ ~QueuedStart(d.on)')
  BY <1>1, <1>2, <1>3, <1>4, <1>5 DEF Steady
<1> QED BY <1>6 DEF Holds, QueuedStart, ready

LEMMA SameContainers ==
    ASSUME Typed, Typed', UNCHANGED <<rows, ops, engine>>, Undisturbed' => Undisturbed
    PROVE  Effect
BY DEF Effect, Kept, Steady, RowGoesLast, Active, QueuedStart

LEMMA OperationEffect ==
    ASSUME Typed, NEW s \in Services, ManualOp(s) \/ ExecutorStep(s)
    PROVE  Effect /\ UNCHANGED <<project, coord>>
<1> USE DEF Typed
<1>1. CASE ManualOp(s)
  <2>1. PICK kind \in {"start", "stop", "delete"} :
            Trouble(kind) /\ ~Refused(s, kind) /\ QueueOp(s, kind)
    BY <1>1 DEF ManualOp
  <2>2. UNCHANGED <<project, engine, watch, refresh, coord, callers>>
    BY <1>1 DEF ManualOp
  <2>3. SpendsTyped /\ ~Undisturbed'
    BY <2>1, TroubleTyped DEF SpendsTyped
  <2>4. /\ rows' \in [Services -> RowStatuses] /\ ops' \in [Services -> OpType]
        /\ \A t \in Services :
              IF t = s THEN /\ ops'[t] = [kind |-> kind, stage |-> "queued", prev |-> rows[t]]
                            /\ rows'[t] = BusyStatus(kind)
              ELSE ops'[t] = ops[t] /\ rows'[t] = rows[t]
    BY <2>1, QueueTyped
  <2>5. Typed'
    BY <2>2, <2>3, <2>4, TypedKept DEF Shape
  <2>6. ASSUME NEW t \in Services PROVE Kept(t)
    <3>1. CASE t # s
      BY <2>2, <2>4, <3>1 DEF Kept, RowGoesLast, Active
    <3>2. CASE t = s
      <4>1. BusyStatus(kind) # "none" /\ rows[t] # "none"
        BY <2>1, <3>2 DEF BusyStatus, Refused
      <4> QED BY <2>4, <3>2, <4>1 DEF Kept, RowGoesLast, Active
    <3> QED BY <3>1, <3>2
  <2> QED BY <2>2, <2>3, <2>5, <2>6 DEF Effect
<1>2. CASE StartActs(s)
  <2>1. /\ ops[s].kind = "start" /\ ops[s].stage = "queued" /\ engine[s] # "none"
        /\ ops' = [ops EXCEPT ![s].stage = "acted"]
        /\ engine' = IF engine[s] \in Up THEN engine ELSE [engine EXCEPT ![s] = "running"]
        /\ UNCHANGED <<project, rows, watch, refresh, coord, callers, spent>>
    BY <1>2 DEF StartActs
  <2>2. ops' \in [Services -> OpType]
        /\ \A t \in Services :
              IF t = s THEN ops'[t] = [kind |-> ops[t].kind, stage |-> "acted",
                                       prev |-> ops[t].prev]
              ELSE ops'[t] = ops[t]
    BY <2>1, StageTyped
  <2>3. /\ engine' \in [Services -> EngineStates \ {"created"}]
        /\ \A t \in Services : t # s => engine'[t] = engine[t]
        /\ engine[s] \in Up => engine'[s] = engine[s]
    BY <2>1 DEF Shape, EngineStates
  <2>4. Typed'
    BY <2>1, <2>2, <2>3, TypedKept DEF Shape
  <2>5. ASSUME NEW t \in Services PROVE Kept(t) /\ Steady(t)
    BY <2>1, <2>2, <2>3 DEF Kept, RowGoesLast, Active, Steady, QueuedStart
  <2> QED BY <2>1, <2>4, <2>5 DEF Effect, Undisturbed
<1>3. CASE StopSignals(s)
  <2>1. /\ ops[s].kind = "stop"
        /\ ops' = [ops EXCEPT ![s].stage = "signaled"]
        /\ UNCHANGED <<project, rows, engine, watch, refresh, coord, callers, spent>>
    BY <1>3 DEF StopSignals
  <2>2. ops' \in [Services -> OpType]
        /\ \A t \in Services :
              IF t = s THEN ops'[t] = [kind |-> ops[t].kind, stage |-> "signaled",
                                       prev |-> ops[t].prev]
              ELSE ops'[t] = ops[t]
    BY <2>1, StageTyped
  <2>4. Typed'
    BY <2>1, <2>2, TypedKept DEF Shape
  <2>5. ASSUME NEW t \in Services PROVE Kept(t) /\ Steady(t)
    BY <2>1, <2>2 DEF Kept, RowGoesLast, Active, Steady, QueuedStart
  <2> QED BY <2>1, <2>4, <2>5 DEF Effect, Undisturbed
<1>4. CASE StopActs(s)
  <2>1. /\ ops[s].kind = "stop" /\ engine[s] # "none"
        /\ ops' = [ops EXCEPT ![s].stage = "acted"]
        /\ \/ engine' = engine
           \/ engine[s] \in Up /\ \E e \in Down : engine' = [engine EXCEPT ![s] = e]
        /\ UNCHANGED <<project, rows, watch, refresh, coord, callers, spent>>
    BY <1>4 DEF StopActs, Down
  <2>2. ops' \in [Services -> OpType]
        /\ \A t \in Services :
              IF t = s THEN ops'[t] = [kind |-> ops[t].kind, stage |-> "acted",
                                       prev |-> ops[t].prev]
              ELSE ops'[t] = ops[t]
    BY <2>1, StageTyped
  <2>3. /\ engine' \in [Services -> EngineStates \ {"created"}]
        /\ \A t \in Services : t # s => engine'[t] = engine[t]
        /\ \/ engine'[s] = engine[s]
           \/ engine[s] \in Up /\ engine'[s] \in Down
    BY <2>1 DEF Shape, EngineStates, Down
  <2>4. Typed'
    BY <2>1, <2>2, <2>3, TypedKept DEF Shape
  <2>5. ASSUME NEW t \in Services PROVE Kept(t) /\ Steady(t)
    BY <2>1, <2>2, <2>3 DEF Kept, RowGoesLast, Active, Steady, QueuedStart
  <2> QED BY <2>1, <2>4, <2>5 DEF Effect, Undisturbed
<1>5. CASE DeleteActs(s)
  <2>1. /\ ops[s].kind = "delete"
        /\ ops' = [ops EXCEPT ![s].stage = "acted"]
        /\ engine' = [engine EXCEPT ![s] = "none"]
        /\ UNCHANGED <<project, rows, watch, refresh, coord, callers, spent>>
    BY <1>5 DEF DeleteActs, Shape
  <2>2. ops' \in [Services -> OpType]
        /\ \A t \in Services :
              IF t = s THEN ops'[t] = [kind |-> ops[t].kind, stage |-> "acted",
                                       prev |-> ops[t].prev]
              ELSE ops'[t] = ops[t]
    BY <2>1, StageTyped
  <2>3. /\ engine' \in [Services -> EngineStates \ {"created"}]
        /\ \A t \in Services : t # s => engine'[t] = engine[t]
        /\ engine'[s] = "none"
    BY <2>1 DEF Shape, EngineStates
  <2>4. Typed'
    BY <2>1, <2>2, <2>3, TypedKept DEF Shape
  <2>5. ASSUME NEW t \in Services PROVE Kept(t) /\ Steady(t)
    BY <2>1, <2>2, <2>3 DEF Kept, RowGoesLast, Active, Steady, QueuedStart
  <2> QED BY <2>1, <2>4, <2>5 DEF Effect, Undisturbed
<1>6. CASE OpDone(s)
  <2>1. /\ Active(s) /\ ops[s].stage = "acted"
        /\ rows' = [rows EXCEPT ![s] = EndStatus(ops[s].kind)]
        /\ ops' = [ops EXCEPT ![s] = NoOp]
        /\ refresh' = [refresh EXCEPT ![s].pc = "project"]
        /\ UNCHANGED <<project, engine, watch, coord, callers, spent>>
    BY <1>6 DEF OpDone
  <2>2. ops[s].kind \in {"start", "stop", "delete"}
    BY <2>1 DEF Active, Shape, OpType
  <2>3. EndStatus(ops[s].kind) \in RowStatuses
        /\ (EndStatus(ops[s].kind) = "none" => ops[s].kind = "delete")
    BY <2>2 DEF EndStatus, RowStatuses, ActiveRow
  <2>4. /\ rows' \in [Services -> RowStatuses] /\ ops' \in [Services -> OpType]
        /\ \A t \in Services :
              IF t = s THEN ops'[t] = NoOp /\ rows'[t] = EndStatus(ops[s].kind)
              ELSE ops'[t] = ops[t] /\ rows'[t] = rows[t]
    BY <2>1, <2>3, EndTyped
  <2>5. /\ refresh' \in [Services \cup {Watcher} -> RefreshType]
        /\ \A d \in Services \cup {Watcher} :
              refresh'[d].pc = "write" => refresh'[d].to # "none"
    BY <2>1, RefreshStarts
  <2>6. Typed'
    BY <2>1, <2>4, <2>5 DEF Shape, WritesKeep, FoundKeeps, CoordTyped
  <2>7. ASSUME NEW t \in Services PROVE Kept(t) /\ Steady(t)
    BY <2>1, <2>3, <2>4 DEF Kept, RowGoesLast, Active, Steady, QueuedStart, NoOp
  <2> QED BY <2>1, <2>6, <2>7 DEF Effect, Undisturbed
<1>7. CASE OpFails(s)
  <2>1. /\ Active(s)
        /\ rows' = [rows EXCEPT ![s] = Restored(ops[s].prev)]
        /\ ops' = [ops EXCEPT ![s] = NoOp]
        /\ UNCHANGED <<project, engine, watch, refresh, coord, callers>>
    BY <1>7 DEF OpFails
  <2>2. SpendsTyped
    BY <1>7, TroubleTyped DEF SpendsTyped, OpFails
  <2>3. Restored(ops[s].prev) \in RowStatuses
        /\ (Restored(ops[s].prev) = "none" => ops[s].prev = "none")
    BY DEF Restored, RowStatuses, ActiveRow, Shape, OpType
  <2>4. /\ rows' \in [Services -> RowStatuses] /\ ops' \in [Services -> OpType]
        /\ \A t \in Services :
              IF t = s THEN ops'[t] = NoOp /\ rows'[t] = Restored(ops[s].prev)
              ELSE ops'[t] = ops[t] /\ rows'[t] = rows[t]
    BY <2>1, <2>3, EndTyped
  <2>6. Typed'
    BY <2>1, <2>2, <2>4, TypedKept DEF Shape
  <2>7. ASSUME NEW t \in Services PROVE Kept(t) /\ Steady(t)
    BY <2>1, <2>3, <2>4 DEF Kept, RowGoesLast, Active, Steady, QueuedStart, NoOp
  <2> QED BY <2>1, <2>2, <2>6, <2>7 DEF Effect, SpendsTyped
<1>8. CASE OpFindsNothing(s)
  <2>1. /\ ops[s].kind \in {"start", "stop"} /\ engine[s] = "none"
        /\ rows' = [rows EXCEPT ![s] = "missing"]
        /\ ops' = [ops EXCEPT ![s] = NoOp]
        /\ UNCHANGED <<project, engine, watch, refresh, coord, callers, spent>>
    BY <1>8 DEF OpFindsNothing
  <2>3. "missing" \in RowStatuses
    BY DEF RowStatuses
  <2>4. /\ rows' \in [Services -> RowStatuses] /\ ops' \in [Services -> OpType]
        /\ \A t \in Services :
              IF t = s THEN ops'[t] = NoOp /\ rows'[t] = "missing"
              ELSE ops'[t] = ops[t] /\ rows'[t] = rows[t]
    BY <2>1, <2>3, EndTyped
  <2>6. Typed'
    BY <2>1, <2>4, TypedKept DEF Shape
  <2>7. ASSUME NEW t \in Services PROVE Kept(t) /\ Steady(t)
    BY <2>1, <2>4 DEF Kept, RowGoesLast, Active, Steady, QueuedStart, NoOp
  <2> QED BY <2>1, <2>6, <2>7 DEF Effect, Undisturbed
<1> QED BY <1>1, <1>2, <1>3, <1>4, <1>5, <1>6, <1>7, <1>8 DEF ExecutorStep

\* A container that ends: no deletion of it has come to Docker, and the row stays.
LEMMA DieEffect ==
    ASSUME Typed, NEW s \in Services, NEW end \in Down, NEW action,
           Die(s, end, action), spent' = spent \/ SpendsTyped
    PROVE  Effect /\ UNCHANGED project /\ CoordStays
<1> USE DEF Typed
<1>1. /\ engine' = [engine EXCEPT ![s] = end]
      /\ engine[s] \in Up
      /\ Lapse(s)
      /\ UNCHANGED <<project, rows, ops, watch, refresh, callers>>
  BY DEF Die
<1>2. CoordStays /\ Recorded(s)
  BY <1>1, CoordLapses
<1>3. /\ engine' \in [Services -> EngineStates \ {"created"}]
      /\ \A t \in Services : t # s => engine'[t] = engine[t]
  BY <1>1 DEF Shape, EngineStates, Down
<1>4. Typed'
  BY <1>1, <1>2, <1>3, TypedKept DEF Shape
<1>5. engine[s] # "none"
  BY <1>1 DEF Up
<1>6. ASSUME NEW t \in Services, RowGoesLast(t)
      PROVE  RowGoesLast(t)' /\ (rows[t] = "none" => rows'[t] = "none")
  <2>1. CASE t # s
    BY <1>1, <1>3, <1>6, <2>1 DEF RowGoesLast, Active
  <2>2. CASE t = s
    <3>1. ~(ops[t].kind = "delete" /\ ops[t].stage = "acted") /\ rows[t] # "none"
      BY <1>5, <1>6, <2>2 DEF RowGoesLast
    <3> QED BY <1>1, <1>6, <3>1 DEF RowGoesLast, Active
  <2> QED BY <2>1, <2>2
<1>7. \A t \in Services : Kept(t)
  BY <1>6 DEF Kept
<1>8. ASSUME NEW t \in Services PROVE Steady(t) \/ Recorded(t)
  BY <1>1, <1>2, <1>3 DEF Steady, QueuedStart
<1>9. Undisturbed' => Undisturbed
  BY DEF SpendsTyped, Undisturbed
<1> QED BY <1>1, <1>2, <1>4, <1>7, <1>8, <1>9 DEF Effect

LEMMA ContainerEffect ==
    ASSUME Typed, NEW s \in Services, ContainerStep(s)
    PROVE  Effect /\ UNCHANGED project /\ CoordStays
<1> USE DEF Typed
<1>0. "exited" \in Down /\ "broken" \in Down
  BY DEF Down
<1>1. CASE Ends(s)
  <2>1. Die(s, "exited", "die") \/ Die(s, "broken", "break")
    BY <1>1 DEF Ends
  <2>2. SpendsTyped
    BY <1>1, TroubleTyped DEF SpendsTyped, Ends
  <2> QED BY <1>0, <2>1, <2>2, DieEffect
<1>4. CASE Completes(s)
  <2>1. Die(s, "exited", "die") /\ (spent' = spent \/ Trouble("complete"))
    BY <1>4 DEF Completes
  <2>2. spent' = spent \/ SpendsTyped
    BY <2>1, TroubleTyped DEF SpendsTyped
  <2> QED BY <1>0, <2>1, <2>2, DieEffect
<1>2. CASE Vanishes(s)
  <2>1. /\ engine' = [engine EXCEPT ![s] = "none"]
        /\ UNCHANGED <<project, rows, ops, watch, refresh, coord, callers>>
    BY <1>2 DEF Vanishes
  <2>2. SpendsTyped
    BY <1>2, TroubleTyped DEF SpendsTyped, Vanishes
  <2>3. /\ engine' \in [Services -> EngineStates \ {"created"}]
        /\ \A t \in Services : t # s => engine'[t] = engine[t]
        /\ engine'[s] = "none"
    BY <2>1 DEF Shape, EngineStates
  <2>4. Typed'
    BY <2>1, <2>2, <2>3, TypedKept DEF Shape
  <2>5. ASSUME NEW t \in Services PROVE Kept(t) /\ Steady(t)
    BY <2>1, <2>3 DEF Kept, RowGoesLast, Active, Steady, QueuedStart
  <2> QED BY <2>1, <2>2, <2>4, <2>5, CoordSame DEF Effect, SpendsTyped
<1>3. CASE GetsHealthy(s)
  <2>1. /\ engine' = [engine EXCEPT ![s] = "healthy"] /\ engine[s] = "running"
        /\ UNCHANGED <<project, rows, ops, watch, refresh, coord, callers, spent>>
    BY <1>3 DEF GetsHealthy
  <2>3. /\ engine' \in [Services -> EngineStates \ {"created"}]
        /\ \A t \in Services : t # s => engine'[t] = engine[t]
        /\ engine'[s] = "healthy"
    BY <2>1 DEF Shape, EngineStates
  <2>4. Typed'
    BY <2>1, <2>3, TypedKept DEF Shape
  <2>5. ASSUME NEW t \in Services PROVE Kept(t) /\ Steady(t)
    BY <2>1, <2>3 DEF Kept, RowGoesLast, Active, Steady, QueuedStart
  <2> QED BY <2>1, <2>4, <2>5, CoordSame DEF Effect, Undisturbed
<1>5. CASE TurnsUnhealthy(s)
  <2>1. /\ engine' = [engine EXCEPT ![s] = "unhealthy"]
        /\ engine[s] \in {"running", "healthy"} /\ Lapse(s)
        /\ UNCHANGED <<project, rows, ops, watch, refresh, callers>>
    BY <1>5 DEF TurnsUnhealthy
  <2>2. SpendsTyped
    BY <1>5, TroubleTyped DEF SpendsTyped, TurnsUnhealthy
  <2>3. /\ engine' \in [Services -> EngineStates \ {"created"}]
        /\ \A t \in Services : t # s => engine'[t] = engine[t]
        /\ engine'[s] # "none"
    BY <2>1 DEF Shape, EngineStates
  <2>4. CoordStays /\ Recorded(s)
    BY <2>1, CoordLapses
  <2>5. Typed'
    BY <2>1, <2>2, <2>3, <2>4, TypedKept DEF Shape
  <2>6. ASSUME NEW t \in Services PROVE Kept(t) /\ (Steady(t) \/ Recorded(t))
    BY <2>1, <2>3, <2>4 DEF Kept, RowGoesLast, Active, Steady, QueuedStart
  <2> QED BY <2>1, <2>2, <2>4, <2>5, <2>6 DEF Effect, SpendsTyped
<1>6. CASE Recovers(s)
  <2>1. /\ engine' = [engine EXCEPT ![s] = "healthy"] /\ engine[s] = "unhealthy"
        /\ UNCHANGED <<project, rows, ops, watch, refresh, coord, callers, spent>>
    BY <1>6 DEF Recovers
  <2>3. /\ engine' \in [Services -> EngineStates \ {"created"}]
        /\ \A t \in Services : t # s => engine'[t] = engine[t]
        /\ engine'[s] = "healthy"
    BY <2>1 DEF Shape, EngineStates
  <2>4. Typed'
    BY <2>1, <2>3, TypedKept DEF Shape
  <2>5. ASSUME NEW t \in Services PROVE Kept(t) /\ Steady(t)
    BY <2>1, <2>3 DEF Kept, RowGoesLast, Active, Steady, QueuedStart
  <2> QED BY <2>1, <2>4, <2>5, CoordSame DEF Effect, Undisturbed
<1> QED BY <1>1, <1>2, <1>3, <1>4, <1>5, <1>6 DEF ContainerStep

\* The event worker writes the status of rows that are there.
LEMMA ObserveEffect ==
    ASSUME Typed, NEW s, NEW found, found.status \in RowStatuses \ {"none"}, NEW refreshes,
           WriteRow(s, found, refreshes), FoundKeeps',
           UNCHANGED <<project, ops, engine, coord, callers, spent>>
    PROVE  Effect
<1> DEFINE pc == IF refreshes THEN "project" ELSE "idle"
           status == found.status
           ended == found.ended
<1>0. /\ Observe(s, status, ended)
      /\ refresh' = [refresh EXCEPT ![Watcher].pc = pc]
      /\ pc \in {"idle", "project", "containers"} /\ status \in RowStatuses \ {"none"}
  BY DEF WriteRow
<1> HIDE DEF pc, status, ended
<1>1. /\ rows' \in [Services -> RowStatuses]
      /\ \A t \in Services : rows'[t] = "none" <=> rows[t] = "none"
  BY <1>0, ObserveTyped DEF Typed
<1>2. /\ refresh' \in [Services \cup {Watcher} -> RefreshType]
      /\ \A d \in Services \cup {Watcher} :
            refresh'[d].pc = "write" => refresh'[d].to # "none"
  BY <1>0, RefreshStarts DEF Typed
<1>3. Typed'
  BY <1>1, <1>2 DEF Typed, Shape, WritesKeep, CoordTyped
<1>4. ASSUME NEW t \in Services PROVE Kept(t) /\ Steady(t)
  BY <1>1 DEF Kept, RowGoesLast, Active, Steady, QueuedStart
<1> QED BY <1>3, <1>4 DEF Effect, Undisturbed

\* It reads, and changes nothing but its own state.
LEMMA WatchMoves ==
    ASSUME Typed, FoundKeeps', spent' = spent \/ SpendsTyped,
           UNCHANGED <<project, rows, ops, engine, refresh, coord, callers>>
    PROVE  Effect
<1>1. Typed'
  BY DEF Typed, Shape, WritesKeep, CoordTyped, SpendsTyped
<1> QED BY <1>1, SameContainers DEF Undisturbed, SpendsTyped
LEMMA WatchingKeeps ==
    ASSUME NEW pc, pc \notin {"write", "event"}, NEW left, NEW seen,
           \/ watch' = Watching(pc)
           \/ watch' = [Watching(pc) EXCEPT !.left = left, !.seen = seen]
    PROVE  FoundKeeps'
<1>1. \E l, n : watch' = [pc |-> pc, left |-> l, seen |-> n, on |-> Absent,
                         found |-> NothingFound]
  BY DEF Watching
<1> QED BY <1>1 DEF FoundKeeps
LEMMA RowDoneKeeps ==
    ASSUME NEW s, RowDone(s)
    PROVE  FoundKeeps'
<1> DEFINE left == watch.left \ {s}
           seen == [watch.seen EXCEPT ![s] = Unlisted]
<1>1. \/ watch' = Watching("refresh")
      \/ watch' = [Watching("sync") EXCEPT !.left = left, !.seen = seen]
  BY DEF RowDone
<1> HIDE DEF left, seen
<1> QED BY <1>1, WatchingKeeps

LEMMA WatcherEffect ==
    ASSUME Typed, WatcherStep
    PROVE  Effect /\ UNCHANGED <<project, coord>>
<1>1. CASE TakeEvent
  <2> DEFINE e == Head(events)
             status == EventStatus(e.service, e.action)
             found == [status |-> status, ended |-> e.action = "die"]
  <2>1. /\ UNCHANGED <<project, ops, engine, coord, callers, spent>>
        /\ \/ /\ watch' = [Watching("event") EXCEPT !.on = e.service, !.found = found]
              /\ UNCHANGED <<rows, refresh>>
           \/ /\ watch' = Watching("refresh")
              /\ WriteRow(e.service, found, rows[e.service] # "none")
    BY <1>1 DEF TakeEvent
  <2>2. status \in RowStatuses \ {"none"}
    BY DEF EventStatus, RowStatuses
  <2> HIDE DEF status
  <2>3. found.status \in RowStatuses \ {"none"}
    BY <2>2
  <2> HIDE DEF found
  <2>4. CASE watch' = [Watching("event") EXCEPT !.on = e.service, !.found = found]
    <3>1. watch' = [pc |-> "event", left |-> {}, seen |-> Listed({}), on |-> e.service,
                    found |-> found]
      BY <2>4 DEF Watching
    <3>2. FoundKeeps' /\ watch'.pc = "event"
      BY <2>3, <3>1 DEF FoundKeeps
    <3>3. Watching("refresh").pc = "refresh"
      BY DEF Watching
    <3>4. UNCHANGED <<rows, refresh>>
      BY <2>1, <3>2, <3>3
    <3> QED BY <2>1, <3>2, <3>4, WatchMoves
  <2>5. CASE watch' = Watching("refresh") /\ WriteRow(e.service, found, rows[e.service] # "none")
    <3>1. FoundKeeps'
      BY <2>5, WatchingKeeps
    <3> QED BY <2>1, <2>3, <2>5, <3>1, ObserveEffect
  <2> QED BY <2>1, <2>4, <2>5
<1>2. CASE WriteEvent \/ WriteObserved
  <2>1. /\ watch.found.status \in RowStatuses \ {"none"}
        /\ UNCHANGED <<project, ops, engine, coord, callers, spent>>
        /\ \E refreshes \in BOOLEAN : WriteRow(watch.on, watch.found, refreshes)
    BY <1>2 DEF WriteEvent, WriteObserved, Typed, FoundKeeps
  <2>2. FoundKeeps'
    BY <1>2, RowDoneKeeps, WatchingKeeps DEF WriteEvent, WriteObserved
  <2> QED BY <2>1, <2>2, ObserveEffect
<1>3. CASE ListContainers \/ WatcherRests
  <2>1. UNCHANGED <<project, rows, ops, engine, refresh, coord, callers, spent>>
    BY <1>3 DEF ListContainers, WatcherRests, containers
  <2>2. FoundKeeps'
    BY <1>3, WatchingKeeps DEF ListContainers, WatcherRests
  <2> QED BY <2>1, <2>2, WatchMoves
<1>4. ASSUME NEW s \in Services, CheckActive(s) \/ InspectContainer(s) \/ InspectFails(s)
      PROVE  Effect /\ UNCHANGED <<project, coord>>
  <2>1. /\ UNCHANGED <<project, rows, ops, engine, refresh, coord, callers>>
        /\ spent' = spent \/ Trouble("list")
    BY <1>4 DEF CheckActive, InspectContainer, InspectFails, containers
  <2>2. spent' = spent \/ SpendsTyped
    BY <2>1, TroubleTyped DEF Typed, SpendsTyped
  <2>3. \/ RowDone(s)
        \/ watch' = [watch EXCEPT !.pc = "inspect", !.on = s]
        \/ \E found : /\ found.status = Inspected(s)
                      /\ watch' = [watch EXCEPT !.pc = "write", !.on = s, !.found = found]
    <3> DEFINE found == [status |-> Inspected(s), ended |-> engine[s] = "exited"]
    <3>1. \/ RowDone(s)
          \/ watch' = [watch EXCEPT !.pc = "inspect", !.on = s]
          \/ watch' = [watch EXCEPT !.pc = "write", !.on = s, !.found = found]
      BY <1>4 DEF CheckActive, InspectContainer, InspectFails
    <3>2. found.status = Inspected(s)
      OBVIOUS
    <3> HIDE DEF found
    <3> QED BY <3>1, <3>2
  <2>4. engine[s] \in EngineStates \ {"created"}
    BY DEF Typed, Shape
  <2>5. Inspected(s) \in RowStatuses \ {"none"}
    BY <2>4 DEF Inspected, RowStatuses, EngineStates, Up
  <2>6. FoundKeeps'
    <3>1. CASE RowDone(s)
      BY <3>1, RowDoneKeeps
    <3>2. CASE watch' = [watch EXCEPT !.pc = "inspect", !.on = s]
      <4>1. watch' = [pc |-> "inspect", left |-> watch.left, seen |-> watch.seen,
                      on |-> s, found |-> watch.found]
        BY <3>2 DEF Typed, FoundKeeps
      <4> QED BY <4>1 DEF FoundKeeps
    <3>3. CASE \E found : /\ found.status = Inspected(s)
                          /\ watch' = [watch EXCEPT !.pc = "write", !.on = s, !.found = found]
      <4>1. PICK found : /\ found.status = Inspected(s)
                         /\ watch' = [watch EXCEPT !.pc = "write", !.on = s, !.found = found]
        BY <3>3
      <4>2. watch' = [pc |-> "write", left |-> watch.left, seen |-> watch.seen,
                      on |-> s, found |-> found]
        BY <4>1 DEF Typed, FoundKeeps
      <4> QED BY <2>5, <4>1, <4>2 DEF FoundKeeps
    <3> QED BY <2>3, <3>1, <3>2, <3>3
  <2> QED BY <2>1, <2>2, <2>6, WatchMoves
<1> QED BY <1>1, <1>2, <1>3, <1>4 DEF WatcherStep

LEMMA RefreshEffect ==
    ASSUME Typed, NEW c \in Services \cup {Watcher}, RefreshStep(c)
    PROVE  /\ Effect /\ UNCHANGED <<rows, coord>>
           /\ project' = "none" => project = "none"
<1> USE DEF Typed
<1>1. CASE ReadStatus(c)
  <2>1. UNCHANGED <<project, rows, ops, engine, watch, coord, callers, spent>>
    BY <1>1 DEF ReadStatus, containers
  <2>2. /\ refresh' \in [Services \cup {Watcher} -> RefreshType]
        /\ \A d \in Services \cup {Watcher} :
              refresh'[d].pc = "write" => refresh'[d].to # "none"
    <3>1. CASE Accepting
      <4>1. refresh' = [refresh EXCEPT ![c].pc = "containers"]
        BY <1>1, <3>1 DEF ReadStatus
      <4> QED BY <4>1, RefreshStarts
    <3>2. CASE ~Accepting
      <4>1. refresh' = [refresh EXCEPT ![c] = NoRefresh]
        BY <1>1, <3>2 DEF ReadStatus
      <4>2. NoRefresh \in RefreshType /\ NoRefresh.pc # "write"
        BY DEF NoRefresh, RefreshType, ProjectStatuses
      <4> QED BY <4>1, <4>2, RefreshTyped
    <3> QED BY <3>1, <3>2
  <2>3. Typed'
    BY <2>1, <2>2 DEF Shape, WritesKeep, FoundKeeps, CoordTyped
  <2> QED BY <2>1, <2>3, SameContainers DEF Undisturbed
<1>2. CASE ReadContainers(c)
  <2> DEFINE r == IF Aggregate = "none" THEN NoRefresh ELSE [pc |-> "write", to |-> Aggregate]
  <2>1. /\ UNCHANGED <<project, rows, ops, engine, watch, coord, callers, spent>>
        /\ refresh' = [refresh EXCEPT ![c] = r]
    BY <1>2 DEF ReadContainers, containers
  <2>2. r \in RefreshType /\ (r.pc = "write" => r.to # "none")
    BY DEF NoRefresh, RefreshType, ProjectStatuses, Aggregate
  <2> HIDE DEF r
  <2>3. /\ refresh' \in [Services \cup {Watcher} -> RefreshType]
        /\ \A d \in Services \cup {Watcher} :
              refresh'[d].pc = "write" => refresh'[d].to # "none"
    BY <2>1, <2>2, RefreshTyped
  <2>4. Typed'
    BY <2>1, <2>3 DEF Shape, WritesKeep, FoundKeeps, CoordTyped
  <2> QED BY <2>1, <2>4, SameContainers DEF Undisturbed
<1>3. CASE WriteAggregate(c)
  <2>1. /\ UNCHANGED <<rows, ops, engine, watch, coord, callers, spent>>
        /\ refresh' = [refresh EXCEPT ![c] = NoRefresh]
        /\ Update(refresh[c].to) /\ refresh[c].pc = "write"
    BY <1>3 DEF WriteAggregate, containers
  <2>2. NoRefresh \in RefreshType /\ NoRefresh.pc # "write"
    BY DEF NoRefresh, RefreshType, ProjectStatuses
  <2>3. /\ refresh' \in [Services \cup {Watcher} -> RefreshType]
        /\ \A d \in Services \cup {Watcher} :
              refresh'[d].pc = "write" => refresh'[d].to # "none"
    BY <2>1, <2>2, RefreshTyped
  <2>4. refresh[c].to \in ProjectStatuses /\ refresh[c].to # "none"
    BY <2>1 DEF Shape, WritesKeep, RefreshType
  <2>5. project' \in ProjectStatuses /\ (project' = "none" => project = "none")
    BY <2>1, <2>4, UpdateTyped
  <2>6. Typed'
    BY <2>1, <2>3, <2>5 DEF Shape, WritesKeep, FoundKeeps, CoordTyped
  <2> QED BY <2>1, <2>5, <2>6, SameContainers DEF Undisturbed
<1> QED BY <1>1, <1>2, <1>3 DEF RefreshStep

-----------------------------------------------------------------------------
(* The steps of the coordinator that change something, and a restart *)

LEMMA LookEffect ==
    ASSUME Typed,
           \/ Tick \/ ReadGraph \/ VisitStart \/ LookAtDependency
           \/ DependenciesReady \/ VisitStop \/ VisitDelete \/ CoordinatorFails
    PROVE  Effect /\ CoordMeans /\ Looks
<1>1. CoordTyped' /\ Looks /\ SpendsTyped /\ CoordMeans
  BY LookTyped DEF Typed
<1>2. Typed'
  BY <1>1 DEF Typed, Shape, WritesKeep, FoundKeeps, CoordMeans, SpendsTyped, Looks, containers
<1> QED BY <1>1, <1>2, SameContainers DEF SpendsTyped, Looks, containers

LEMMA ActEffect ==
    ASSUME Typed, Act
    PROVE  /\ Typed' /\ \A s \in Services : Kept(s)
           /\ coord'.pc \in {"idle", "fail"}
           /\ UNCHANGED <<project, spent>>
<1> USE DEF Typed
<1>0. coord.pc = "act" /\ UNCHANGED <<project, engine, watch, refresh, callers, spent>>
  BY DEF Act
<1>1. CASE Refused(Node, TaskOp)
  <2>1. /\ UNCHANGED <<rows, ops>>
        /\ coord' = Resting \/ coord' = [coord EXCEPT !.pc = "fail"]
    BY <1>1 DEF Act
  <2>2. CoordTyped' /\ coord'.pc \in {"idle", "fail"}
    BY <1>0, <2>1, CoordRests, CoordGoes
  <2>3. Typed'
    BY <1>0, <2>1, <2>2, TypedKept DEF Shape
  <2> QED BY <1>0, <2>1, <2>2, <2>3 DEF Kept, RowGoesLast, Active
<1>2. CASE ~Refused(Node, TaskOp)
  <2>1. QueueOp(Node, TaskOp) /\ coord' = Resting
    BY <1>2 DEF Act
  <2>2. TaskOp \in {"start", "stop", "delete"}
    BY <1>0 DEF TaskOp, Shape, CoordTyped, Busy
  <2>3. /\ rows' \in [Services -> RowStatuses] /\ ops' \in [Services -> OpType]
        /\ \A t \in Services :
              IF t = Node THEN /\ ops'[t] = [kind |-> TaskOp, stage |-> "queued", prev |-> rows[t]]
                               /\ rows'[t] = BusyStatus(TaskOp)
              ELSE ops'[t] = ops[t] /\ rows'[t] = rows[t]
    BY <2>1, <2>2, QueueTyped
  <2>4. CoordTyped' /\ coord'.pc = "idle"
    BY <2>1, CoordRests
  <2>5. Typed'
    BY <1>0, <2>3, <2>4, TypedKept DEF Shape
  <2>6. ASSUME NEW t \in Services PROVE Kept(t)
    <3>1. CASE t # Node
      BY <1>0, <2>3, <3>1 DEF Kept, RowGoesLast, Active
    <3>2. CASE t = Node
      <4>1. BusyStatus(TaskOp) # "none" /\ rows[t] # "none"
        BY <1>2, <2>2, <3>2 DEF BusyStatus, Refused
      <4> QED BY <1>0, <2>3, <3>2, <4>1 DEF Kept, RowGoesLast, Active
    <3> QED BY <3>1, <3>2
  <2> QED BY <1>0, <2>4, <2>5, <2>6
<1> QED BY <1>1, <1>2

LEMMA FinishTyped ==
    ASSUME Typed, Finish
    PROVE  /\ Typed' /\ coord'.pc = "idle" /\ UNCHANGED <<ops, engine>>
           /\ rows' = rows \/ (coord.task = "deleting" /\ AllRowsGone')
           /\ project' = "none" => project = "none" \/ coord.task = "deleting"
<1> DEFINE status == CASE coord.task = "starting" -> "running"
                       [] coord.task = "stopping" -> "stopped"
                       [] coord.task = "deleting" -> "none"
<1> USE DEF Typed
<1>1. /\ coord.pc = "finish" /\ Update(status) /\ coord' = Resting
      /\ rows' = IF coord.task = "deleting" THEN [s \in Services |-> "none"] ELSE rows
      /\ UNCHANGED <<ops, engine, watch, refresh, callers, spent>>
  BY DEF Finish
<1>2. /\ status \in ProjectStatuses
      /\ status = "none" => coord.task = "deleting"
  BY <1>1 DEF Shape, CoordTyped, Busy, ProjectStatuses
<1> HIDE DEF status
<1>3. project' \in ProjectStatuses /\ (project' = "none" => project = "none" \/ coord.task = "deleting")
  BY <1>1, <1>2, UpdateTyped
<1>4. /\ rows' \in [Services -> RowStatuses]
      /\ rows' = rows \/ (coord.task = "deleting" /\ AllRowsGone')
  <2>1. CASE coord.task = "deleting"
    <3>1. rows' = [s \in Services |-> "none"] /\ "none" \in RowStatuses
      BY <1>1, <2>1 DEF RowStatuses
    <3> QED BY <2>1, <3>1 DEF AllRowsGone
  <2>2. CASE coord.task # "deleting"
    BY <1>1, <2>2 DEF Shape
  <2> QED BY <2>1, <2>2
<1>5. CoordTyped' /\ coord'.pc = "idle"
  BY <1>1, CoordRests
<1>6. Typed'
  BY <1>1, <1>3, <1>4, <1>5, TypedKept DEF Shape
<1> QED BY <1>1, <1>3, <1>4, <1>5, <1>6

LEMMA FinishEffect ==
    ASSUME Typed, Finish,
           coord.task = "deleting" => AllRowsGone
    PROVE  /\ Typed' /\ \A s \in Services : Kept(s)
           /\ coord'.pc = "idle"
           /\ project' = "none" => project = "none" \/ AllRowsGone'
<1>1. /\ Typed' /\ coord'.pc = "idle" /\ UNCHANGED <<ops, engine>>
      /\ rows' = rows \/ AllRowsGone'
      /\ project' = "none" => project = "none" \/ coord.task = "deleting"
  BY FinishTyped
<1>2. \A s \in Services : rows'[s] = rows[s]
  BY FinishTyped DEF AllRowsGone
<1>3. \A s \in Services : Kept(s)
  BY <1>1, <1>2 DEF Kept, RowGoesLast, Active
<1> QED BY <1>1, <1>2, <1>3 DEF AllRowsGone

LEMMA FailEffect ==
    ASSUME Typed, FailProject
    PROVE  /\ Effect /\ coord'.pc = "idle"
           /\ project' = "none" => project = "none"
<1> USE DEF Typed
<1>1. /\ Update("failed") /\ coord' = Resting
      /\ UNCHANGED <<rows, ops, engine, watch, refresh, callers, spent>>
  BY DEF FailProject, containers
<1>2. project' \in ProjectStatuses /\ (project' = "none" => project = "none")
  BY <1>1, UpdateTyped DEF ProjectStatuses
<1>3. CoordTyped' /\ coord'.pc = "idle"
  BY <1>1, CoordRests
<1>4. Typed'
  BY <1>1, <1>2, <1>3, TypedKept DEF Shape
<1> QED BY <1>1, <1>2, <1>3, <1>4, SameContainers DEF Undisturbed

LEMMA CrashEffect ==
    ASSUME Typed, Crash
    PROVE  Effect /\ coord'.pc = "idle" /\ project' = project
<1> USE DEF Typed
<1>1. PICK claimed \in SUBSET {s \in Services : ops[s].stage = "queued"} :
          ops' = [s \in Services |-> IF ops[s].stage # "queued" \/ s \in claimed
                                     THEN NoOp ELSE ops[s]]
  BY DEF Crash
<1>2. /\ refresh' = [c \in DOMAIN refresh |-> NoRefresh]
      /\ callers' = [k \in Callers |-> NoCall]
      /\ coord' = Resting
      /\ watch' = Watching("idle")
      /\ UNCHANGED <<project, rows, engine>>
  BY DEF Crash
<1>3. SpendsTyped
  BY TroubleTyped DEF Crash, SpendsTyped
<1>4. ops' \in [Services -> OpType]
      /\ \A s \in Services : ops'[s] \in {NoOp, ops[s]}
  BY <1>1 DEF Shape, NoOp, OpType, RowStatuses
<1>5. NoRefresh \in RefreshType /\ NoRefresh.pc # "write"
      /\ NoCall \in CallerType /\ NoCall.pc # "write"
  BY DEF NoRefresh, RefreshType, ProjectStatuses, NoCall, CallerType
<1>6. CoordTyped' /\ coord'.pc = "idle"
  BY <1>2, CoordRests
<1>7. /\ refresh' \in [Services \cup {Watcher} -> RefreshType]
      /\ callers' \in [Callers -> CallerType] /\ WritesKeep'
  BY <1>2, <1>5 DEF Shape, WritesKeep
<1>8. Typed'
  BY <1>2, <1>3, <1>4, <1>6, <1>7 DEF Shape, SpendsTyped, FoundKeeps, Watching
<1>9. ASSUME NEW t \in Services PROVE Kept(t) /\ Steady(t)
  BY <1>2, <1>4 DEF Kept, RowGoesLast, Active, Steady, QueuedStart, NoOp
<1> QED BY <1>2, <1>3, <1>6, <1>8, <1>9 DEF Effect, SpendsTyped

-----------------------------------------------------------------------------
(* The invariants *)

LEMMA TypedInit ==
    ASSUME Init
    PROVE  Typed
BY ShapeInit DEF Typed, WritesKeep, FoundKeeps, Init, NoRefresh, NoCall, Resting, Watching
LEMMA TypedSame ==
    ASSUME Typed, UNCHANGED vars
    PROVE  Typed'
BY DEF vars, Typed, Shape, WritesKeep, FoundKeeps, CoordTyped

\* What a step leaves of the first invariant, from what it does to each row.
LEMMA GoneKept ==
    ASSUME GoneInv, Typed', \A s \in Services : Kept(s),
           coord'.pc = "finish" /\ coord'.task = "deleting" => AllRowsGone,
           project' = "none" => project = "none" \/ AllRowsGone'
    PROVE  GoneInv'
<1>1. \A s \in Services : RowGoesLast(s)'
  BY DEF GoneInv, Kept
<1>2. AllRowsGone => AllRowsGone'
  BY DEF GoneInv, Kept, AllRowsGone
<1> QED BY <1>1, <1>2 DEF GoneInv

LEMMA GoneInitially ==
    ASSUME Init
    PROVE  GoneInv
<1>1. Typed
  BY TypedInit
<1>2. \A s \in Services : rows[s] # "none" /\ ops[s] = NoOp
  BY DEF Init, Deployed, Stopped
<1>3. project # "none" /\ coord.pc = "idle"
  BY DEF Init, Deployed, Stopped, Resting
<1> QED BY <1>1, <1>2, <1>3 DEF GoneInv, RowGoesLast, Active, NoOp

LEMMA GoneStep ==
    ASSUME GoneInv, [Next]_vars
    PROVE  GoneInv'
<1>0. Typed
  BY DEF GoneInv
<1>1. CASE CallerStep
  <2>1. Typed' /\ UNCHANGED <<containers, coord>> /\ (project' = "none" => project = "none")
    BY <1>0, <1>1, CallerTyped
  <2>2. \A s \in Services : Kept(s)
    BY <2>1 DEF containers, Kept, RowGoesLast, Active
  <2> QED BY <2>1, <2>2, GoneKept DEF GoneInv
<1>2. ASSUME NEW s \in Services, ManualOp(s) \/ ExecutorStep(s) \/ ContainerStep(s)
      PROVE  GoneInv'
  <2>1. Effect /\ UNCHANGED project /\ CoordStays
    BY <1>0, <1>2, OperationEffect, ContainerEffect, CoordSame DEF Typed
  <2> QED BY <2>1, GoneKept DEF Effect, GoneInv, CoordStays
<1>3. CASE WatcherStep
  <2>1. Effect /\ UNCHANGED <<project, coord>>
    BY <1>0, <1>3, WatcherEffect
  <2> QED BY <2>1, GoneKept DEF Effect, GoneInv
<1>4. ASSUME NEW c \in Services \cup {Watcher}, RefreshStep(c)
      PROVE  GoneInv'
  <2>1. Effect /\ UNCHANGED <<rows, coord>> /\ (project' = "none" => project = "none")
    BY <1>0, <1>4, RefreshEffect
  <2> QED BY <2>1, GoneKept DEF Effect, GoneInv
<1>5. CASE \/ Tick \/ ReadGraph \/ VisitStart \/ LookAtDependency
           \/ DependenciesReady \/ VisitStop \/ VisitDelete \/ CoordinatorFails
  <2>1. Effect /\ CoordMeans /\ Looks
    BY <1>0, <1>5, LookEffect
  <2> QED BY <2>1, GoneKept DEF Effect, GoneInv, CoordMeans, Looks
<1>6. CASE Act
  <2>1. /\ Typed' /\ \A s \in Services : Kept(s)
        /\ coord'.pc \in {"idle", "fail"} /\ UNCHANGED project
    BY <1>0, <1>6, ActEffect
  <2> QED BY <2>1, GoneKept
<1>7. CASE Finish
  <2>1. coord.task = "deleting" => AllRowsGone
    BY <1>7 DEF GoneInv, Finish
  <2>2. /\ Typed' /\ coord'.pc = "idle"
        /\ \A s \in Services : Kept(s)
        /\ project' = "none" => project = "none" \/ AllRowsGone'
    BY <1>0, <1>7, <2>1, FinishEffect
  <2> QED BY <2>2, GoneKept
<1>8. CASE FailProject
  <2>1. Effect /\ coord'.pc = "idle" /\ (project' = "none" => project = "none")
    BY <1>0, <1>8, FailEffect
  <2> QED BY <2>1, GoneKept DEF Effect
<1>9. CASE Crash
  <2>1. Effect /\ coord'.pc = "idle" /\ project' = project
    BY <1>0, <1>9, CrashEffect
  <2> QED BY <2>1, GoneKept DEF Effect
<1>10. CASE UNCHANGED vars
  <2>1. Typed'
    BY <1>0, <1>10, TypedSame
  <2>2. \A s \in Services : Kept(s)
    BY <1>10 DEF vars, Kept, RowGoesLast, Active
  <2> QED BY <1>10, <2>1, <2>2, GoneKept DEF vars, GoneInv
<1> QED BY <1>1, <1>2, <1>3, <1>4, <1>5, <1>6, <1>7, <1>8, <1>9, <1>10
        DEF Next, CoordinatorStep

LEMMA LookedInitially ==
    ASSUME Init
    PROVE  LookedInv
BY TypedInit DEF LookedInv, Init, Resting

\* A step that leaves the coordinator alone leaves what it saw.
LEMMA LookedKept ==
    ASSUME LookedInv, Effect, CoordStays
    PROVE  LookedInv'
<1>1. Typed' /\ (Undisturbed' => Undisturbed)
  BY DEF Effect
<1>2. Node' = Node /\ coord'.looked = coord.looked
      /\ coord'.pc = coord.pc /\ coord'.task = coord.task
  BY DEF Node, CoordStays
<1>3. Needs(Node)' = Needs(Node)
  BY <1>2 DEF Needs
<1>4. ASSUME coord.pc \in {"wait", "act"}, coord.task = "starting", Undisturbed',
             NEW d \in coord.looked, Uncompleted(d)
      PROVE  Holds(d)' \/ d.on \in coord'.lapsed
  <2>1. d.on \in Services
    BY DEF LookedInv, Typed, Shape, CoordTyped, Edges, Graph
  <2>2. Holds(d) \/ d.on \in coord'.lapsed
    BY <1>1, <1>4 DEF LookedInv, CoordStays
  <2>3. Steady(d.on) \/ d.on \in coord'.lapsed
    BY <1>4, <2>1 DEF Effect, Recorded
  <2> QED BY <1>4, <2>2, <2>3, SteadyHolds
<1> QED BY <1>1, <1>2, <1>3, <1>4 DEF LookedInv, Uncompleted
LEMMA LookedAway ==
    ASSUME Typed', coord'.pc \notin {"wait", "act"}
    PROVE  LookedInv'
BY DEF LookedInv

LEMMA LookedStep ==
    ASSUME LookedInv, [Next]_vars
    PROVE  LookedInv'
<1>0. Typed
  BY DEF LookedInv
<1>1. CASE CallerStep
  <2>1. Typed' /\ UNCHANGED <<containers, coord>> /\ (Undisturbed' => Undisturbed)
    BY <1>0, <1>1, CallerTyped
  <2>2. Effect
    BY <1>0, <2>1, SameContainers DEF containers
  <2> QED BY <1>0, <2>1, <2>2, LookedKept, CoordSame DEF Typed
<1>2. ASSUME NEW s \in Services, ManualOp(s) \/ ExecutorStep(s) \/ ContainerStep(s)
      PROVE  LookedInv'
  BY <1>0, <1>2, OperationEffect, ContainerEffect, LookedKept, CoordSame DEF Typed
<1>3. CASE WatcherStep
  BY <1>0, <1>3, WatcherEffect, LookedKept, CoordSame DEF Typed
<1>4. ASSUME NEW c \in Services \cup {Watcher}, RefreshStep(c)
      PROVE  LookedInv'
  BY <1>0, <1>4, RefreshEffect, LookedKept, CoordSame DEF Typed
<1>5. CASE \/ Tick \/ ReadGraph \/ VisitStart \/ LookAtDependency
           \/ DependenciesReady \/ VisitStop \/ VisitDelete \/ CoordinatorFails
  <2>1. Effect /\ CoordMeans /\ Looks
    BY <1>0, <1>5, LookEffect
  <2>2. Typed' /\ (Undisturbed' => Undisturbed) /\ UNCHANGED <<rows, ops, engine>>
    BY <2>1 DEF Effect, Looks, containers
  <2>3. CASE coord'.pc = "wait" /\ coord.pc # "wait"
    <3>1. coord'.looked = {}
      BY <2>1, <2>3 DEF CoordMeans
    <3> QED BY <2>2, <2>3, <3>1 DEF LookedInv
  <2>4. CASE coord'.pc = "wait" /\ coord.pc = "wait"
    <3>1. PICK e \in Needs(Node) : /\ coord'.looked = coord.looked \cup {e}
                                   /\ ~Fails(e) /\ ~Awaited(e)
      BY <2>1, <2>4 DEF CoordMeans
    <3>0. coord'.lapsed = coord.lapsed
      BY <2>1, <2>4 DEF CoordMeans
    <3>2. ASSUME Undisturbed', NEW d \in coord'.looked, Uncompleted(d)
          PROVE  Holds(d)' \/ d.on \in coord'.lapsed
      <4>1. CASE d = e
        <5>1. Verdict(e) # "error" /\ Verdict(e) # "wait"
          BY <3>1, <3>2, <4>1 DEF Fails, Awaited, Uncompleted
        <5>2. Evaluate(engine[e.on], e.condition, Plan.services[e.on].check) = "ready"
          BY <5>1 DEF Verdict, Evaluate
        <5> QED BY <2>2, <4>1, <5>2 DEF Holds
      <4>2. CASE d # e
        <5>1. d \in coord.looked /\ Undisturbed /\ coord.task = "starting"
          BY <2>2, <2>4, <3>1, <3>2, <4>2 DEF LookedInv, Typed
        <5>2. Holds(d) \/ d.on \in coord.lapsed
          BY <2>4, <3>2, <5>1 DEF LookedInv
        <5> QED BY <2>2, <3>0, <5>2 DEF Holds
      <4> QED BY <4>1, <4>2
    <3> QED BY <2>2, <2>4, <3>2 DEF LookedInv, Uncompleted
  <2>5. CASE coord'.pc = "act" /\ coord'.task = "starting"
    <3>1. coord.pc = "wait" /\ Needs(Node) \subseteq coord.looked
          /\ coord'.left = coord.left /\ coord'.looked = coord.looked
          /\ coord'.lapsed = coord.lapsed
      BY <2>1, <2>5 DEF CoordMeans
    <3>2. Needs(Node)' = Needs(Node)
      BY <3>1 DEF Needs, Node
    <3>3. coord.task = "starting"
      BY <3>1 DEF LookedInv, Typed
    <3>4. ASSUME Undisturbed', NEW d \in coord'.looked, Uncompleted(d)
          PROVE  Holds(d)' \/ d.on \in coord'.lapsed
      <4>1. Holds(d) \/ d.on \in coord.lapsed
        BY <2>2, <3>1, <3>3, <3>4 DEF LookedInv
      <4> QED BY <2>2, <3>1, <4>1 DEF Holds
    <3> QED BY <2>2, <2>5, <3>1, <3>2, <3>4 DEF LookedInv, Uncompleted
  <2>6. CASE coord'.pc \notin {"wait", "act"} \/ (coord'.pc = "act" /\ coord'.task # "starting")
    BY <2>2, <2>6 DEF LookedInv
  <2> QED BY <2>3, <2>4, <2>5, <2>6
<1>6. CASE Act
  BY <1>0, <1>6, ActEffect, LookedAway
<1>7. CASE Finish
  <2>1. Typed' /\ coord'.pc = "idle"
    BY <1>0, <1>7, FinishTyped
  <2> QED BY <2>1, LookedAway
<1>8. CASE FailProject
  BY <1>0, <1>8, FailEffect, LookedAway DEF Effect
<1>9. CASE Crash
  BY <1>0, <1>9, CrashEffect, LookedAway DEF Effect
<1>10. CASE UNCHANGED vars
  <2>1. Typed' /\ UNCHANGED <<rows, ops, engine, coord, spent>>
    BY <1>0, <1>10, TypedSame DEF vars
  <2>2. Effect
    BY <1>0, <2>1, SameContainers DEF Undisturbed
  <2> QED BY <1>0, <2>1, <2>2, LookedKept, CoordSame DEF Typed
<1> QED BY <1>1, <1>2, <1>3, <1>4, <1>5, <1>6, <1>7, <1>8, <1>9, <1>10
        DEF Next, CoordinatorStep

-----------------------------------------------------------------------------
(* The theorems *)

\* The row of a project is deleted only when none of its containers is left in
\* Docker, for every plan and however operations, events, synchronisations,
\* refreshes, requests and restarts interleave.
THEOREM Deletion == Spec => []DeletedLeavesNothing
<1>1. Init => GoneInv
  BY GoneInitially
<1>2. GoneInv /\ [Next]_vars => GoneInv'
  BY GoneStep
<1>3. GoneInv => DeletedLeavesNothing
  BY DEF GoneInv, DeletedLeavesNothing, AllRowsGone, RowGoesLast
<1> QED BY <1>1, <1>2, <1>3, PTL DEF Spec

\* The coordinator starts a service only when its required dependencies that
\* are up are ready, for every plan: any number of services, dependencies and
\* conditions, however its looks at them interleave with operations and events.
THEOREM Order == Spec => StartsInOrder
<1>1. Init => LookedInv
  BY LookedInitially
<1>2. LookedInv /\ [Next]_vars => LookedInv'
  BY LookedStep
<1> DEFINE Starts(s) == /\ coord.pc = "act" /\ coord' = Resting
                        /\ ops[s].kind = "none" /\ ops'[s].kind = "start"
           Ready(d) == Evaluate(engine[d.on], d.condition, Plan.services[d.on].check) = "ready"
           InOrder == \A s \in Services : Starts(s) =>
                         \A d \in Needs(s) :
                            /\ d.required /\ d.condition # "service_completed_successfully"
                            /\ engine[d.on] \in Up
                            /\ spent.manual = 0 /\ d.on \notin coord.lapsed
                            => Ready(d)
<1>3. ASSUME LookedInv, Next, NEW s \in Services, Starts(s)
      PROVE  Act
  <2>0. Typed /\ coord.pc = "act" /\ coord'.pc = "idle" /\ coord' # coord
    BY <1>3 DEF LookedInv, Resting
  <2>1. ~CallerStep
    BY <2>0, CallerTyped
  <2>2. \A t \in Services : ~(ManualOp(t) \/ ExecutorStep(t) \/ ContainerStep(t))
    BY <2>0, OperationEffect, ContainerEffect DEF CoordStays
  <2>3. ~WatcherStep
    BY <2>0, WatcherEffect
  <2>4. \A c \in Services \cup {Watcher} : ~RefreshStep(c)
    BY <2>0, RefreshEffect
  <2>5. ~Crash
    <3>1. SUFFICES ASSUME Crash PROVE FALSE
      OBVIOUS
    <3>2. ops'[s] = NoOp \/ ops'[s] = ops[s]
      BY <3>1 DEF Crash
    <3> QED BY <1>3, <3>2 DEF NoOp
  <2>6. CoordinatorStep
    BY <1>3, <2>1, <2>2, <2>3, <2>4, <2>5 DEF Next
  <2>7. ~(Tick \/ ReadGraph \/ VisitStart \/ LookAtDependency
          \/ DependenciesReady \/ VisitStop \/ VisitDelete \/ Finish \/ FailProject)
    BY <2>0 DEF Tick, ReadGraph, VisitStart, LookAtDependency, DependenciesReady,
                VisitStop, VisitDelete, Finish, FailProject, Walking
  <2>8. ~CoordinatorFails
    <3>1. SUFFICES ASSUME CoordinatorFails PROVE FALSE
      OBVIOUS
    <3>2. coord' = [coord EXCEPT !.pc = "fail"]
      BY <3>1 DEF CoordinatorFails
    <3>3. coord'.pc = "fail"
      BY <2>0, <3>2, CoordGoes DEF Typed
    <3> QED BY <2>0, <3>3
  <2> QED BY <2>6, <2>7, <2>8 DEF CoordinatorStep
<1>4. LookedInv /\ [Next]_vars => [InOrder]_vars
  <2> SUFFICES ASSUME LookedInv, Next, NEW s \in Services, Starts(s),
                      NEW d \in Needs(s), Uncompleted(d), engine[d.on] \in Up, Undisturbed,
                      d.on \notin coord.lapsed
               PROVE  Ready(d)
    BY DEF Uncompleted, Undisturbed
  <2>1. Act /\ Typed
    BY <1>3 DEF LookedInv
  <2>2. ~Refused(Node, TaskOp) /\ QueueOp(Node, TaskOp)
    BY <2>1 DEF Act
  <2>3. TaskOp \in {"start", "stop", "delete"}
    BY DEF TaskOp, LookedInv, Typed, Shape, CoordTyped, Busy
  <2>4. s = Node /\ TaskOp = "start"
    <3>1. ops[s].kind = "none" /\ ops'[s].kind = "start" /\ Shape
      BY <2>1 DEF Typed
    <3>2. \A t \in Services :
              IF t = Node THEN /\ ops'[t] = [kind |-> TaskOp, stage |-> "queued", prev |-> rows[t]]
                               /\ rows'[t] = BusyStatus(TaskOp)
              ELSE ops'[t] = ops[t] /\ rows'[t] = rows[t]
      BY <2>2, <2>3, <3>1, QueueTyped
    <3>3. s = Node
      BY <3>1, <3>2
    <3>4. ops'[s] = [kind |-> TaskOp, stage |-> "queued", prev |-> rows[s]]
      BY <3>2, <3>3
    <3>5. ops'[s].kind = TaskOp
      BY <3>4
    <3> QED BY <3>1, <3>3, <3>5
  <2>5. coord.task = "starting"
    BY <2>4 DEF TaskOp, LookedInv, Typed, Shape, CoordTyped, Busy
  <2>6. d \in coord.looked
    BY <2>4, <2>5 DEF LookedInv
  <2>7. Holds(d)
    BY <2>5, <2>6 DEF LookedInv
  <2> QED BY <2>7 DEF Holds, Up
<1> QED BY <1>1, <1>2, <1>4, PTL DEF Spec, StartsInOrder
=============================================================================
