----------------------------- MODULE ComposePlan -----------------------------
(***************************************************************************)
(* What a Compose file becomes: the parser's verdict on it, the plan with  *)
(* its services in dependency order, the service graph that is saved with  *)
(* the project, and when a dependency counts as satisfied.                 *)
(*                                                                         *)
(* A file is a record of what the parser looks at; names, paths and images *)
(* are members of small sets.                                              *)
(***************************************************************************)
EXTENDS FiniteSets, SequencesExt

CONSTANTS
    Services,        \* names of services
    VolumeNames,     \* aliases of volumes
    DomainPrefixes,  \* domain prefixes
    Absent           \* a directive that a file does not have

Conditions == {"service_started", "service_healthy",
               "service_completed_successfully"}

\* condition: a file may leave it out or name one that is not supported.
DependencyType == [on : Services, condition : Conditions \cup {"", "unsupported"},
                   required : BOOLEAN]

\* build: where the build context points to; check: it has a health check;
\* unsafe: host network, privileged, host pid or a bind mount; valid: names,
\* image tag and limits of the health check.
ServiceType == [image : BOOLEAN, build : {Absent, "inside", "outside"},
                needs : SUBSET DependencyType, mounts : SUBSET VolumeNames,
                prefix : DomainPrefixes \cup {Absent}, port : BOOLEAN,
                check : BOOLEAN, unsafe : BOOLEAN, valid : BOOLEAN]
FileVolumeType == [external : BOOLEAN, driver : BOOLEAN]

Named(file) == DOMAIN file.services
Declared(file) == DOMAIN file.volumes

-----------------------------------------------------------------------------
(* The parser *)

\* Mutant: an unknown condition is kept.
KeepsCondition(d) == d

\* Supported values only: an empty or unknown condition counts as
\* service_started, restart and the unsupported directives are dropped.
Sanitized(d) ==
    [d EXCEPT !.condition = IF @ \in Conditions THEN @ ELSE "service_started"]

\* The checks of compose-go when it loads the model: a required dependency
\* is a service of the file and services do not wait for each other.
Requires(file, s) == {d.on : d \in file.services[s].needs} \cap Named(file)
DependsFirst(file, order) ==
    \A i, j \in DOMAIN order : order[j] \in Requires(file, order[i]) => j < i
Orders(file) == {o \in SetToSeqs(Named(file)) : DependsFirst(file, o)}
Loads(file) ==
    /\ Orders(file) # {}
    /\ \A s \in Named(file) : \A d \in file.services[s].needs :
           d.required => d.on \in Named(file)

Secure(file) == \A s \in Named(file) : ~file.services[s].unsafe

VolumesAllowed(file) ==
    \A v \in Declared(file) : file.volumes[v].external \/ ~file.volumes[v].driver

\* Mutant: a mount may name a volume the file does not declare.
UncheckedMounts(file, s, forbidden) ==
    LET srv == file.services[s] IN
    /\ srv.valid
    /\ srv.build # "outside"
    /\ srv.build = Absent => srv.image
    /\ (srv.prefix # Absent) = srv.port
    /\ srv.prefix \notin forbidden

ServiceAllowed(file, s, forbidden) ==
    LET srv == file.services[s] IN
    /\ srv.valid
    /\ srv.build # "outside"
    /\ srv.build = Absent => srv.image
    /\ srv.mounts \subseteq Declared(file)
    /\ (srv.prefix # Absent) = srv.port
    /\ srv.prefix \notin forbidden

PrefixesUnique(file) ==
    \A s, t \in Named(file) :
        /\ s # t
        /\ file.services[s].prefix # Absent
        => file.services[s].prefix # file.services[t].prefix

Accepted(file, forbidden) ==
    /\ Loads(file)
    /\ Secure(file)
    /\ VolumesAllowed(file)
    /\ \A s \in Named(file) : ServiceAllowed(file, s, forbidden)
    /\ PrefixesUnique(file)

\* The plan: services in an order that compose-go's walk may produce, volumes
\* with the managed ones told apart from the external ones.
PlanService(file, s) ==
    [built |-> file.services[s].build # Absent,
     needs |-> {Sanitized(d) : d \in file.services[s].needs},
     mounts |-> file.services[s].mounts,
     check |-> file.services[s].check]
PlanOf(file, order) ==
    [order |-> order,
     services |-> [s \in Named(file) |-> PlanService(file, s)],
     volumes |-> Declared(file),
     external |-> {v \in Declared(file) : file.volumes[v].external}]

\* The services of a plan that are built from source.
Built(plan) == {s \in DOMAIN plan.services : plan.services[s].built}
RequiresBuild(plan) == Built(plan) # {}

-----------------------------------------------------------------------------
(* The graph saved with the project *)

Position(plan, s) == CHOOSE i \in DOMAIN plan.order : plan.order[i] = s

GraphErrors(plan, mapped) ==
    \/ ~ DOMAIN plan.services \subseteq mapped
    \/ \E s \in DOMAIN plan.services : \E d \in plan.services[s].needs :
           \/ d.on \notin DOMAIN plan.services /\ d.required
           \/ /\ d.on \in DOMAIN plan.services
              /\ Position(plan, d.on) >= Position(plan, s)

Graph(plan, mapped) ==
    UNION {{[service |-> s, on |-> d.on, condition |-> d.condition,
             required |-> d.required] : 
                 d \in {e \in plan.services[s].needs : e.on \in mapped}} :
           s \in DOMAIN plan.services}

-----------------------------------------------------------------------------
(* When a dependency is satisfied.  The state of a container in Docker is    *)
(* "none", "created", "running", "healthy" or "unhealthy" by its health      *)
(* check, "exited" with code zero, or "broken": ended with another code.     *)

EngineStates == {"none", "created", "running", "healthy", "unhealthy", "exited",
                 "broken"}

\* Mutant: a container that ended is taken for one that was started.
EndedCountsAsStarted(engine, condition, check) ==
    IF engine \in {"exited", "broken", "running", "healthy"} THEN "ready"
    ELSE "wait"

Evaluate(engine, condition, check) ==
    CASE condition = "service_healthy" ->
           (IF ~check THEN "error"
            ELSE IF engine = "healthy" THEN "ready"
            ELSE IF engine \in {"unhealthy", "broken"} THEN "error" ELSE "wait")
      [] condition = "service_completed_successfully" ->
           (IF engine = "exited" THEN "ready"
            ELSE IF engine = "broken" THEN "error" ELSE "wait")
      [] condition = "service_started" ->
           (IF engine \in {"running", "healthy", "unhealthy"} THEN "ready"
            ELSE IF engine = "broken" THEN "error" ELSE "wait")
      [] OTHER -> "error"
=============================================================================
