------------------------ MODULE MCComposeDeployment ------------------------
(* A small instance of ComposeDeployment: web is built, uses a volume and    *)
(* waits for db.                                                             *)
EXTENDS ComposeDeployment, TLC

Service(build, needs, mounts, check) ==
    [image |-> ~build, build |-> IF build THEN "inside" ELSE Absent,
     needs |-> needs, mounts |-> mounts, prefix |-> Absent, port |-> FALSE,
     check |-> check, unsafe |-> FALSE, valid |-> TRUE]
Need(on, condition) == [on |-> on, condition |-> condition, required |-> TRUE]
Volume(external) == [external |-> external, driver |-> FALSE]

\* A service that is built and mounts a volume.
WebBuilt ==
    [services |-> [s \in {"web"} |-> Service(TRUE, {}, {"data"}, FALSE)],
     volumes |-> [v \in {"data"} |-> Volume(FALSE)]]
\* web waits for db.
WebAfter(condition, check) ==
    [services |-> [s \in {"db", "web"} |->
        IF s = "db" THEN Service(FALSE, {}, {}, check)
        ELSE Service(FALSE, {Need("db", condition)}, {}, FALSE)],
     volumes |-> [v \in {} |-> Volume(FALSE)]]
\* Two services that are built.
BothBuilt ==
    [services |-> [s \in {"db", "web"} |-> Service(TRUE, {}, {}, FALSE)],
     volumes |-> [v \in {} |-> Volume(FALSE)]]
\* One service and a volume that is there before the deployment.
Alone(external) ==
    [services |-> [s \in {"db"} |-> Service(FALSE, {}, {"old"}, FALSE)],
     volumes |-> [v \in {"old"} |-> Volume(external)]]
\* A mount of a volume that the file does not declare.
Undeclared ==
    [services |-> [s \in {"db"} |-> Service(FALSE, {}, {"data"}, FALSE)],
     volumes |-> [v \in {"old"} |-> Volume(FALSE)]]

MCServices == {"db", "web"}
MCVolumes == {"data", "old"}
MCFiles == <<WebBuilt, WebAfter("service_healthy", TRUE), Alone(TRUE), Alone(FALSE), Undeclared, BothBuilt>>
MCFaults == <<1, 1, 2, 1, 1, 0>>
MCCanceled == 1..5
EndsFiles == <<WebBuilt, WebAfter("service_healthy", TRUE)>>
EndsFaults == <<1, 1>>
WaitingFiles == <<WebAfter("", FALSE)>>
NoFaults == <<0>>

WorkerSymmetry == Permutations(Workers)

=============================================================================
