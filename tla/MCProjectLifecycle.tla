------------------------- MODULE MCProjectLifecycle -------------------------
(* Small instances of ProjectLifecycle for TLC. *)
EXTENDS ProjectLifecycle

\* web needs db: the two services of the examples of the docs.
Service(needs, check) ==
    [image |-> TRUE, build |-> Absent, needs |-> needs, mounts |-> {},
     prefix |-> Absent, port |-> FALSE, check |-> check, unsafe |-> FALSE, valid |-> TRUE]
Db(condition, required) == [on |-> "db", condition |-> condition, required |-> required]
File(condition) ==
    [services |-> [s \in {"db", "web"} |->
                      IF s = "web" THEN Service({Db(condition, TRUE)}, FALSE)
                      ELSE Service({}, TRUE)],
     volumes |-> << >>]
WebAfterHealthyDb == PlanOf(File("service_healthy"), <<"db", "web">>)
=============================================================================
