----------------------------- MODULE MCGateway ------------------------------
(* Instance of Gateway: one identity whose name may be taken, and either    *)
(* three account requests, a request and a log stream, two log streams (one *)
(* perhaps an administrator's), or a terminal.                              *)
EXTENDS Gateway, TLC

CONSTANTS a1, a2, a3, h1, h2, i1, i2

MCBaseName == [s \in Subjects |-> "ann"]
MCCandidate == [s \in Subjects |-> IF s = "s1" THEN "ann-1" ELSE "ann-2"]
MCMail == [s \in Subjects |-> IF s = "s1" THEN "ann@" ELSE None]
MCFallback == [s \in Subjects |-> IF s = "s1" THEN "oidc-1@" ELSE "oidc-2@"]
MCBootstrap == [name |-> "root", mail |-> "root@"]
Form(name, mail, role, status) ==
    [name |-> name, mail |-> mail, role |-> role, status |-> status]
MCForms == {Form("ann", "ann@", "user", "active"), Form("ann", "ann@", "admin", "active"),
            Form("root", "root@", "user", "active"), Form("ann-1", "ann@", "user", "deactivated")}
MCActors == {"user", "admin"} \X Accounts
MCLimits == [k \in Kinds |-> IF k = "logs" THEN {0, 2} ELSE {1}]
MCMaxTotal == [k \in Kinds |-> IF k = "logs" THEN 2 ELSE 1]
Mix(r, l, t, a) == [requests |-> r, logs |-> l, terminal |-> t, admin |-> a]
MCMixes == {Mix(3, 0, 0, 0), Mix(1, 1, 0, 0), Mix(0, 2, 0, 1), Mix(0, 0, 1, 1)}

=============================================================================
