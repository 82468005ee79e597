--------------------------- MODULE MCAdministration ---------------------------
(* A small instance of Administration. *)
EXTENDS Administration, TLC

CONSTANTS u1, u2, c1, c2, b1, b2, a1

MCOwner == (c1 :> u1 @@ c2 :> u1 @@ b1 :> u2 @@ b2 :> u2)
One == [r \in Resources |-> 1]
MCNeed == [c \in Containers |-> One]
MCQuota == [u \in Users |-> One]

\* An hour has 2 nanoseconds, an int32 8 values, and doubles are exact up to 8.
Normal == [x \in Fields |-> CASE x = "shares" -> 4 [] x = "interval" -> 2 [] OTHER -> 1]
Changed(x, n) == [Normal EXCEPT ![x] = n]
MCDefaults == {Normal, Changed("ttl", 3)}
Old == [x \in (Fields \ {"ttl"}) \cup {Legacy} |-> IF x = Legacy THEN 5 ELSE Normal[x]]
Odd == Changed("shares", 11)
Many == Changed("slots", 9)
None == [x \in {} |-> 0]
MCFiles == {None, Normal, Old, [Old EXCEPT ![Legacy] = -1], Odd, Many, Changed("hosts", 0), Changed("interval", 3)}
MCInputs == {<<"shares", 6>>, <<"slots", 2>>, <<"hosts", 0>>, <<"ttl", 0>>, <<"interval", 4>>}

Bound(requests, troubles, syncs, loads, saves, njobs, ticks, refreshes, losses) ==
    [requests |-> requests, troubles |-> troubles, syncs |-> syncs, loads |-> loads,
     saves |-> saves, jobs |-> njobs, ticks |-> ticks, refreshes |-> refreshes, losses |-> losses]
Mix(bound, existing, kinds, admins, inputs, start, files, reports) ==
    [bound |-> bound, existing |-> existing, kinds |-> kinds, admins |-> admins, inputs |-> inputs,
     start |-> start, files |-> files, reports |-> reports]
MCMixes ==
    {\* starts with any one trouble
     Mix(Bound(2, 1, 0, 0, 0, 0, 0, 0, 0), {Containers}, {"start"}, {}, {}, {Normal}, {}, FALSE),
     \* starts and builds
     Mix(Bound(2, 0, 0, 0, 0, 0, 0, 0, 0), {Containers}, {"start", "build"}, {}, {}, {Normal}, {}, FALSE),
     \* creations, builds, and requests about a container that is still to be created
     Mix(Bound(2, 1, 0, 0, 0, 0, 0, 0, 0), {{}}, {"create", "build", "delete"}, {}, {}, {Normal}, {}, FALSE),
     Mix(Bound(2, 0, 0, 0, 0, 0, 0, 0, 0), {{}}, {"create", "check", "start"}, {}, {}, {Normal}, {}, FALSE),
     \* operations beside a synchronisation, and with a trouble
     Mix(Bound(2, 0, 1, 0, 0, 0, 0, 0, 0), {{c1}}, {"start", "stop", "expose"}, {}, {}, {Normal}, {}, FALSE),
     Mix(Bound(1, 1, 1, 0, 0, 0, 0, 0, 0), {{c1}}, {"start", "expose", "delete"}, {}, {}, {Normal}, {}, FALSE),
     \* a start while an administrator changes the shares
     Mix(Bound(1, 0, 0, 2, 2, 0, 0, 0, 0), {{c1}}, {"start"}, {a1}, {<<"shares", 6>>}, {Normal}, {}, FALSE),
     \* two administrators
     Mix(Bound(0, 0, 0, 2, 2, 0, 0, 0, 0), {{}}, {}, Admins, {<<"shares", 6>>, <<"hosts", 0>>, <<"ttl", 0>>}, {Odd}, {}, FALSE),
     \* restarts and files of the operator
     Mix(Bound(0, 1, 0, 1, 1, 0, 0, 0, 0), {{}}, {}, {a1}, MCInputs, MCFiles, MCFiles, FALSE),
     \* builds while their limit changes
     Mix(Bound(0, 0, 0, 1, 1, 3, 0, 0, 0), {{}}, {}, {a1}, {<<"slots", 2>>}, {Normal, Many}, {}, FALSE),
     \* reports
     Mix(Bound(1, 1, 0, 0, 0, 0, 1, 0, 0), {{c1}}, {"start"}, {}, {}, {Changed("interval", 3)}, {Normal}, TRUE),
     Mix(Bound(0, 1, 0, 0, 0, 0, 2, 2, 1), {{}}, {}, {}, {}, {Normal}, {Normal}, TRUE)}
=============================================================================
