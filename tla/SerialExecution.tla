-------------------------- MODULE SerialExecution --------------------------
(***************************************************************************)
(* What the queue of container operations promises to its users: every     *)
(* operation belongs to one resource, operations of one resource execute   *)
(* one at a time, and one that is finished never executes again.  It may   *)
(* execute several times before that (a retry, a restart), or be canceled  *)
(* before or while it executes.                                            *)
(***************************************************************************)
CONSTANTS Operations, Resources, None

VARIABLES
    owner,      \* the resource of an accepted operation
    executing,  \* operations some handler works on
    finished    \* operations that succeeded, failed or were canceled

vars == <<owner, executing, finished>>

Accepted == {o \in Operations : owner[o] # None}

Init ==
    /\ owner = [o \in Operations |-> None]
    /\ executing = {}
    /\ finished = {}

Accept(o, r) ==
    /\ o \notin Accepted
    /\ owner' = [owner EXCEPT ![o] = r]
    /\ UNCHANGED <<executing, finished>>

Begin(o) ==
    /\ o \in Accepted \ (finished \cup executing)
    /\ \A p \in executing : owner[p] # owner[o]
    /\ executing' = executing \cup {o}
    /\ UNCHANGED <<owner, finished>>

\* Handlers end, or die together, and operations end with them or by
\* cancellation.
End ==
    /\ executing' \in SUBSET executing
    /\ \E ended \in SUBSET (Accepted \ finished) : finished' = finished \cup ended
    /\ UNCHANGED owner

Next ==
    \/ \E o \in Operations, r \in Resources : Accept(o, r)
    \/ \E o \in Operations : Begin(o)
    \/ End

Spec == Init /\ [][Next]_vars

=============================================================================
