---------------------------- MODULE Administration ----------------------------
(***************************************************************************)
(* Core under administration: admission and the rebalancer, the            *)
(* configuration that they, the worker of usage reports and Builder read,  *)
(* and the administrators who change it.                                   *)
(*                                                                         *)
(* A save that changes what the shares are computed from asks for a        *)
(* rebalancing; a restart of Core interrupts requests, operations, saves   *)
(* and collections and reads config.json again.                            *)
(***************************************************************************)
EXTENDS UsageReports

\* A mix is one part of the behaviours: how often each thing happens there, which
\* containers exist at first and which requests, saves and files occur.
CONSTANT Mixes
Uses == {"requests", "troubles", "syncs", "loads", "saves", "jobs", "ticks", "refreshes",
         "losses"}
MixType ==
    [bound : [Uses -> Nat],
     existing : SUBSET Existing,
     kinds : SUBSET Kinds,
     admins : SUBSET Admins, inputs : SUBSET Inputs,
     start : SUBSET Files,   \* config.json at first
     files : SUBSET Files,   \* and what may replace it
     reports : BOOLEAN]      \* whether the worker of reports runs

ASSUME AdministrationConstants == Mixes \subseteq MixType

VARIABLES mix, used

counting == <<mix, used>>
allVars == <<vars, configVars, builderVars, reportVars, counting>>

Count(what) ==
    /\ used[what] < mix.bound[what]
    /\ used' = [used EXCEPT ![what] = @ + 1]
    /\ UNCHANGED mix

-----------------------------------------------------------------------------

Shares(c) == c["shares"]
Overtakes(a) == memory # updates[a].old

\* Requests, operations, builds and the rebalancer.
Admits ==
    /\ OwnStep
    /\ spent'.requests <= mix.bound["requests"]
    /\ spent'.faults + spent'.failures <= mix.bound["troubles"]
    /\ spent'.syncs <= mix.bound["syncs"]
    /\ \A k \in Sessions : sessions'[k].kind \in mix.kinds \cup {"none"}
    /\ \A c \in Containers : ops'[c].kind \in mix.kinds \cup {"none"}
    /\ UNCHANGED <<configVars, builderVars, reportVars, counting>>

\* A save, up to the new configuration and the request for a rebalancing.
Sends(a) ==
    /\ \E input \in mix.inputs : SavePage(a, input)
    /\ Count("saves")
    /\ UNCHANGED <<vars, reportVars>>
Handles(a) ==
    /\ ReadOld(a) \/ WriteFile(a) \/ Refuse(a)
    /\ UNCHANGED <<vars, reportVars, counting>>
Sets(a) ==
    /\ SetMemory(a)
    /\ Reconfigure(Shares(memory) # Shares(NewConfig(a)), Overtakes(a))
    /\ UNCHANGED <<reportVars, counting>>
Asks(a) == AsksRebalance(a) /\ AskRebalance /\ UNCHANGED <<reportVars, counting>>
Loads(a) == LoadPage(a) /\ Count("loads") /\ UNCHANGED <<vars, reportVars>>
Fails(a) == SaveFails(a) /\ UNCHANGED <<vars, reportVars, counting>>
Saves(a) == Handles(a) \/ Sets(a) \/ Asks(a)

BuilderStep(j) ==
    /\ JobStep(j)
    /\ IF jobs[j].pc = "none" THEN Count("jobs") ELSE UNCHANGED counting
    /\ UNCHANGED <<vars, reportVars>>

Collecting ==
    /\ mix.reports /\ WorkerStep
    /\ UNCHANGED <<vars, configVars, builderVars, counting>>
Reports ==
    /\ \/ Tick /\ Count("ticks")
       \/ AskRefresh /\ Count("refreshes")
       \/ CollectionFails /\ Count("losses")
    /\ UNCHANGED <<vars, configVars, builderVars>>

Restarts(f) ==
    /\ Reload(f)
    /\ Crash(Shares(memory) # Shares(memory'))
    /\ spent'.faults + spent'.failures <= mix.bound["troubles"]
    /\ WorkerRestarts
    /\ UNCHANGED counting

-----------------------------------------------------------------------------

AllInit ==
    /\ Init /\ ConfigurationInit /\ ReportsInit
    /\ mix \in Mixes
    /\ {c \in Containers : Exists(c)} \in mix.existing
    /\ \E f \in mix.start, d \in Defaults : file = Loaded(f, d)
    /\ used = [x \in Uses |-> 0]

AllNext ==
    \/ Admits
    \/ \E a \in mix.admins : Loads(a) \/ Sends(a) \/ Saves(a) \/ Fails(a)
    \/ \E j \in Jobs : BuilderStep(j)
    \/ Collecting \/ Reports
    \/ \E f \in mix.files \cup {file} : Restarts(f)

\* Beside the fairness of admission, Core goes on with what it has received and
\* its worker runs.
AllSpec == AllInit /\ [][AllNext]_allVars
FairAllSpec ==
    /\ AllSpec
    /\ Fairness
    /\ \A a \in Admins : WF_allVars(Saves(a))
    /\ WF_allVars(Collecting)

-----------------------------------------------------------------------------
(* Properties *)

\* Requests for a rebalancing are merged, yet in the end the limits come from the
\* containers that run and the configuration in force, unless an operation or
\* the rebalancer itself failed or two administrators saved at the same time.
UpToDate ==
    \A c \in Running : engine[c] \in There => applied[c] = [config |-> spent.config, on |-> Running]
RebalanceFollows ==
    <>[]UpToDate \/ <>(spent.failures > 0 \/ spent.vain > 0 \/ spent.overtaken > 0)

\* A refresh that was answered is served: a collection that began after the
\* answer is stored, although requests are merged and a restart drops them,
\* unless a collection failed.
RefreshIsServed == stored < asked ~> (stored >= asked \/ used["losses"] > 0)

=============================================================================
