---------------------------- MODULE Configuration ----------------------------
(***************************************************************************)
(* The configuration of the system: config.json and Core's copy of it,     *)
(* its way through the layers to the page of an administrator and back,    *)
(* and the limit that Builder reads from it for each build.                *)
(*                                                                         *)
(* The 84 fields of the code are told apart by what happens to them; one   *)
(* field stands for all that are treated alike.  A text or a list is a     *)
(* number here, 0 if it is empty.                                          *)
(***************************************************************************)
EXTENDS FiniteSets, Functions, Integers

CONSTANTS
    Admins, Jobs,
    Absent,
    Files,      \* what an operator may put in the place of config.json
    Defaults,   \* what the environment of Core may say
    Inputs,     \* what an administrator may type: fields with values
    Intervals,  \* of snapshots, from the least to the greatest allowed
    Half,       \* 2^31: an int32 is below it
    Exact,      \* 2^53: the numbers of a browser are exact up to it
    Hour        \* nanoseconds of an hour

\* shares: all that the limits in Docker are computed from; slots: counts that
\* travel as int32; hosts: lists; registry: what no page shows.
Fields == {"shares", "slots", "hosts", "interval", "ttl", "registry"}
Visible == Fields \ {"registry"}
Counts == {"slots"}
Config == [Fields -> Int]
Data == [Visible -> Int]

\* A file of an earlier version lacks fields or has container_ttl instead.
Legacy == "container_ttl"
Storable(f) == DOMAIN f \subseteq Fields \cup {Legacy} /\ \A x \in DOMAIN f : f[x] \in Int

ASSUME ConfigurationConstants ==
    /\ \A f \in Files : Storable(f)
    /\ Defaults \subseteq Config
    /\ Inputs \subseteq Visible \X Int
    /\ Intervals \subseteq Nat \ {0}
    /\ Half \in Nat \ {0} /\ Exact \in Nat /\ Hour \in Nat \ {0}
    /\ IsFiniteSet(Jobs)
    /\ Absent \notin [base : Config, form : Data]

VARIABLES
    file,       \* config.json; an empty one is as good as none
    memory,     \* config.Manager
    pages,      \* the form of an administrator and what it was filled from
    updates,    \* what becomes of a form that was sent
    copy,       \* max_concurrent_builds as Builder last stored it
    active,     \* activeBuilds
    jobs        \* builds Builder has received

configVars == <<file, memory, pages, updates>>
builderVars == <<copy, active, jobs>>

-----------------------------------------------------------------------------
(* Loading and validating *)

\* ValidateSystemConfig; Git sources are enabled.
Valid(c) ==
    /\ c["shares"] > 0 /\ c["slots"] > 0 /\ c["hosts"] > 0
    /\ c["interval"] \in Intervals
    /\ c["ttl"] >= 0
    /\ c["registry"] # 0

\* backfillConfigJSON: what the file lacks comes from the environment; the
\* earlier time to live is converted to whole hours unless it is negative.
Converted(f) ==
    IF "ttl" \notin DOMAIN f /\ Legacy \in DOMAIN f /\ f[Legacy] >= 0
    THEN [x \in DOMAIN f \cup {"ttl"} |-> IF x = "ttl" THEN f[Legacy] \div Hour ELSE f[x]]
    ELSE f
Loaded(f, d) ==
    [x \in Fields |-> IF x \in DOMAIN Converted(f) THEN Converted(f)[x] ELSE d[x]]

-----------------------------------------------------------------------------
(* From Core to a page and back *)

Int32(n) == ((n + Half) % (2 * Half)) - Half
Narrowed(data) == [x \in DOMAIN data |-> IF x \in Counts THEN Int32(data[x]) ELSE data[x]]
\* JavaScript rounds to an even mantissa.
Double(n) ==
    IF n <= Exact \/ n % 2 = 0 THEN n ELSE IF n % 4 = 1 THEN n - 1 ELSE n + 1

\* GetConfig of Core, and the form that reset(config) fills.
GetConfig(c) == Narrowed(Restrict(c, Visible))
Form(c) == [x \in Visible |-> Double(GetConfig(c)[x])]

\* systemConfigSchema: stricter than Core with shares, blind to empty lists.
Schema(form) ==
    /\ form["shares"] >= 2 /\ form["slots"] >= 1
    /\ form["interval"] \in Intervals
    /\ form["ttl"] >= 0

\* Mutant: a mapper that forgets container_ttl_hours.
ForgetsTTL(form) == Narrowed([form EXCEPT !["ttl"] = 0])

\* systemConfigFromDTO and systemConfigToProto.
Sent(form) == Narrowed(form)

\* UpdateConfig of Core takes what the page cannot show from its own copy.
Merged(c, request) == [x \in Fields |-> IF x \in Visible THEN request[x] ELSE c[x]]

\* resourceConfigChanged.
ResourcesChanged(c, d) == c["shares"] # d["shares"]

-----------------------------------------------------------------------------
(* Saving *)

PageType == [base : Config, form : Data]
UpdateType ==
    [pc : {"idle", "sent", "read", "written", "rebalance"},
     page : PageType \cup {Absent},
     old : Config \cup {Absent}]    \* oldConfig of UpdateConfig
NoUpdate == [pc |-> "idle", page |-> Absent, old |-> Absent]
Goes(a, pc) ==
    updates' = [updates EXCEPT ![a] = IF pc = "idle" THEN NoUpdate ELSE [@ EXCEPT !.pc = pc]]

\* What UpdateConfig of the handler makes of the request and of Core's copy.
NewConfig(a) == Merged(updates[a].old, Sent(updates[a].page.form))

\* Manager.Update holds the lock from the new file to the new copy.
Writing(a) == updates[a].pc = "written"
Readable == \A a \in Admins : ~Writing(a)

\* The query of the page: when it is opened, and again after a save.
LoadPage(a) ==
    /\ Readable
    /\ pages' = [pages EXCEPT ![a] = [base |-> memory, form |-> Form(memory)]]
    /\ UNCHANGED <<file, memory, updates, builderVars>>

\* A field is edited and the form sent; what is on the page stays there.
SavePage(a, input) ==
    /\ updates[a].pc = "idle" /\ pages[a] # Absent
    /\ pages' = [pages EXCEPT ![a].form[input[1]] = input[2]]
    /\ Schema(pages'[a].form)
    /\ updates' = [updates EXCEPT ![a] = [NoUpdate EXCEPT !.pc = "sent", !.page = pages'[a]]]
    /\ UNCHANGED <<file, memory, builderVars>>

\* UpdateConfig of the handler and of the service read the configuration.
ReadOld(a) ==
    /\ updates[a].pc = "sent" /\ Readable
    /\ updates' = [updates EXCEPT ![a].pc = "read", ![a].old = memory]
    /\ UNCHANGED <<file, memory, pages, builderVars>>

\* Mutant: whatever an administrator sends is saved.
Unchecked(c) == TRUE

Accepted(c) == Valid(c)

\* Manager.Update: validate, rename the temporary file ...
WriteFile(a) ==
    /\ updates[a].pc = "read" /\ Readable
    /\ Accepted(NewConfig(a))
    /\ file' = NewConfig(a)
    /\ Goes(a, "written")
    /\ UNCHANGED <<memory, pages, builderVars>>
\* ... and only then change the copy.
SetMemory(a) ==
    /\ Writing(a)
    /\ memory' = NewConfig(a)
    /\ Goes(a, IF ResourcesChanged(updates[a].old, NewConfig(a)) THEN "rebalance" ELSE "idle")
    /\ UNCHANGED <<file, pages, builderVars>>
\* UpdateConfig requests a rebalancing.
AsksRebalance(a) ==
    /\ updates[a].pc = "rebalance"
    /\ Goes(a, "idle")
    /\ UNCHANGED <<file, memory, pages, builderVars>>

\* Core refuses the values; a request does not arrive, or the disk is full.
Refuse(a) ==
    /\ updates[a].pc = "read" /\ ~Accepted(NewConfig(a))
    /\ Goes(a, "idle")
    /\ UNCHANGED <<file, memory, pages, builderVars>>
SaveFails(a) ==
    /\ updates[a].pc \in {"sent", "read"}
    /\ Goes(a, "idle")
    /\ UNCHANGED <<file, memory, pages, builderVars>>

\* NewManager of the next start of Core, after the operator has left the file as
\* it was or put another in its place.
Reload(f) ==
    /\ \E d \in Defaults :
        /\ Valid(Loaded(f, d))
        /\ file' = Loaded(f, d)
        /\ memory' = Loaded(f, d)
    /\ updates' = [a \in Admins |-> NoUpdate]
    /\ UNCHANGED <<pages, builderVars>>

-----------------------------------------------------------------------------
(* Builder: each message refreshes the copy, waits for a slot and builds *)

JobType == [pc : {"none", "refreshed", "waiting", "running", "done"}, limit : Int]
NewJob == [pc |-> "none", limit |-> 0]
SetJob(j, pc, limit) == jobs' = [jobs EXCEPT ![j] = [pc |-> pc, limit |-> limit]]

\* GetBuilderRuntimeConfig, then the copy.
Refresh(j) ==
    /\ jobs[j].pc = "none" /\ Readable
    /\ SetJob(j, "refreshed", Int32(memory["slots"]))
    /\ UNCHANGED <<configVars, copy, active>>
Store(j) ==
    /\ jobs[j].pc = "refreshed"
    /\ copy' = jobs[j].limit
    /\ SetJob(j, "waiting", jobs[j].limit)
    /\ UNCHANGED <<configVars, active>>
\* Core does not answer.
RefreshFails(j) ==
    /\ jobs[j].pc = "none"
    /\ SetJob(j, "waiting", copy)
    /\ UNCHANGED <<configVars, copy, active>>

AtLeastOne(n) == IF n <= 0 THEN 1 ELSE n

\* Mutant: the last slot is given twice.
SlotOrEqual(j) == active <= AtLeastOne(jobs[j].limit)

SlotFree(j) == active < AtLeastOne(jobs[j].limit)
AcquireSlot(j) ==
    /\ jobs[j].pc = "waiting"
    /\ SlotFree(j)
    /\ active' = active + 1
    /\ SetJob(j, "running", jobs[j].limit)
    /\ UNCHANGED <<configVars, copy>>
ReleaseSlot(j) ==
    /\ jobs[j].pc = "running"
    /\ active' = IF active > 0 THEN active - 1 ELSE active
    /\ SetJob(j, "done", jobs[j].limit)
    /\ UNCHANGED <<configVars, copy>>
GiveUp(j) ==
    /\ jobs[j].pc = "waiting"
    /\ SetJob(j, "done", jobs[j].limit)
    /\ UNCHANGED <<configVars, copy, active>>

JobStep(j) ==
    \/ Refresh(j) \/ Store(j) \/ RefreshFails(j)
    \/ AcquireSlot(j) \/ ReleaseSlot(j) \/ GiveUp(j)

-----------------------------------------------------------------------------

ConfigurationInit ==
    /\ \E f \in Files, d \in Defaults :
        /\ Valid(Loaded(f, d))
        /\ file = Loaded(f, d) /\ memory = Loaded(f, d)
    /\ pages = [a \in Admins |-> Absent]
    /\ updates = [a \in Admins |-> NoUpdate]
    /\ \E d \in Defaults : copy = d["slots"]
    /\ active = 0
    /\ jobs = [j \in Jobs |-> NewJob]

ConfigurationTypeOK ==
    /\ file \in Config /\ memory \in Config
    /\ pages \in [Admins -> PageType \cup {Absent}]
    /\ updates \in [Admins -> UpdateType]
    /\ copy \in Int /\ active \in Nat
    /\ jobs \in [Jobs -> JobType]

-----------------------------------------------------------------------------
(* Properties *)

\* Core can be restarted at any moment, whatever its environment says by then:
\* config.json is whole and valid, and it is the configuration in force or the
\* one that Manager.Update is about to put in force.
RestartKeepsConfig ==
    \A d \in Defaults :
        /\ Valid(Loaded(file, d))
        /\ Loaded(file, d) = memory \/ \E a \in Admins : Writing(a) /\ Loaded(file, d) = NewConfig(a)

\* A save through the page, the gateway and Core changes the fields that were
\* edited, to what was typed, and no other; what no page shows never changes.
\* Excepted are fields that another administrator saved since the page was
\* filled, and values that a conversion cannot hold.
Unfit(c, form) ==
    {x \in Visible : \E n \in {c[x], form[x]} : n > Exact \/ (x \in Counts /\ n >= Half)}
OnlyEditedFieldsChange ==
    [][\A a \in Admins :
         Writing(a) /\ ~Writing(a)' /\ file' = file =>
            LET page == updates[a].page IN
            /\ memory'["registry"] = memory["registry"]
            /\ \A x \in Visible \ Unfit(page.base, page.form) :
                 page.base[x] = memory[x] =>
                    memory'[x] = IF page.form[x] = Form(page.base)[x] THEN memory[x]
                                 ELSE page.form[x]]_configVars

\* Builder counts its running builds and never runs more of them than one of
\* them was allowed when it asked, although builds that ask at the same time
\* have read different limits.
RunningJobs == {j \in Jobs : jobs[j].pc = "running"}
SlotsWithinLimit ==
    /\ active = Cardinality(RunningJobs)
    /\ active > 0 => \E j \in RunningJobs : active <= AtLeastOne(jobs[j].limit)

=============================================================================
