------------------------ MODULE AdministrationProofs ------------------------
(***************************************************************************)
(* Proofs about Configuration, UsageReports and their composition with     *)
(* Admission, for every value of the constants: whatever administrators    *)
(* save, Core can be restarted, Builder keeps within the limits it was     *)
(* given, the reports show what was collected last, and admission does     *)
(* nothing it would not do by itself.                                      *)
(***************************************************************************)
EXTENDS Administration, AdmissionProofs

-----------------------------------------------------------------------------
(* The conversions between config.json, the copy and the page *)

LEMMA Int32Type ==
    ASSUME NEW n \in Int
    PROVE  Int32(n) \in Int
BY ConfigurationConstants DEF Int32
LEMMA ModSmall ==
    ASSUME NEW d \in Nat \ {0}, NEW m \in 0..(d - 1)
    PROVE  m % d = m
OBVIOUS
LEMMA Int32Fits ==
    ASSUME NEW n \in Nat, n < Half
    PROVE  Int32(n) = n
<1>1. n + Half \in 0..(2 * Half - 1) /\ 2 * Half \in Nat \ {0}
  BY ConfigurationConstants
<1> QED BY <1>1, ModSmall, ConfigurationConstants DEF Int32
LEMMA DoubleType ==
    ASSUME NEW n \in Int
    PROVE  Double(n) \in Int
BY ConfigurationConstants DEF Double
LEMMA NarrowedType ==
    ASSUME NEW data \in Data
    PROVE  Narrowed(data) \in Data
BY Int32Type DEF Narrowed, Data
LEMMA FormType ==
    ASSUME NEW c \in Config
    PROVE  Form(c) \in Data
<1>1. Restrict(c, Visible) \in Data
  BY DEF Restrict, Data, Config, Visible
<1>2. GetConfig(c) \in Data
  BY <1>1, NarrowedType DEF GetConfig
<1> QED BY <1>2, DoubleType DEF Form, Data
LEMMA MergedType ==
    ASSUME NEW c \in Config, NEW r \in Data
    PROVE  Merged(c, r) \in Config
BY DEF Merged, Config, Data, Visible
LEMMA LoadedType ==
    ASSUME NEW f, Storable(f), NEW d \in Config
    PROVE  Loaded(f, d) \in Config
<1>1. \A x \in DOMAIN f : f[x] \in Int
  BY DEF Storable
<1>2. \A x \in DOMAIN Converted(f) : Converted(f)[x] \in Int
  BY <1>1, ConfigurationConstants DEF Converted
<1> QED BY <1>2 DEF Loaded, Config
LEMMA LoadedWhole ==
    ASSUME NEW f \in Config, NEW d
    PROVE  Loaded(f, d) = f
<1>1. DOMAIN f = Fields /\ "ttl" \in Fields /\ f = [x \in Fields |-> f[x]]
  BY DEF Config, Fields
<1>2. Converted(f) = f
  BY <1>1 DEF Converted
<1>3. Loaded(f, d) = [x \in Fields |-> f[x]]
  BY <1>1, <1>2 DEF Loaded
<1> QED BY <1>1, <1>3

-----------------------------------------------------------------------------
(* Configuration *)

\* An update that passed the page passed its schema, and between its two writes
\* nobody else changes the copy it read: the fields no page shows are equal.
UpdateSound(a) ==
    /\ updates[a].pc # "idle" =>
         /\ updates[a].page \in PageType
         /\ Valid(updates[a].page.base)
         /\ Schema(updates[a].page.form)
    /\ updates[a].pc \in {"read", "written", "rebalance"} => updates[a].old \in Config
    /\ updates[a].pc \in {"read", "written"} => updates[a].old["registry"] = memory["registry"]
PageSound(a) == pages[a] # Absent => pages[a] \in PageType /\ Valid(pages[a].base)

\* config.json and the copy agree but for the time a save takes between them.
FileAhead ==
    /\ \A a, b \in Admins : Writing(a) /\ Writing(b) => a = b
    /\ \A a \in Admins : Writing(a) => file = NewConfig(a)
    /\ Readable => file = memory

ConfigurationInv ==
    /\ file \in Config /\ Valid(file)
    /\ memory \in Config /\ Valid(memory)
    /\ pages \in [Admins -> PageType \cup {Absent}]
    /\ updates \in [Admins -> UpdateType]
    /\ \A a \in Admins : PageSound(a) /\ UpdateSound(a)
    /\ FileAhead

LEMMA NewConfigType ==
    ASSUME NEW a \in Admins, UpdateSound(a), updates[a].pc \in {"read", "written", "rebalance"}
    PROVE  NewConfig(a) \in Config
<1>1. updates[a].page.form \in Data /\ updates[a].old \in Config
  BY DEF UpdateSound, PageType
<1> QED BY <1>1, NarrowedType, MergedType DEF NewConfig, Sent

LEMMA RegistryStays ==
    ASSUME NEW a \in Admins, UpdateSound(a), updates[a].pc \in {"read", "written"}
    PROVE  NewConfig(a)["registry"] = memory["registry"]
BY DEF UpdateSound, NewConfig, Merged, Visible, Fields

\* An update goes on, and writes neither the file nor the copy.
LEMMA UpdateGoesOn ==
    ASSUME ConfigurationInv, NEW a \in Admins, NEW r \in UpdateType,
           updates' = [updates EXCEPT ![a] = r],
           ~Writing(a), r.pc # "written",
           UNCHANGED <<file, memory>>,
           pages' \in [Admins -> PageType \cup {Absent}],
           \A b \in Admins : PageSound(b)',
           UpdateSound(a)'
    PROVE  ConfigurationInv'
<1>1. updates' \in [Admins -> UpdateType] /\ updates'[a] = r
      /\ \A b \in Admins : b # a => updates'[b] = updates[b]
  BY DEF ConfigurationInv
<1>2. \A b \in Admins : UpdateSound(b)'
  BY <1>1 DEF ConfigurationInv, UpdateSound
<1>3. \A b \in Admins : /\ Writing(b)' <=> Writing(b)
                        /\ Writing(b) => NewConfig(b)' = NewConfig(b)
  BY <1>1 DEF Writing, NewConfig
<1>4. FileAhead'
  BY <1>3 DEF ConfigurationInv, FileAhead, Readable
<1> QED BY <1>1, <1>2, <1>4 DEF ConfigurationInv

LEMMA LoadPageKeeps ==
    ASSUME ConfigurationInv, NEW a \in Admins, LoadPage(a)
    PROVE  ConfigurationInv'
<1> DEFINE page == [base |-> memory, form |-> Form(memory)]
<1>1. page \in PageType /\ Valid(page.base)
  BY FormType DEF ConfigurationInv, PageType
<1>2. pages' = [pages EXCEPT ![a] = page]
  BY DEF LoadPage
<1> HIDE DEF page
<1>3. pages' \in [Admins -> PageType \cup {Absent}]
  BY <1>1, <1>2 DEF ConfigurationInv
<1>4. \A b \in Admins : PageSound(b)'
  BY <1>1, <1>2 DEF ConfigurationInv, PageSound
<1>5. UNCHANGED <<file, memory, updates>>
  BY DEF LoadPage
<1>6. \A b \in Admins : UpdateSound(b)'
  BY <1>5 DEF ConfigurationInv, UpdateSound
<1>7. FileAhead'
  BY <1>5 DEF ConfigurationInv, FileAhead, Readable, Writing, NewConfig
<1> QED BY <1>3, <1>4, <1>5, <1>6, <1>7 DEF ConfigurationInv

LEMMA SavePageKeeps ==
    ASSUME ConfigurationInv, NEW a \in Admins, NEW input \in Inputs, SavePage(a, input)
    PROVE  ConfigurationInv'
<1> DEFINE form == [pages[a].form EXCEPT ![input[1]] = input[2]]
           page == [base |-> pages[a].base, form |-> form]
           r    == [NoUpdate EXCEPT !.pc = "sent", !.page = page]
<1>1. pages[a] \in PageType /\ Valid(pages[a].base)
  BY DEF SavePage, ConfigurationInv, PageSound
<1>2. form \in Data
  BY <1>1, ConfigurationConstants DEF PageType, Data
<1> HIDE DEF form
<1>3. page \in PageType /\ Valid(page.base)
  BY <1>1, <1>2 DEF PageType
<1>4. pages' = [pages EXCEPT ![a].form = form]
  BY DEF SavePage, form
<1>5. [pages[a] EXCEPT !.form = form] = page
  BY <1>1 DEF PageType
<1>6. pages'[a] = page /\ \A b \in Admins : b # a => pages'[b] = pages[b]
  BY <1>4, <1>5 DEF ConfigurationInv
<1>7. pages' = [pages EXCEPT ![a] = page]
  BY <1>4, <1>5
<1> HIDE DEF page
<1>8. pages' \in [Admins -> PageType \cup {Absent}]
  BY <1>3, <1>7 DEF ConfigurationInv
<1>9. \A b \in Admins : PageSound(b)'
  BY <1>3, <1>6 DEF ConfigurationInv, PageSound
<1>10. Schema(page.form)
  BY <1>6 DEF SavePage
<1>11. updates' = [updates EXCEPT ![a] = r]
  BY <1>6 DEF SavePage
<1>12. r \in UpdateType /\ r.pc = "sent" /\ r.page = page
  BY <1>3 DEF UpdateType, NoUpdate
<1> HIDE DEF r
<1>13. updates'[a] = r
  BY <1>11 DEF ConfigurationInv
<1>14. UpdateSound(a)'
  BY <1>3, <1>10, <1>12, <1>13 DEF UpdateSound
<1>15. ~Writing(a) /\ r.pc # "written" /\ UNCHANGED <<file, memory>>
  BY <1>12 DEF SavePage, Writing
<1> QED BY <1>8, <1>9, <1>11, <1>12, <1>14, <1>15, UpdateGoesOn

\* The other steps of an update.
LEMMA PagesStay ==
    ASSUME ConfigurationInv, UNCHANGED pages
    PROVE  /\ pages' \in [Admins -> PageType \cup {Absent}]
           /\ \A b \in Admins : PageSound(b)'
BY DEF ConfigurationInv, PageSound

LEMMA ReadOldKeeps ==
    ASSUME ConfigurationInv, NEW a \in Admins, ReadOld(a)
    PROVE  ConfigurationInv'
<1> DEFINE r == [updates[a] EXCEPT !.pc = "read", !.old = memory]
<1>1. updates[a] \in UpdateType /\ memory \in Config /\ updates[a].pc = "sent" /\ UpdateSound(a)
  BY DEF ReadOld, ConfigurationInv
<1>2. r \in UpdateType
  BY <1>1 DEF UpdateType
<1>3. r.pc = "read" /\ r.page = updates[a].page /\ r.old = memory
  BY <1>1 DEF UpdateType
<1>4. updates' = [updates EXCEPT ![a] = r]
  BY DEF ConfigurationInv, ReadOld
<1> HIDE DEF r
<1>5. updates'[a] = r /\ UNCHANGED <<file, memory, pages>>
  BY <1>4 DEF ConfigurationInv, ReadOld
<1>6. UpdateSound(a)'
  BY <1>1, <1>3, <1>5 DEF UpdateSound
<1>7. ~Writing(a) /\ r.pc # "written"
  BY <1>1, <1>3 DEF Writing
<1> QED BY <1>2, <1>4, <1>5, <1>6, <1>7, PagesStay, UpdateGoesOn

LEMMA UpdateEnds ==
    ASSUME ConfigurationInv, NEW a \in Admins, ~Writing(a), Goes(a, "idle"),
           UNCHANGED <<file, memory, pages>>
    PROVE  ConfigurationInv'
<1>1. updates' = [updates EXCEPT ![a] = NoUpdate]
  BY DEF Goes
<1>2. NoUpdate \in UpdateType /\ NoUpdate.pc = "idle"
  BY DEF NoUpdate, UpdateType
<1>3. updates'[a] = NoUpdate
  BY <1>1 DEF ConfigurationInv
<1>4. UpdateSound(a)'
  BY <1>2, <1>3 DEF UpdateSound
<1> QED BY <1>1, <1>2, <1>4, PagesStay, UpdateGoesOn

LEMMA WriteFileKeeps ==
    ASSUME ConfigurationInv, NEW a \in Admins, WriteFile(a)
    PROVE  ConfigurationInv'
<1> DEFINE r == [pc |-> "written", page |-> updates[a].page, old |-> updates[a].old]
<1>1. /\ updates[a] \in UpdateType /\ updates[a].pc = "read" /\ UpdateSound(a)
      /\ UNCHANGED <<memory, pages>>
  BY DEF WriteFile, ConfigurationInv
<1>2. r \in UpdateType
  BY <1>1 DEF UpdateType
<1>3. [updates[a] EXCEPT !.pc = "written"] = r
  BY <1>1 DEF UpdateType
<1>4. updates' = [updates EXCEPT ![a] = r]
  BY <1>3 DEF WriteFile, Goes
<1>5. updates'[a] = r /\ \A b \in Admins : b # a => updates'[b] = updates[b]
  BY <1>4 DEF ConfigurationInv
<1>6. updates' \in [Admins -> UpdateType]
  BY <1>2, <1>4 DEF ConfigurationInv
<1>7. \A b \in Admins : UpdateSound(b)'
  BY <1>1, <1>5 DEF UpdateSound, ConfigurationInv
<1>8. NewConfig(a) \in Config
  BY <1>1, NewConfigType
<1>9. file' = NewConfig(a) /\ Valid(NewConfig(a))
  BY DEF WriteFile, Accepted
<1>10. NewConfig(a)' = NewConfig(a)
  BY <1>5 DEF NewConfig
<1>11. \A b \in Admins : Writing(b)' <=> b = a
  BY <1>5 DEF WriteFile, Readable, Writing
<1>12. FileAhead'
  BY <1>9, <1>10, <1>11 DEF FileAhead, Readable
<1> HIDE DEF r
<1> QED BY <1>1, <1>6, <1>7, <1>8, <1>9, <1>12, PagesStay DEF ConfigurationInv

LEMMA SetMemoryKeeps ==
    ASSUME ConfigurationInv, NEW a \in Admins, SetMemory(a)
    PROVE  ConfigurationInv'
<1>1. /\ updates[a] \in UpdateType /\ updates[a].pc = "written" /\ UpdateSound(a) /\ Writing(a)
      /\ UNCHANGED <<file, pages>>
  BY DEF SetMemory, Writing, ConfigurationInv
<1>2. memory' = NewConfig(a) /\ file = NewConfig(a)
  BY <1>1 DEF SetMemory, ConfigurationInv, FileAhead
<1>3. memory'["registry"] = memory["registry"]
  BY <1>1, <1>2, RegistryStays
<1> DEFINE rest == [pc |-> "rebalance", page |-> updates[a].page, old |-> updates[a].old]
<1>4. \E r \in {NoUpdate, rest} : updates' = [updates EXCEPT ![a] = r]
  <2>1. [updates[a] EXCEPT !.pc = "rebalance"] = rest
    BY <1>1 DEF UpdateType
  <2>2. Goes(a, "idle") \/ Goes(a, "rebalance")
    BY DEF SetMemory
  <2> QED BY <2>1, <2>2 DEF Goes
<1>5. PICK r \in {NoUpdate, rest} : updates' = [updates EXCEPT ![a] = r]
  BY <1>4
<1>6. r \in UpdateType /\ r.pc \in {"idle", "rebalance"}
  BY <1>1 DEF UpdateType, NoUpdate
<1>7. r.pc = "rebalance" => r = rest
  BY DEF NoUpdate
<1>8. updates'[a] = r /\ \A b \in Admins : b # a => updates'[b] = updates[b]
  BY <1>5 DEF ConfigurationInv
<1>9. updates' \in [Admins -> UpdateType]
  BY <1>5, <1>6 DEF ConfigurationInv
<1>10. UpdateSound(a)'
  BY <1>1, <1>6, <1>7, <1>8 DEF UpdateSound
<1>11. \A b \in Admins : b # a => UpdateSound(b)'
  BY <1>3, <1>8 DEF UpdateSound, ConfigurationInv
<1>12. \A b \in Admins : ~Writing(b)'
  BY <1>1, <1>6, <1>8 DEF Writing, ConfigurationInv, FileAhead
<1>13. FileAhead'
  BY <1>1, <1>2, <1>12 DEF FileAhead, Readable
<1>14. file' = memory'
  BY <1>1, <1>2
<1> QED BY <1>1, <1>9, <1>10, <1>11, <1>13, <1>14, PagesStay DEF ConfigurationInv

LEMMA ReloadKeeps ==
    ASSUME ConfigurationInv, NEW f \in Files \cup {file}, Reload(f)
    PROVE  ConfigurationInv'
<1>1. Storable(f)
  BY ConfigurationConstants DEF ConfigurationInv, Storable, Config
<1>2. PICK d \in Defaults : Valid(Loaded(f, d)) /\ file' = Loaded(f, d) /\ memory' = Loaded(f, d)
  BY DEF Reload
<1>3. Loaded(f, d) \in Config
  BY <1>1, LoadedType, ConfigurationConstants
<1>4. updates' = [a \in Admins |-> NoUpdate] /\ UNCHANGED pages
  BY DEF Reload
<1>5. NoUpdate \in UpdateType /\ NoUpdate.pc = "idle"
  BY DEF NoUpdate, UpdateType
<1>6. updates' \in [Admins -> UpdateType] /\ \A a \in Admins : UpdateSound(a)' /\ ~Writing(a)'
  BY <1>4, <1>5 DEF UpdateSound, Writing
<1>7. FileAhead'
  BY <1>2, <1>6 DEF FileAhead
<1> QED BY <1>2, <1>3, <1>4, <1>6, <1>7, PagesStay DEF ConfigurationInv

-----------------------------------------------------------------------------
(* Builder *)

\* Of any of the running builds, one was allowed as many as they are: the one
\* that took its slot last.
SlotsInv ==
    /\ active \in Nat /\ copy \in Int
    /\ jobs \in [Jobs -> JobType]
    /\ active = Cardinality(RunningJobs)
    /\ \A S \in SUBSET RunningJobs :
         S # {} => \E j \in S : Cardinality(S) <= AtLeastOne(jobs[j].limit)

LEMMA RunningIsFinite == IsFiniteSet(RunningJobs) /\ Cardinality(RunningJobs) \in Nat
<1>1. IsFiniteSet(RunningJobs)
  BY ConfigurationConstants, FS_Subset DEF RunningJobs
<1> QED BY <1>1, FS_CardinalityType

LEMMA JobGoesOn ==
    ASSUME SlotsInv, NEW j \in Jobs, NEW pc, NEW limit \in Int, SetJob(j, pc, limit),
           pc \in {"refreshed", "waiting", "running", "done"}
    PROVE  /\ jobs' \in [Jobs -> JobType]
           /\ jobs'[j].pc = pc /\ jobs'[j].limit = limit
           /\ \A i \in Jobs : i # j => jobs'[i] = jobs[i]
<1> DEFINE r == [pc |-> pc, limit |-> limit]
<1>1. r \in JobType /\ r.pc = pc /\ r.limit = limit
  BY DEF JobType
<1>2. jobs' = [jobs EXCEPT ![j] = r] /\ jobs \in [Jobs -> JobType]
  BY DEF SetJob, SlotsInv
<1> HIDE DEF r
<1> QED BY <1>1, <1>2

\* A build that does not run, before and after.
LEMMA IdleJob ==
    ASSUME SlotsInv, NEW j \in Jobs, NEW pc, NEW limit \in Int, SetJob(j, pc, limit),
           pc \in {"refreshed", "waiting", "done"}, jobs[j].pc # "running",
           copy' \in Int, active' = active
    PROVE  SlotsInv'
<1>1. /\ jobs' \in [Jobs -> JobType] /\ jobs'[j].pc = pc
      /\ \A i \in Jobs : i # j => jobs'[i] = jobs[i]
  BY JobGoesOn
<1>2. RunningJobs' = RunningJobs
  BY <1>1 DEF RunningJobs
<1>3. ASSUME NEW S \in SUBSET RunningJobs', S # {}
      PROVE  \E i \in S : Cardinality(S) <= AtLeastOne(jobs'[i].limit)
  <2>1. PICK i \in S : Cardinality(S) <= AtLeastOne(jobs[i].limit)
    BY <1>2, <1>3 DEF SlotsInv
  <2>2. i \in Jobs /\ i # j
    BY <1>2 DEF RunningJobs
  <2> QED BY <1>1, <2>1, <2>2
<1> QED BY <1>1, <1>2, <1>3 DEF SlotsInv, AtLeastOne

LEMMA TakesSlot ==
    ASSUME SlotsInv, NEW j \in Jobs, AcquireSlot(j)
    PROVE  SlotsInv'
<1> DEFINE limit == jobs[j].limit
<1>1. limit \in Int /\ jobs[j].pc = "waiting" /\ SetJob(j, "running", limit)
  BY DEF AcquireSlot, SlotsInv, JobType
<1>2. /\ jobs' \in [Jobs -> JobType] /\ jobs'[j].pc = "running" /\ jobs'[j].limit = limit
      /\ \A i \in Jobs : i # j => jobs'[i] = jobs[i]
  BY <1>1, JobGoesOn
<1>3. active' = active + 1 /\ active < AtLeastOne(limit) /\ copy' = copy
      /\ AtLeastOne(limit) \in Nat
  BY <1>1 DEF AcquireSlot, SlotFree, AtLeastOne
<1> HIDE DEF limit
<1>4. RunningJobs' = RunningJobs \cup {j} /\ j \notin RunningJobs
  BY <1>1, <1>2 DEF RunningJobs
<1>5. Cardinality(RunningJobs') = active + 1 /\ active' \in Nat
      /\ IsFiniteSet(RunningJobs')
  BY <1>3, <1>4, RunningIsFinite, FS_AddElement DEF SlotsInv
<1>6. ASSUME NEW S \in SUBSET RunningJobs', S # {}
      PROVE  \E i \in S : Cardinality(S) <= AtLeastOne(jobs'[i].limit)
  <2>1. CASE j \in S
    <3>1. Cardinality(S) <= active + 1 /\ Cardinality(S) \in Nat
      BY <1>5, <1>6, FS_Subset, FS_CardinalityType
    <3>2. Cardinality(S) <= AtLeastOne(limit)
      BY <1>3, <3>1 DEF SlotsInv
    <3> QED BY <1>2, <2>1, <3>2
  <2>2. CASE j \notin S
    <3>1. S \in SUBSET RunningJobs
      BY <1>4, <2>2
    <3>2. PICK i \in S : Cardinality(S) <= AtLeastOne(jobs[i].limit)
      BY <1>6, <3>1 DEF SlotsInv
    <3>3. i \in Jobs /\ i # j
      BY <2>2, <3>1 DEF RunningJobs
    <3> QED BY <1>2, <3>2, <3>3
  <2> QED BY <2>1, <2>2
<1> QED BY <1>2, <1>3, <1>5, <1>6 DEF SlotsInv

LEMMA GivesSlot ==
    ASSUME SlotsInv, NEW j \in Jobs, ReleaseSlot(j)
    PROVE  SlotsInv'
<1> DEFINE limit == jobs[j].limit
<1>1. limit \in Int /\ jobs[j].pc = "running" /\ SetJob(j, "done", limit)
  BY DEF ReleaseSlot, SlotsInv, JobType
<1>2. /\ jobs' \in [Jobs -> JobType] /\ jobs'[j].pc = "done"
      /\ \A i \in Jobs : i # j => jobs'[i] = jobs[i]
  BY <1>1, JobGoesOn
<1>3. RunningJobs' = RunningJobs \ {j} /\ j \in RunningJobs
  BY <1>1, <1>2 DEF RunningJobs
<1>4. Cardinality(RunningJobs') = active - 1
  BY <1>3, RunningIsFinite, FS_RemoveElement DEF SlotsInv
<1>5. active # 0
  BY <1>3, RunningIsFinite, FS_EmptySet DEF SlotsInv
<1>6. active' = active - 1 /\ active' \in Nat /\ copy' = copy
  BY <1>5 DEF ReleaseSlot, SlotsInv
<1>7. ASSUME NEW S \in SUBSET RunningJobs', S # {}
      PROVE  \E i \in S : Cardinality(S) <= AtLeastOne(jobs'[i].limit)
  <2>1. PICK i \in S : Cardinality(S) <= AtLeastOne(jobs[i].limit)
    BY <1>3, <1>7 DEF SlotsInv
  <2>2. i \in Jobs /\ i # j
    BY <1>3 DEF RunningJobs
  <2> QED BY <1>2, <2>1, <2>2
<1> QED BY <1>2, <1>4, <1>6, <1>7 DEF SlotsInv

LEMMA JobKeeps ==
    ASSUME SlotsInv, memory \in Config, NEW j \in Jobs, JobStep(j)
    PROVE  SlotsInv'
<1>1. jobs[j] \in JobType /\ jobs[j].limit \in Int /\ copy \in Int
  BY DEF SlotsInv, JobType
<1>2. CASE Refresh(j)
  <2>1. Int32(memory["slots"]) \in Int
    BY Int32Type DEF Config, Fields
  <2> QED BY <1>1, <1>2, <2>1, IdleJob DEF Refresh
<1>3. CASE Store(j)
  BY <1>1, <1>3, IdleJob DEF Store
<1>4. CASE RefreshFails(j)
  BY <1>1, <1>4, IdleJob DEF RefreshFails
<1>5. CASE GiveUp(j)
  BY <1>1, <1>5, IdleJob DEF GiveUp
<1> QED BY <1>2, <1>3, <1>4, <1>5, TakesSlot, GivesSlot DEF JobStep

-----------------------------------------------------------------------------
(* Reports *)

\* Collections are numbered; what the last one stored is all of what it found.
Complete ==
    /\ \A u \in DOMAIN worker.found : \E s \in snapshots :
         s.owner = u /\ s.n = worker.n /\ s.bucket = worker.bucket
    /\ \A s \in snapshots : s.n = worker.n => s.usage = worker.found[s.owner]
ReportsInv ==
    /\ clock \in Nat
    /\ worker.n \in Nat /\ worker.bucket \in Int /\ worker.deadline \in Nat
    /\ DOMAIN worker = {"pc", "n", "bucket", "found", "deadline"}
    /\ stored \in Nat /\ stored <= worker.n
    /\ worker.pc \in {"query", "insert"} => stored < worker.n
    /\ \A s \in snapshots : s.n \in Nat /\ s.bucket \in Int /\ s.n <= stored
    /\ worker.pc = "waiting" /\ stored = worker.n => Complete

\* A step of the worker that keeps what is stored.
LEMMA WorkerGoesOn ==
    ASSUME ReportsInv, clock' \in Nat, UNCHANGED <<snapshots, stored>>,
           worker'.n \in Nat, worker'.bucket \in Int, worker'.deadline \in Nat,
           DOMAIN worker' = DOMAIN worker,
           worker'.n >= worker.n,
           worker'.pc \in {"query", "insert", "waiting"} => stored < worker'.n
    PROVE  ReportsInv'
BY DEF ReportsInv

LEMMA CollectsKeeps ==
    ASSUME ReportsInv, memory \in Config, Valid(memory), Collects, UNCHANGED <<clock, snapshots, stored>>
    PROVE  ReportsInv'
<1> DEFINE t == Truncate(clock, memory["interval"])
<1>1. memory["interval"] \in Nat \ {0}
  BY ConfigurationConstants DEF Valid
<1>2. t \in Int
  BY <1>1, ReportConstants DEF Truncate, ReportsInv
<1> HIDE DEF t
<1>3. worker' = [worker EXCEPT !.pc = "query", !.n = @ + 1, !.bucket = t]
  BY DEF Collects, t
<1>4. DOMAIN worker = {"pc", "n", "bucket", "found", "deadline"}
  BY DEF ReportsInv
<1>5. /\ worker'.pc = "query" /\ worker'.n = worker.n + 1 /\ worker'.bucket = t
      /\ worker'.deadline = worker.deadline /\ DOMAIN worker' = DOMAIN worker
  BY <1>3, <1>4
<1>6. worker.n \in Nat /\ worker.deadline \in Nat /\ stored \in Nat /\ stored <= worker.n /\ clock \in Nat
  BY DEF ReportsInv
<1> QED BY <1>2, <1>5, <1>6, WorkerGoesOn

LEMMA QueryKeeps ==
    ASSUME ReportsInv, Query
    PROVE  ReportsInv'
<1> DEFINE found == [u \in Owners |-> Usage(u)]
<1>1. worker' = [worker EXCEPT !.pc = "insert", !.found = found] /\ worker.pc = "query"
      /\ UNCHANGED <<clock, snapshots, stored>>
  BY DEF Query
<1> HIDE DEF found
<1>2. DOMAIN worker = {"pc", "n", "bucket", "found", "deadline"}
  BY DEF ReportsInv
<1>3. /\ worker'.pc = "insert" /\ worker'.n = worker.n /\ worker'.bucket = worker.bucket
      /\ worker'.deadline = worker.deadline /\ DOMAIN worker' = DOMAIN worker
  BY <1>1, <1>2
<1>4. /\ worker.n \in Nat /\ worker.deadline \in Nat /\ worker.bucket \in Int
      /\ stored < worker.n /\ clock \in Nat
  BY <1>1 DEF ReportsInv
<1> QED BY <1>1, <1>3, <1>4, WorkerGoesOn

LEMMA WaitsTyped ==
    ASSUME ReportsInv, memory \in Config, Valid(memory), Waits
    PROVE  /\ worker'.pc = "waiting" /\ worker'.n = worker.n /\ worker'.bucket = worker.bucket
           /\ worker'.found = worker.found
           /\ worker'.deadline \in Nat /\ DOMAIN worker' = DOMAIN worker
<1>0. memory["interval"] \in Nat
  BY ConfigurationConstants DEF Valid
<1>1. clock + memory["interval"] \in Nat
  BY <1>0 DEF ReportsInv
<1>2. DOMAIN worker = {"pc", "n", "bucket", "found", "deadline"}
  BY DEF ReportsInv
<1> QED BY <1>1, <1>2 DEF Waits

LEMMA CollectionFailsKeeps ==
    ASSUME ReportsInv, memory \in Config, Valid(memory), CollectionFails
    PROVE  ReportsInv'
<1>1. /\ worker'.pc = "waiting" /\ worker'.n = worker.n /\ worker'.bucket = worker.bucket
      /\ worker'.deadline \in Nat /\ DOMAIN worker' = DOMAIN worker
  BY WaitsTyped DEF CollectionFails
<1>2. /\ stored < worker.n /\ worker.n \in Nat /\ worker.bucket \in Int /\ clock \in Nat
      /\ UNCHANGED <<clock, snapshots, stored>>
  BY DEF CollectionFails, ReportsInv
<1> QED BY <1>1, <1>2, WorkerGoesOn

LEMMA InsertKeeps ==
    ASSUME ReportsInv, memory \in Config, Valid(memory), Insert
    PROVE  ReportsInv'
<1> DEFINE Row(u) == [owner |-> u, bucket |-> worker.bucket, n |-> worker.n,
                      usage |-> worker.found[u]]
<1>1. /\ worker'.pc = "waiting" /\ worker'.n = worker.n /\ worker'.bucket = worker.bucket
      /\ worker'.found = worker.found
      /\ worker'.deadline \in Nat /\ DOMAIN worker' = DOMAIN worker
  BY WaitsTyped DEF Insert
<1>2. /\ stored < worker.n /\ stored \in Nat /\ worker.n \in Nat /\ worker.bucket \in Int /\ clock \in Nat
      /\ stored' = worker.n /\ clock' = clock
  BY DEF Insert, ReportsInv
<1>3. snapshots' = snapshots \cup {Row(u) : u \in DOMAIN worker.found}
  BY DEF Insert
<1>4. \A u \in DOMAIN worker.found : /\ Row(u).owner = u /\ Row(u).bucket = worker.bucket
                                      /\ Row(u).n = worker.n /\ Row(u).usage = worker.found[u]
  OBVIOUS
<1> HIDE DEF Row
<1>5. \A s \in snapshots : s.n \in Nat /\ s.bucket \in Int /\ s.n <= stored
  BY DEF ReportsInv
<1>6. \A s \in snapshots' : s.n \in Nat /\ s.bucket \in Int /\ s.n <= worker.n
  BY <1>2, <1>3, <1>4, <1>5
<1>7. \A s \in snapshots' : s.n = worker.n => s.usage = worker.found[s.owner]
  BY <1>2, <1>3, <1>4, <1>5
<1>8. \A u \in DOMAIN worker.found : \E s \in snapshots' :
         s.owner = u /\ s.n = worker.n /\ s.bucket = worker.bucket
  BY <1>3, <1>4
<1>9. Complete'
  BY <1>1, <1>7, <1>8 DEF Complete
<1>10. DOMAIN worker = {"pc", "n", "bucket", "found", "deadline"}
  BY DEF ReportsInv
<1> QED BY <1>1, <1>2, <1>6, <1>9, <1>10 DEF ReportsInv

LEMMA WorkerRestartsKeeps ==
    ASSUME ReportsInv, WorkerRestarts
    PROVE  ReportsInv'
<1>1. /\ worker'.pc = "start" /\ worker'.n = worker.n /\ worker'.bucket = 0 /\ worker'.deadline = 0
      /\ DOMAIN worker' = {"pc", "n", "bucket", "found", "deadline"}
      /\ UNCHANGED <<clock, snapshots, stored>>
  BY DEF WorkerRestarts, Started
<1> QED BY <1>1 DEF ReportsInv

LEMMA ReportsKeep ==
    ASSUME ReportsInv, memory \in Config, Valid(memory),
           WorkerStep \/ Tick \/ AskRefresh \/ CollectionFails \/ WorkerRestarts
    PROVE  ReportsInv'
<1>1. CASE BeginFirst \/ BeginAsked \/ BeginTimed
  <2>1. Collects /\ UNCHANGED <<clock, snapshots, stored>>
    BY <1>1 DEF BeginFirst, BeginAsked, BeginTimed
  <2> QED BY <2>1, CollectsKeeps
<1>2. CASE Tick
  BY <1>2 DEF Tick, ReportsInv, Complete
<1>3. CASE AskRefresh
  BY <1>3 DEF AskRefresh, ReportsInv, Complete
<1> QED
  BY <1>1, <1>2, <1>3, QueryKeeps, InsertKeeps, CollectionFailsKeeps, WorkerRestartsKeeps
  DEF WorkerStep

LEMMA CurrentReport ==
    ASSUME ReportsInv, ReportConstants
    PROVE  ReportIsCurrent
<1> SUFFICES ASSUME worker.pc = "waiting", stored = worker.n,
                    worker.deadline - worker.bucket <= Day,
                    NEW opened \in (worker.bucket + 1)..clock, opened <= worker.deadline,
                    NEW u \in DOMAIN worker.found
             PROVE  Listed(u, opened) = worker.found[u]
  BY DEF ReportIsCurrent
<1> DEFINE set == InWindow(u, opened - Day, opened)
<1>1. /\ worker.n \in Nat /\ worker.bucket \in Int /\ worker.deadline \in Nat /\ clock \in Nat
      /\ Complete
      /\ \A s \in snapshots : s.n \in Nat /\ s.n <= worker.n
  BY DEF ReportsInv
<1>2. Day \in Nat /\ opened \in Int /\ worker.bucket < opened
  BY <1>1, ReportConstants
<1>3. opened - Day <= worker.bucket
  BY <1>1, <1>2
<1>4. PICK s \in snapshots : s.owner = u /\ s.n = worker.n /\ s.bucket = worker.bucket
  BY <1>1 DEF Complete
<1>5. s \in set
  BY <1>2, <1>3, <1>4 DEF InWindow
<1>6. set \subseteq snapshots /\ \A t \in set : t.owner = u
  BY DEF InWindow
<1> HIDE DEF set
<1>7. \A t \in set : t.n <= s.n
  BY <1>1, <1>4, <1>6
<1>8. Latest(set) \in set /\ \A t \in set : t.n <= Latest(set).n
  BY <1>5, <1>7 DEF Latest
<1>9. Latest(set).n = worker.n /\ Latest(set).owner = u
  BY <1>1, <1>4, <1>5, <1>6, <1>8
<1>10. Latest(set).usage = worker.found[u]
  BY <1>1, <1>6, <1>8, <1>9 DEF Complete
<1> QED BY <1>10 DEF Listed, set

-----------------------------------------------------------------------------
(* The composition *)

AdministrationInv ==
    /\ ConfigurationInv
    /\ SlotsInv
    /\ ReportsInv
    /\ mix \in MixType

LEMMA ConfigurationStays ==
    ASSUME ConfigurationInv, UNCHANGED configVars
    PROVE  ConfigurationInv'
BY DEF configVars, ConfigurationInv, UpdateSound, PageSound, FileAhead, Readable, Writing, NewConfig

LEMMA SlotsStay ==
    ASSUME SlotsInv, UNCHANGED builderVars
    PROVE  SlotsInv'
BY DEF builderVars, SlotsInv, RunningJobs

LEMMA ReportsStay ==
    ASSUME ReportsInv, UNCHANGED reportVars
    PROVE  ReportsInv'
BY DEF reportVars, ReportsInv, Complete

\* What an administrator does.
Administers(a) ==
    \/ LoadPage(a) \/ (\E input \in Inputs : SavePage(a, input))
    \/ ReadOld(a) \/ WriteFile(a) \/ Refuse(a) \/ SetMemory(a) \/ AsksRebalance(a) \/ SaveFails(a)

LEMMA AdministratorKeeps ==
    ASSUME ConfigurationInv, NEW a \in Admins, Administers(a)
    PROVE  ConfigurationInv' /\ UNCHANGED builderVars
<1>1. CASE Refuse(a)
  BY <1>1, UpdateEnds DEF Refuse, Writing
<1>2. CASE AsksRebalance(a)
  BY <1>2, UpdateEnds DEF AsksRebalance, Writing
<1>3. CASE SaveFails(a)
  BY <1>3, UpdateEnds DEF SaveFails, Writing
<1>4. ConfigurationInv'
  BY <1>1, <1>2, <1>3, LoadPageKeeps, SavePageKeeps, ReadOldKeeps, WriteFileKeeps, SetMemoryKeeps
  DEF Administers
<1>5. UNCHANGED builderVars
  BY DEF Administers, LoadPage, SavePage, ReadOld, WriteFile, Refuse, SetMemory, AsksRebalance,
         SaveFails
<1> QED BY <1>4, <1>5

\* Every step of the composition is one of one part, and a step or a stutter of
\* admission.
LEMMA Parts ==
    ASSUME AllNext, mix \in MixType
    PROVE  /\ mix' = mix
           /\ [Next]_vars
           /\ \/ UNCHANGED <<configVars, builderVars, reportVars>>
              \/ \E a \in Admins : Administers(a) /\ UNCHANGED reportVars
              \/ \E j \in Jobs : JobStep(j) /\ UNCHANGED <<configVars, reportVars>>
              \/ /\ WorkerStep \/ Tick \/ AskRefresh \/ CollectionFails
                 /\ UNCHANGED <<configVars, builderVars>>
              \/ \E f \in Files \cup {file} : Reload(f) /\ WorkerRestarts
<1>0. mix.admins \subseteq Admins /\ mix.inputs \subseteq Inputs /\ mix.files \subseteq Files
  BY DEF MixType
<1>1. CASE Admits
  BY <1>1 DEF Admits, Next, counting
<1>2. ASSUME NEW a \in mix.admins, Loads(a) \/ Sends(a) \/ Saves(a) \/ Fails(a)
      PROVE  /\ Administers(a) /\ UNCHANGED <<mix, reportVars>>
             /\ [Next]_vars
  <2>1. CASE Loads(a)
    BY <2>1 DEF Loads, Administers, Count
  <2>2. CASE Sends(a)
    BY <1>0, <2>2 DEF Sends, Administers, Count
  <2>3. CASE Handles(a)
    BY <2>3 DEF Handles, Administers, counting
  <2>4. CASE Sets(a)
    <3>1. ASSUME NEW changed \in BOOLEAN, NEW stale \in BOOLEAN, Reconfigure(changed, stale)
          PROVE  ConfigStep
      BY <3>1 DEF ConfigStep
    <3>2. Reconfigure(Shares(memory) # Shares(NewConfig(a)), Overtakes(a))
      BY <2>4 DEF Sets
    <3>3. (Shares(memory) # Shares(NewConfig(a))) \in BOOLEAN /\ Overtakes(a) \in BOOLEAN
      BY DEF Overtakes
    <3>4. ConfigStep
      BY <3>1, <3>2, <3>3, Zenon
    <3> QED BY <2>4, <3>4 DEF Sets, Administers, counting, Next
  <2>5. CASE Asks(a)
    BY <2>5 DEF Asks, Administers, counting, Next, ConfigStep
  <2>6. CASE Fails(a)
    BY <2>6 DEF Fails, Administers, counting
  <2> QED BY <1>2, <2>1, <2>2, <2>3, <2>4, <2>5, <2>6 DEF Saves
<1>3. ASSUME NEW j \in Jobs, BuilderStep(j)
      PROVE  JobStep(j) /\ UNCHANGED <<configVars, mix, vars, reportVars>>
  <2>1. UNCHANGED configVars
    BY <1>3 DEF BuilderStep, JobStep, Refresh, Store, RefreshFails, AcquireSlot, ReleaseSlot, GiveUp
  <2> QED BY <1>3, <2>1 DEF BuilderStep, Count, counting
<1>4. CASE Collecting
  BY <1>4 DEF Collecting, counting
<1>5. CASE Reports
  BY <1>5 DEF Reports, Count
<1>6. ASSUME NEW f \in mix.files \cup {file}, Restarts(f)
      PROVE  Reload(f) /\ WorkerRestarts /\ mix' = mix /\ Next
  <2>1. Restart
    BY <1>6 DEF Restarts, Restart
  <2> QED BY <1>6, <2>1 DEF Restarts, counting, Next
<1> QED BY <1>0, <1>1, <1>2, <1>3, <1>4, <1>5, <1>6 DEF AllNext

LEMMA Initially ==
    ASSUME AllInit
    PROVE  AdministrationInv
<1>1. mix \in MixType
  BY AdministrationConstants DEF AllInit
<1>2. NoUpdate \in UpdateType /\ NoUpdate.pc = "idle"
  BY DEF NoUpdate, UpdateType
<1>3. /\ pages = [a \in Admins |-> Absent] /\ updates = [a \in Admins |-> NoUpdate]
      /\ active = 0 /\ jobs = [j \in Jobs |-> NewJob]
  BY DEF AllInit, ConfigurationInit
<1>4. PICK f \in Files, d \in Defaults :
         Valid(Loaded(f, d)) /\ file = Loaded(f, d) /\ memory = Loaded(f, d)
  BY DEF AllInit, ConfigurationInit
<1>5. Storable(f) /\ d \in Config
  BY ConfigurationConstants
<1>6. Loaded(f, d) \in Config
  BY <1>5, LoadedType
<1>7. \A a \in Admins : PageSound(a) /\ UpdateSound(a) /\ ~Writing(a)
  BY <1>2, <1>3 DEF PageSound, UpdateSound, Writing
<1>8. FileAhead
  BY <1>4, <1>7 DEF FileAhead
<1>9. ConfigurationInv
  BY <1>2, <1>3, <1>4, <1>6, <1>7, <1>8 DEF ConfigurationInv
<1>10. jobs \in [Jobs -> JobType] /\ RunningJobs = {}
  BY <1>3 DEF NewJob, JobType, RunningJobs
<1>11. copy \in Int
  <2>1. PICK e \in Defaults : copy = e["slots"]
    BY DEF AllInit, ConfigurationInit
  <2> QED BY <2>1, ConfigurationConstants DEF Config, Fields
<1>12. SlotsInv
  BY <1>3, <1>10, <1>11, FS_EmptySet DEF SlotsInv
<1>13. ReportsInv
  <2>1. /\ worker.pc = "start" /\ worker.n = 0 /\ worker.bucket = 0 /\ worker.deadline = 0
        /\ DOMAIN worker = {"pc", "n", "bucket", "found", "deadline"}
        /\ clock = Day /\ snapshots = {} /\ stored = 0
    BY DEF AllInit, ReportsInit, Started
  <2> QED BY <2>1, ReportConstants DEF ReportsInv
<1> QED BY <1>1, <1>9, <1>12, <1>13 DEF AdministrationInv

LEMMA Step ==
    ASSUME AdministrationInv, [AllNext]_allVars
    PROVE  AdministrationInv'
<1>1. CASE UNCHANGED allVars
  BY <1>1, ConfigurationStays, SlotsStay, ReportsStay DEF allVars, counting, AdministrationInv
<1>2. CASE AllNext
  <2>0. mix' \in MixType
    BY <1>2, Parts DEF AdministrationInv
  <2>1. CASE UNCHANGED <<configVars, builderVars, reportVars>>
    BY <2>0, <2>1, ConfigurationStays, SlotsStay, ReportsStay DEF AdministrationInv
  <2>2. ASSUME NEW a \in Admins, Administers(a), UNCHANGED reportVars
        PROVE  AdministrationInv'
    BY <2>0, <2>2, AdministratorKeeps, SlotsStay, ReportsStay DEF AdministrationInv
  <2>3. ASSUME NEW j \in Jobs, JobStep(j), UNCHANGED <<configVars, reportVars>>
        PROVE  AdministrationInv'
    <3>1. SlotsInv'
      BY <2>3, JobKeeps DEF AdministrationInv, ConfigurationInv
    <3> QED BY <2>0, <2>3, <3>1, ConfigurationStays, ReportsStay DEF AdministrationInv
  <2>4. CASE /\ WorkerStep \/ Tick \/ AskRefresh \/ CollectionFails
             /\ UNCHANGED <<configVars, builderVars>>
    <3>1. ReportsInv'
      BY <2>4, ReportsKeep DEF AdministrationInv, ConfigurationInv
    <3> QED BY <2>0, <2>4, <3>1, ConfigurationStays, SlotsStay DEF AdministrationInv
  <2>5. ASSUME NEW f \in Files \cup {file}, Reload(f), WorkerRestarts
        PROVE  AdministrationInv'
    <3>1. ReportsInv'
      BY <2>5, ReportsKeep DEF AdministrationInv, ConfigurationInv
    <3>2. ConfigurationInv'
      BY <2>5, ReloadKeeps DEF AdministrationInv
    <3>3. SlotsInv'
      BY <2>5, SlotsStay DEF Reload, AdministrationInv
    <3> QED BY <2>0, <3>1, <3>2, <3>3 DEF AdministrationInv
  <2>6. mix \in MixType
    BY DEF AdministrationInv
  <2> QED BY <1>2, <2>1, <2>2, <2>3, <2>4, <2>5, <2>6, Parts
<1> QED BY <1>1, <1>2

LEMMA AdministrationInvariant == AllSpec => []AdministrationInv
<1>1. AllInit => AdministrationInv
  BY Initially
<1>2. AdministrationInv /\ [AllNext]_allVars => AdministrationInv'
  BY Step
<1> QED BY <1>1, <1>2, PTL DEF AllSpec

-----------------------------------------------------------------------------
(* Theorems *)

\* What Core does about its configuration and its reports takes no part in
\* admission but by asking for a rebalancing: Core under administration is an
\* implementation of admission by itself.
THEOREM AdmissionImplemented == AllSpec => Spec
<1>1. AllInit => Init
  BY DEF AllInit
<1>2. AdministrationInv /\ [AllNext]_allVars => [Next]_vars
  <2>1. ASSUME UNCHANGED allVars PROVE [Next]_vars
    BY <2>1 DEF allVars, vars
  <2>2. ASSUME AdministrationInv, AllNext PROVE [Next]_vars
    BY <2>2, Parts DEF AdministrationInv
  <2> QED BY <2>1, <2>2
<1> QED BY <1>1, <1>2, AdministrationInvariant, PTL DEF AllSpec, Spec

\* Under administration too, no owner exceeds a limit.
THEOREM LimitsUnderAdministration == AllSpec => []WithinLimits
BY AdmissionImplemented, Limits, PTL

\* What is meant to run stays within quotas and host while the configuration
\* changes too.
THEOREM QuotasUnderAdministration == AllSpec => []WantedWithinQuota
BY AdmissionImplemented, Quotas, PTL

\* Core can be restarted at any moment: config.json is whole and valid, and it
\* is the configuration in force or the one that is about to be.
THEOREM RestartKeeps == AllSpec => []RestartKeepsConfig
<1>1. ASSUME AdministrationInv
      PROVE  RestartKeepsConfig
  <2>1. file \in Config /\ Valid(file) /\ FileAhead
    BY <1>1 DEF AdministrationInv, ConfigurationInv
  <2>2. \A d \in Defaults : Loaded(file, d) = file
    BY <2>1, LoadedWhole
  <2>3. file = memory \/ \E a \in Admins : Writing(a) /\ file = NewConfig(a)
    BY <2>1 DEF FileAhead, Readable
  <2> QED BY <2>1, <2>2, <2>3 DEF RestartKeepsConfig
<1> QED BY <1>1, AdministrationInvariant, PTL

\* Builder counts its running builds and never runs more of them than one of
\* them was allowed when it asked.
THEOREM Slots == AllSpec => []SlotsWithinLimit
<1>1. ASSUME AdministrationInv
      PROVE  SlotsWithinLimit
  <2>1. SlotsInv
    BY <1>1 DEF AdministrationInv
  <2>2. active = Cardinality(RunningJobs)
    BY <2>1 DEF SlotsInv
  <2>3. ASSUME active > 0
        PROVE  \E j \in RunningJobs : active <= AtLeastOne(jobs[j].limit)
    <3>1. RunningJobs # {}
      BY <2>2, <2>3, FS_EmptySet
    <3> QED BY <2>1, <2>2, <3>1 DEF SlotsInv
  <2> QED BY <2>2, <2>3 DEF SlotsWithinLimit
<1> QED BY <1>1, AdministrationInvariant, PTL

\* A page that was opened after the bucket of the last collection began lists
\* what that collection found.
THEOREM ReportsCurrent == AllSpec => []ReportIsCurrent
<1>1. AdministrationInv => ReportIsCurrent
  BY CurrentReport, ReportConstants DEF AdministrationInv
<1> QED BY <1>1, AdministrationInvariant, PTL

LEMMA FitStays ==
    ASSUME NEW c \in Config, Valid(c), NEW form \in Data, Schema(form),
           NEW x \in Visible \ Unfit(c, form)
    PROVE  Form(c)[x] = c[x] /\ Narrowed(form)[x] = form[x]
<1>1. x \in Visible /\ c[x] \in Int /\ form[x] \in Int
  BY DEF Config, Data, Visible
<1>2. /\ c[x] <= Exact /\ form[x] <= Exact
      /\ x \in Counts => c[x] < Half /\ form[x] < Half
  BY <1>1, ConfigurationConstants DEF Unfit
<1>3. DOMAIN form = Visible
  BY DEF Data
<1>4. CASE x \in Counts
  <2>1. x = "slots"
    BY <1>4 DEF Counts
  <2>2. c[x] \in Nat /\ form[x] \in Nat
    BY <1>1, <2>1 DEF Valid, Schema
  <2>3. Int32(c[x]) = c[x] /\ Int32(form[x]) = form[x]
    BY <1>2, <1>4, <2>2, Int32Fits
  <2>4. Narrowed(form)[x] = form[x]
    BY <1>1, <1>3, <1>4, <2>3 DEF Narrowed
  <2>5. GetConfig(c)[x] = c[x]
    BY <1>1, <1>4, <2>3 DEF GetConfig, Narrowed, Restrict
  <2>6. Form(c)[x] = Double(c[x])
    BY <1>1, <2>5 DEF Form
  <2> QED BY <1>2, <2>4, <2>6 DEF Double
<1>5. CASE x \notin Counts
  <2>1. Narrowed(form)[x] = form[x]
    BY <1>1, <1>3, <1>5 DEF Narrowed
  <2>2. GetConfig(c)[x] = c[x]
    BY <1>1, <1>5 DEF GetConfig, Narrowed, Restrict
  <2>3. Form(c)[x] = Double(c[x])
    BY <1>1, <2>2 DEF Form
  <2> QED BY <1>2, <2>1, <2>3 DEF Double
<1> QED BY <1>4, <1>5

\* The configuration in force changes to that of a save, and to no other, when
\* the save leaves Manager.Update with the file it has written.
LEMMA SavedIsNew ==
    ASSUME AdministrationInv, AllNext, NEW a \in Admins,
           Writing(a), ~Writing(a)', file' = file
    PROVE  memory' = NewConfig(a)
<1>1. /\ ConfigurationInv /\ mix \in MixType /\ updates[a].pc = "written" /\ ~Readable
      /\ file = NewConfig(a)
  BY DEF AdministrationInv, ConfigurationInv, FileAhead, Writing, Readable
<1>2. ASSUME UNCHANGED configVars
      PROVE  FALSE
  BY <1>1, <1>2 DEF configVars, Writing
<1>3. ASSUME NEW b \in Admins, Administers(b)
      PROVE  b = a /\ SetMemory(a)
  <2>1. CASE SetMemory(b)
    BY <1>1, <2>1 DEF SetMemory, ConfigurationInv, FileAhead
  <2>2. CASE \E input \in Inputs : SavePage(b, input)
    <3>1. updates[b].pc = "idle"
      BY <2>2 DEF SavePage
    <3>2. b # a
      BY <1>1, <3>1
    <3>3. updates'[a] = updates[a]
      BY <1>1, <2>2, <3>2 DEF SavePage, ConfigurationInv
    <3> QED BY <3>3 DEF Writing
  <2>3. CASE Refuse(b) \/ AsksRebalance(b) \/ SaveFails(b)
    <3>1. updates[b].pc # "written" /\ Goes(b, "idle")
      BY <2>3 DEF Refuse, AsksRebalance, SaveFails
    <3>2. b # a
      BY <1>1, <3>1
    <3>3. updates'[a] = updates[a]
      BY <1>1, <3>1, <3>2 DEF Goes, ConfigurationInv
    <3> QED BY <3>3 DEF Writing
  <2>4. ~(LoadPage(b) \/ ReadOld(b) \/ WriteFile(b))
    BY <1>1 DEF LoadPage, ReadOld, WriteFile
  <2> QED BY <1>3, <2>1, <2>2, <2>3, <2>4 DEF Administers
<1>4. CASE \E b \in Admins : Administers(b)
  BY <1>3, <1>4 DEF SetMemory
<1>5. ASSUME NEW f \in Files \cup {file}, Reload(f)
      PROVE  memory' = NewConfig(a)
  BY <1>1, <1>5 DEF Reload
<1> QED BY <1>1, <1>2, <1>4, <1>5, Parts

\* A save changes the fields that were edited, to what was typed, and no other,
\* unless another administrator was faster or a conversion cannot hold a value.
THEOREM EditsOnly == AllSpec => OnlyEditedFieldsChange
<1> DEFINE Saved(a) ==
      Writing(a) /\ ~Writing(a)' /\ file' = file =>
        LET page == updates[a].page IN
        /\ memory'["registry"] = memory["registry"]
        /\ \A x \in Visible \ Unfit(page.base, page.form) :
             page.base[x] = memory[x] =>
                memory'[x] = IF page.form[x] = Form(page.base)[x] THEN memory[x]
                             ELSE page.form[x]
<1>1. ASSUME AdministrationInv, AllNext, NEW a \in Admins
      PROVE  Saved(a)
  <2> SUFFICES ASSUME Writing(a), ~Writing(a)', file' = file
               PROVE  Saved(a)
    OBVIOUS
  <2> DEFINE page == updates[a].page
  <2>1. memory' = NewConfig(a)
    BY <1>1, SavedIsNew
  <2>2. UpdateSound(a) /\ updates[a].pc = "written"
    BY <1>1 DEF AdministrationInv, ConfigurationInv, Writing
  <2>3. memory'["registry"] = memory["registry"]
    BY <2>1, <2>2, RegistryStays
  <2>4. page \in PageType /\ Valid(page.base) /\ Schema(page.form)
    BY <2>2 DEF UpdateSound
  <2>5. page.base \in Config /\ page.form \in Data
    BY <2>4 DEF PageType
  <2>6. ASSUME NEW x \in Visible \ Unfit(page.base, page.form), page.base[x] = memory[x]
        PROVE  memory'[x] = IF page.form[x] = Form(page.base)[x] THEN memory[x] ELSE page.form[x]
    <3>1. x \in Fields /\ x \in Visible
      BY DEF Visible
    <3>2. memory'[x] = Narrowed(page.form)[x]
      BY <2>1, <3>1 DEF NewConfig, Merged, Sent
    <3> HIDE DEF page
    <3>3. Form(page.base)[x] = page.base[x] /\ Narrowed(page.form)[x] = page.form[x]
      BY <2>4, <2>5, FitStays
    <3> QED BY <2>6, <3>2, <3>3
  <2> QED BY <2>3, <2>6
<1>2. ASSUME AdministrationInv, [AllNext]_allVars
      PROVE  [\A a \in Admins : Saved(a)]_configVars
  <2>1. CASE UNCHANGED allVars
    BY <2>1 DEF allVars
  <2> HIDE DEF Saved
  <2> QED BY <1>1, <1>2, <2>1
<1> QED BY <1>2, AdministrationInvariant, PTL DEF AllSpec, OnlyEditedFieldsChange

=============================================================================
