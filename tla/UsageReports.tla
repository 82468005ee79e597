----------------------------- MODULE UsageReports -----------------------------
(***************************************************************************)
(* The reports of usage: a worker of Core counts, at every interval of the *)
(* configuration and whenever an administrator asks, what each owner has,  *)
(* and stores a snapshot per owner in ClickHouse under the bucket of time  *)
(* it falls into.  A report lists the latest snapshot of each owner among  *)
(* the buckets of the window that the page has fixed when it was opened.   *)
(*                                                                         *)
(* Memory, CPU and disk are left out of the usage: they are summed like    *)
(* what is counted here.                                                   *)
(***************************************************************************)
EXTENDS Admission, Configuration

CONSTANTS
    Offset,     \* time between the year 1, from which Go counts, and 1970
    Day         \* the shortest window of the page, the longest interval

ASSUME ReportConstants == Offset \in Nat /\ Day \in Nat /\ \A i \in Intervals : i <= Day

VARIABLES
    clock,
    worker,     \* ReportsUsageWorker
    refresh,    \* the request in its channel
    snapshots,  \* user_resource_usage_snapshots
    asked,      \* ghost: the collection the last request for a refresh is owed
    stored      \* ghost: the last collection that was stored

reportVars == <<clock, worker, refresh, snapshots, asked, stored>>

Usages == [total : Nat, running : Nat, reserved : Nat, builds : Nat]

\* n counts the collections and stands for collected_at; found is what the
\* queries found.
WorkerType ==
    [pc : {"start", "query", "insert", "waiting"}, n : Nat, bucket : Int,
     found : UNION {[owners -> Usages] : owners \in SUBSET Users}, deadline : Nat]
Empty == [u \in {} |-> 0]
Started(n) == [pc |-> "start", n |-> n, bucket |-> 0, found |-> Empty, deadline |-> 0]

\* CollectUsageSnapshots: the owners that have a row, and what they have.
Owners == {u \in Users : (\E c \in Containers : Owner[c] = u /\ Exists(c))
                         \/ \E b \in Builds : Owner[b] = u /\ builds[b] # "none"}
Usage(u) ==
    [total |-> Cardinality(OwnedBy(u)),
     running |-> Cardinality({c \in OwnedBy(u) : rows[c] = "running"}),
     reserved |-> Total(OwnedBy(u) \cap Wanted, "ram"),
     builds |-> Cardinality({b \in Builds : Owner[b] = u /\ builds[b] # "none"})]

\* time.Truncate.
Truncate(t, interval) == t - ((t + Offset) % interval)

-----------------------------------------------------------------------------
(* The worker *)

\* Its first collection, one that was asked for, or the timer.
Collects ==
    worker' = [worker EXCEPT !.pc = "query", !.n = @ + 1,
                             !.bucket = Truncate(clock, memory["interval"])]
BeginFirst ==
    /\ worker.pc = "start" /\ Readable
    /\ Collects
    /\ UNCHANGED <<clock, refresh, snapshots, asked, stored>>
BeginAsked ==
    /\ worker.pc = "waiting" /\ refresh /\ Readable
    /\ refresh' = FALSE
    /\ Collects
    /\ UNCHANGED <<clock, snapshots, asked, stored>>
BeginTimed ==
    /\ worker.pc = "waiting" /\ clock >= worker.deadline /\ Readable
    /\ Collects
    /\ UNCHANGED <<clock, refresh, snapshots, asked, stored>>

Query ==
    /\ worker.pc = "query"
    /\ worker' = [worker EXCEPT !.pc = "insert", !.found = [u \in Owners |-> Usage(u)]]
    /\ UNCHANGED <<clock, refresh, snapshots, asked, stored>>

\* After each collection the interval is read again.
Waits == worker' = [worker EXCEPT !.pc = "waiting", !.deadline = clock + memory["interval"]]

\* InsertUsageSnapshots: one transaction.
Insert ==
    /\ worker.pc = "insert" /\ Readable
    /\ snapshots' = snapshots \cup
           {[owner |-> u, bucket |-> worker.bucket, n |-> worker.n, usage |-> worker.found[u]]
              : u \in DOMAIN worker.found}
    /\ stored' = worker.n
    /\ Waits
    /\ UNCHANGED <<clock, refresh, asked>>
\* A query or ClickHouse fails: the collection is gone.
CollectionFails ==
    /\ worker.pc \in {"query", "insert"} /\ Readable
    /\ Waits
    /\ UNCHANGED <<clock, refresh, snapshots, asked, stored>>

WorkerStep == BeginFirst \/ BeginAsked \/ BeginTimed \/ Query \/ Insert

\* A restart of Core starts the worker anew and empties the channel.
WorkerRestarts ==
    /\ worker' = Started(worker.n)
    /\ refresh' = FALSE
    /\ UNCHANGED <<clock, snapshots, asked, stored>>

\* Mutant: a channel without a slot, which only a waiting worker reads.
HeardIfWaiting == refresh \/ worker.pc = "waiting"

Heard == TRUE

\* RefreshUsageSnapshots answers before anything is collected.
AskRefresh ==
    /\ refresh' = Heard
    /\ asked' = worker.n + 1
    /\ UNCHANGED <<clock, worker, snapshots, stored>>

Tick ==
    /\ clock' = clock + 1
    /\ UNCHANGED <<worker, refresh, snapshots, asked, stored>>

-----------------------------------------------------------------------------
(* The report *)

InWindow(u, from, to) == {s \in snapshots : s.owner = u /\ from <= s.bucket /\ s.bucket < to}

\* Mutant: the latest bucket counts before the latest collection.
ByBucket(set) ==
    CHOOSE s \in set : \A t \in set :
        t.bucket < s.bucket \/ (t.bucket = s.bucket /\ t.n <= s.n)

\* argMax(..., collected_at).
Latest(set) == CHOOSE s \in set : \A t \in set : t.n <= s.n

\* ListUserUsageReport and GetReportsOverview, from a page opened at some time.
Listed(u, opened) == Latest(InWindow(u, opened - Day, opened)).usage

-----------------------------------------------------------------------------

ReportsInit ==
    /\ clock = Day
    /\ worker = Started(0)
    /\ refresh = FALSE
    /\ snapshots = {}
    /\ asked = 0 /\ stored = 0

ReportsTypeOK ==
    /\ clock \in Nat
    /\ worker \in WorkerType
    /\ refresh \in BOOLEAN
    /\ \A s \in snapshots : s.owner \in Users /\ s.usage \in Usages
    /\ asked \in Nat /\ stored \in Nat

\* A page that was opened after the bucket of the last collection began, and
\* before the next is due, lists what that collection found, whatever was
\* collected before under which intervals; an interval so long that the bucket
\* is a day old by then is excepted.
ReportIsCurrent ==
    worker.pc = "waiting" /\ stored = worker.n /\ worker.deadline - worker.bucket <= Day =>
        \A opened \in (worker.bucket + 1)..clock :
            opened <= worker.deadline =>
                \A u \in DOMAIN worker.found : Listed(u, opened) = worker.found[u]

=============================================================================
