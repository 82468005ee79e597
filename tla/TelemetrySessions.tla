------------------------- MODULE TelemetrySessions --------------------------
(***************************************************************************)
(* The Telemetry service: log streams and browser terminals, the limiters  *)
(* that count them, and the goroutines that serve one of them.  A terminal *)
(* is served by three: the handler, which waits for whatever ends it, a    *)
(* reader of the web socket and a writer of the process's output, who      *)
(* share the socket under writeMu.  A log stream has the handler and a     *)
(* scanner (its writer here), who hands it lines.                          *)
(*                                                                         *)
(* A client may stall: it stays connected and reads nothing, so that a     *)
(* write to it does not return.  No write to a client has a deadline.      *)
(***************************************************************************)
EXTENDS Integers, FiniteSets

CONSTANTS
    Streams,       \* requests for a stream; each is served once
    Actors,        \* actorKey: a scope's kind with its user, whose streams count together
    Limits,        \* kind -> what Core's configuration may say of an actor's streams
    MaxTotal       \* kind -> the limit of all streams, from Telemetry's environment

Kinds == {"logs", "terminal"}

ASSUME StreamsConstants ==
    /\ IsFiniteSet(Streams) /\ Actors # {}
    /\ Limits \in [Kinds -> SUBSET Nat]
    /\ MaxTotal \in [Kinds -> Nat \ {0}]

VARIABLES
    streams,    \* the handler of each request and its goroutines
    limiter     \* kind -> counts per actor and the total, under its mutex
streamVars == <<streams, limiter>>

StreamType ==
    [kind : Kinds, actor : Actors,
     limit : Nat,           \* of an actor's streams, as the request read it
     pc : {"idle", "target", "acquire", "attach", "ready", "serve", "inspect",
           "notify", "notifying", "wait", "done"},
     reader : {"none", "reading", "stdin", "reply", "replying", "done"},
     writer : {"none", "reading", "output", "sending", "done"},
     mutex : {"free", "handler", "reader", "writer"},
     released : BOOLEAN,    \* sync.Once of the wrapper's Close
     expired : BOOLEAN,     \* TerminalMaxDuration has passed
     client : {"reads", "stalled", "gone"},
     process : BOOLEAN]     \* there is more output to come

LimiterType == [Kinds -> [of : [Actors -> Nat], total : Nat]]

StreamsTypeOK ==
    /\ streams \in [Streams -> StreamType]
    /\ limiter \in LimiterType

Unused(kind, actor) ==
    [kind |-> kind, actor |-> actor, limit |-> 0, pc |-> "idle", reader |-> "none",
     writer |-> "none", mutex |-> "free", released |-> FALSE, expired |-> FALSE,
     client |-> "reads", process |-> TRUE]

StreamsInit ==
    /\ streams = [i \in Streams |-> Unused("logs", CHOOSE u \in Actors : TRUE)]
    /\ limiter = [k \in Kinds |-> [of |-> [u \in Actors |-> 0], total |-> 0]]

Pc(i) == streams[i].pc
Terminal(i) == streams[i].kind = "terminal"
Goto(i, pc) == streams' = [streams EXCEPT ![i].pc = pc]
Bridged == {"ready", "serve", "inspect", "notify", "notifying"}

-----------------------------------------------------------------------------
(* StreamLogs and OpenTerminal.                                            *)

Open(i, kind, actor) ==
    /\ Pc(i) = "idle"
    /\ streams' = [streams EXCEPT ![i] = [Unused(kind, actor) EXCEPT !.pc = "target"]]
    /\ UNCHANGED limiter

\* GetRuntimeConfig, whose limit may have changed since the last request read
\* it and may change again before it is used, and GetContainerTarget, with the
\* checks of Core, of the container's status and of the request's options.
Prepare(i) ==
    /\ Pc(i) = "target"
    /\ \/ \E n \in Limits[streams[i].kind] :
             streams' = [streams EXCEPT ![i].pc = "acquire", ![i].limit = n]
       \/ Goto(i, "done")
    /\ UNCHANGED limiter

\* A limit that is not positive counts as one.
AtLeastOne(n) == IF n <= 0 THEN 1 ELSE n
HasSlotOrOneMore(i) ==
    LET slots == limiter[streams[i].kind]
    IN  /\ slots.total < MaxTotal[streams[i].kind]
        /\ slots.of[streams[i].actor] <= AtLeastOne(streams[i].limit)
HasSlot(i) ==
    LET slots == limiter[streams[i].kind]
    IN  /\ slots.total < MaxTotal[streams[i].kind]
        /\ slots.of[streams[i].actor] < AtLeastOne(streams[i].limit)
Acquire(i) ==
    /\ Pc(i) = "acquire"
    /\ LET k == streams[i].kind
           u == streams[i].actor
       IN  IF HasSlot(i)
           THEN /\ limiter' = [limiter EXCEPT ![k].of[u] = @ + 1, ![k].total = @ + 1]
                /\ Goto(i, "attach")
           ELSE UNCHANGED limiter /\ Goto(i, "done")

Release(i) ==
    LET k == streams[i].kind
        u == streams[i].actor
    IN  limiter' = IF limiter[k].of[u] <= 0 THEN limiter
                   ELSE [limiter EXCEPT ![k].of[u] = @ - 1, ![k].total = @ - 1]

\* EnsureContainerTarget, then ContainerLogs or the creation and attachment of
\* an exec; each failure gives the slot back.
Attach(i) ==
    /\ Pc(i) = "attach"
    /\ \/ /\ streams' = [streams EXCEPT ![i].pc = IF Terminal(i) THEN "ready" ELSE "serve",
                            ![i].writer = IF Terminal(i) THEN "none" ELSE "reading"]
          /\ UNCHANGED limiter
       \/ Goto(i, "done") /\ Release(i)

-----------------------------------------------------------------------------
(* The client and the process.                                             *)

Writing(i) ==
    \/ Pc(i) \in {"ready", "notifying"} \/ (Pc(i) = "notify" /\ ~Terminal(i))
    \/ streams[i].writer = "sending" \/ streams[i].reader = "replying"
ClientStalls(i) ==
    /\ streams[i].client = "reads" /\ Writing(i)
    /\ streams' = [streams EXCEPT ![i].client = "stalled"]
ClientResumes(i) ==
    /\ streams[i].client = "stalled"
    /\ streams' = [streams EXCEPT ![i].client = "reads"]
ClientLeaves(i) ==
    /\ Pc(i) \in Bridged /\ streams[i].client # "gone"
    /\ streams' = [streams EXCEPT ![i].client = "gone"]
OutputEnds(i) ==
    /\ Pc(i) \in Bridged /\ streams[i].process
    /\ streams' = [streams EXCEPT ![i].process = FALSE]
Environment(i) ==
    /\ ClientStalls(i) \/ ClientResumes(i) \/ ClientLeaves(i) \/ OutputEnds(i)
    /\ UNCHANGED limiter

SocketClosed(i) == Pc(i) \in {"wait", "done"}
WriteReturns(i) == streams[i].client # "stalled" \/ SocketClosed(i)
WriteFails(i) == streams[i].client = "gone" \/ SocketClosed(i)
\* The context of a log request ends with its client; the adapter closes its pipe.
OutputOver(i) ==
    ~streams[i].process \/ SocketClosed(i) \/ (~Terminal(i) /\ streams[i].client = "gone")
Canceled(i) == streams[i].expired \/ SocketClosed(i)

-----------------------------------------------------------------------------
(* The reader of a terminal.                                               *)

Reads(i, state) == streams' = [streams EXCEPT ![i].reader = state]

\* A message: input for the process, a control message that is answered, a
\* resize, which is not, or the client's request to close.
ReadMessage(i) ==
    /\ streams[i].reader = "reading" /\ streams[i].client # "gone" /\ ~SocketClosed(i)
    /\ IF Canceled(i) THEN Reads(i, "done")
       ELSE \E next \in {"stdin", "reply", "done"} : Reads(i, next)

\* The socket is closed, the client is gone, or the idle deadline has passed.
ReadFails(i) == streams[i].reader = "reading" /\ Reads(i, "done")

InputWritten(i) == streams[i].reader = "stdin" /\ ~SocketClosed(i) /\ Reads(i, "reading")
InputFails(i) == streams[i].reader = "stdin" /\ OutputOver(i) /\ Reads(i, "done")

\* writeJSON: a write to the socket under writeMu.
SocketFree(i) == streams[i].mutex = "free"
LockReply(i) ==
    /\ streams[i].reader = "reply" /\ SocketFree(i)
    /\ streams' = [streams EXCEPT ![i].mutex = "reader", ![i].reader = "replying"]
Replied(i) ==
    /\ streams[i].reader = "replying" /\ WriteReturns(i)
    /\ streams' = [streams EXCEPT ![i].mutex = "free", ![i].reader = "reading"]

ReaderStep(i) ==
    /\ \/ ReadMessage(i) \/ ReadFails(i) \/ InputWritten(i) \/ InputFails(i)
       \/ LockReply(i) \/ Replied(i)
    /\ UNCHANGED limiter

-----------------------------------------------------------------------------
(* The writer: writeTerminalOutput, or the scanner of a log stream.        *)

Writes(i, state) == streams' = [streams EXCEPT ![i].writer = state]

ReadOutput(i) == streams[i].writer = "reading" /\ ~OutputOver(i) /\ Writes(i, "output")
ReadEnd(i) == streams[i].writer = "reading" /\ OutputOver(i) /\ Writes(i, "done")

LockOutput(i) ==
    /\ Terminal(i) /\ streams[i].writer = "output" /\ SocketFree(i)
    /\ streams' = [streams EXCEPT ![i].mutex = "writer", ![i].writer = "sending"]
Sent(i) ==
    /\ streams[i].writer = "sending" /\ WriteReturns(i)
    /\ streams' = [streams EXCEPT ![i].mutex = "free",
                     ![i].writer = IF WriteFails(i) THEN "done" ELSE "reading"]

\* A line is handed to the handler of a log stream, unless that has returned.
HandLine(i) ==
    /\ ~Terminal(i) /\ streams[i].writer = "output"
    /\ Pc(i) = "serve"
    /\ streams' = [streams EXCEPT ![i].writer = "reading", ![i].pc = "notifying"]
DropLine(i) ==
    /\ ~Terminal(i) /\ streams[i].writer = "output"
    /\ streams[i].client = "gone" \/ SocketClosed(i)
    /\ Writes(i, "done")

WriterStep(i) ==
    /\ ReadOutput(i) \/ ReadEnd(i) \/ LockOutput(i) \/ Sent(i) \/ HandLine(i) \/ DropLine(i)
    /\ UNCHANGED limiter

-----------------------------------------------------------------------------
(* The handler.                                                            *)

\* Close of the wrapper: the slot is given back the first time only.
CloseOnce(i) == IF streams[i].released THEN UNCHANGED limiter ELSE Release(i)

Ready(i) ==
    /\ Pc(i) = "ready" /\ WriteReturns(i)
    /\ streams' = [streams EXCEPT ![i].pc = "serve", ![i].reader = "reading",
                                  ![i].writer = "reading"]
    /\ UNCHANGED limiter

MaxDurationPasses(i) ==
    /\ Terminal(i) /\ Pc(i) \in Bridged /\ ~streams[i].expired
    /\ streams' = [streams EXCEPT ![i].expired = TRUE]
    /\ UNCHANGED limiter

\* session.Close and conn.Close; a log stream is closed when its handler returns.
Closed(s) ==
    [s EXCEPT !.pc = "wait", !.released = TRUE, !.client = "gone", !.process = FALSE,
              !.limit = 0]
Leave(i) ==
    /\ CloseOnce(i)
    /\ streams' = [streams EXCEPT ![i] = Closed(@)]

NoTimeout(i) == FALSE
TimeIsOver(i) == streams[i].expired
\* The select of bridgeTerminal.
Select(i) ==
    /\ Terminal(i) /\ Pc(i) = "serve"
    /\ \/ streams[i].reader = "done" /\ Leave(i)
       \/ streams[i].writer = "done" /\ Goto(i, "inspect") /\ UNCHANGED limiter
       \/ TimeIsOver(i) /\ Goto(i, "notify") /\ UNCHANGED limiter

\* An exec that has ended is reported to the client; Docker may not know yet.
Inspect(i) ==
    /\ Pc(i) = "inspect"
    /\ \/ ~streams[i].process /\ Goto(i, "notify") /\ UNCHANGED limiter
       \/ Leave(i)

LockNotice(i) ==
    /\ Terminal(i) /\ Pc(i) = "notify" /\ SocketFree(i)
    /\ streams' = [streams EXCEPT ![i].mutex = "handler", ![i].pc = "notifying"]
    /\ UNCHANGED limiter
Notified(i) ==
    /\ Terminal(i) /\ Pc(i) = "notifying" /\ WriteReturns(i)
    /\ CloseOnce(i)
    /\ streams' = [streams EXCEPT ![i] = [Closed(@) EXCEPT !.mutex = "free"]]

\* The loop of writeLogEvents; heartbeats are left out.
LogWritten(i) ==
    /\ ~Terminal(i) /\ Pc(i) = "notifying" /\ WriteReturns(i)
    /\ Goto(i, "serve")
    /\ UNCHANGED limiter

\* It ends with the request's context, or after the scanner with a last event.
LogsEnd(i) ==
    /\ ~Terminal(i) /\ Pc(i) = "serve"
    /\ \/ streams[i].client = "gone" /\ Leave(i)
       \/ streams[i].writer = "done" /\ Goto(i, "notify") /\ UNCHANGED limiter
EndWritten(i) ==
    /\ ~Terminal(i) /\ Pc(i) = "notify" /\ WriteReturns(i)
    /\ Leave(i)

\* waitTerminalBridge ends after a second at the latest; the deferred Close.
Return(i) ==
    /\ Pc(i) = "wait"
    /\ IF Terminal(i) THEN CloseOnce(i) ELSE UNCHANGED limiter
    /\ Goto(i, "done")

HandlerProceeds(i) ==
    \/ Prepare(i) \/ Acquire(i) \/ Attach(i) \/ Ready(i) \/ Select(i) \/ Inspect(i)
    \/ Notified(i) \/ LogWritten(i) \/ LogsEnd(i) \/ EndWritten(i) \/ Return(i)

StreamStep(i) ==
    \/ HandlerProceeds(i) \/ LockNotice(i) \/ MaxDurationPasses(i)
    \/ ReaderStep(i) \/ WriterStep(i) \/ Environment(i)

StreamsNext ==
    \E i \in Streams :
        StreamStep(i) \/ (\E k \in Kinds, u \in Actors : Open(i, k, u))

\* Every call of Core and Docker returns, a deadline is reached, a goroutine that
\* can proceed does: a mutex is not withheld for ever, and a client that reads
\* again and again takes what is written to it.  Nothing is assumed of clients,
\* of the process, or of messages and output that may come; the idle timeout is
\* not counted on either.
HandlerStepOf(i) == HandlerProceeds(i) \/ LockNotice(i)
ReaderEnds(i) ==
    /\ \/ ReadFails(i) /\ (SocketClosed(i) \/ streams[i].client = "gone")
       \/ InputFails(i) \/ LockReply(i) \/ Replied(i)
    /\ UNCHANGED limiter
WriterEnds(i) ==
    /\ ReadEnd(i) \/ LockOutput(i) \/ Sent(i) \/ HandLine(i) \/ DropLine(i)
    /\ UNCHANGED limiter
StreamFairness ==
    \A i \in Streams :
        /\ SF_streamVars(HandlerStepOf(i))
        /\ SF_streamVars(ReaderEnds(i))
        /\ SF_streamVars(WriterEnds(i))
        /\ WF_streamVars(MaxDurationPasses(i))

StreamsSpec == StreamsInit /\ [][StreamsNext]_streamVars

-----------------------------------------------------------------------------
(* Properties.                                                             *)

\* The limiter counts exactly the streams between their admission and their
\* first Close, on every path that ends one and although Close is called
\* twice; so no slot is lost and the total is kept.  Though each request reads
\* the limit of an actor anew and may use one that has changed since, an actor
\* never holds more streams than the limit one of them was admitted under.
\* An actor is not a person: an administrator has one as a user, another as
\* administrator, and a limit's worth of streams as each.
Holds(i) == Pc(i) \in {"attach"} \cup Bridged
Holding(k) == {i \in Streams : Holds(i) /\ streams[i].kind = k}
Served(k, u) == {i \in Holding(k) : streams[i].actor = u}
WithinLimit(n, held) == held = {} \/ \E i \in held : n <= AtLeastOne(streams[i].limit)
SlotsMatchStreams ==
    \A k \in Kinds :
        /\ limiter[k].total = Cardinality(Holding(k))
        /\ limiter[k].total <= MaxTotal[k]
        /\ \A u \in Actors :
             /\ limiter[k].of[u] = Cardinality(Served(k, u))
             /\ WithinLimit(limiter[k].of[u], Served(k, u))

\* A terminal ends with all its goroutines, whatever the process and the client
\* do, and so does a log stream whose client has left or whose container has
\* stopped; except while a client that stays connected reads nothing, for writes
\* have no deadline and the notice of the timeout waits for writeMu.
Ended(i) ==
    Pc(i) = "done" /\ streams[i].reader \in {"none", "done"}
                  /\ streams[i].writer \in {"none", "done"}
Abandoned(i) == streams[i].client = "gone" \/ ~streams[i].process
StreamsEnd ==
    \A i \in Streams :
        (Pc(i) # "idle" /\ (Terminal(i) \/ Abandoned(i)))
            ~> (Ended(i) \/ [](streams[i].client = "stalled"))

=============================================================================
